-------------------------------- MODULE Accounts --------------------------------
(***************************************************************************)
(* The accounts of UserManager: the password table in memory and its copy  *)
(* in the password file, the command reg, login() by password, halt(), and *)
(* a process that ends without it, over the table of sessions.             *)
(***************************************************************************)
EXTENDS Sessions, Sequences

CONSTANTS
  Words,        \* the passwords that are typed
  Kept,         \* what the table keeps of each: its first PWDSIZ - 1 characters
  PWDNUM,       \* places in m_pwd
  Formatted,    \* the accounts that format() writes
  RootApart     \* whether the root logs in only while nobody else is

NoWord == ""

ASSUME AccountsAssumption ==
  /\ NoWord \notin Words
  /\ Kept \in [Words -> Words]
  /\ PWDNUM \in Nat
  /\ Formatted \in Seq(Uids \X Words) /\ Len(Formatted) <= PWDNUM
  /\ RootApart \in BOOLEAN

VARIABLES
  pwd,          \* m_pwd, the uid and the password of each place
  saved,        \* the block of the password file
  given         \* the accounts as they were registered

avars == <<vars, pwd, saved, given>>

Free == <<0, NoWord>>

AccountsInit ==
  /\ Init
  /\ pwd = [k \in 1 .. PWDNUM |-> IF k <= Len(Formatted) THEN Formatted[k] ELSE Free]
  /\ saved = pwd
  /\ given = {Formatted[k] : k \in DOMAIN Formatted}

-----------------------------------------------------------------------------
\* login() compares the password as it was typed.
Known(uid, word) == \E k \in DOMAIN pwd : pwd[k] = <<uid, word>>

\* The guard of RootApart: nobody logs in beside the root.
Apart(uid) ==
  RootApart => /\ cur # Nobody => users[cur].uid # 0
               /\ uid = 0 => \A j \in Places : users[j] = NoSession

LoginWith(uid, word) ==
  /\ Known(uid, word)
  /\ Apart(uid)
  /\ Login(uid)
  /\ UNCHANGED <<pwd, saved, given>>

\* Mutant: a place counts as free when its uid is 0.
VacantByUid == {k \in DOMAIN pwd : pwd[k][1] = 0}

\* The places whose uid is 0 and whose password is empty.
Vacant == {k \in DOMAIN pwd : pwd[k] = Free}

\* reg, for the root only, saves the table at once.
Reg(uid, word) ==
  /\ phase = "shell" /\ cur # Nobody /\ users[cur].uid = 0
  /\ Vacant # {}
  /\ pwd' = [pwd EXCEPT ![First(Vacant)] = <<uid, Kept[word]>>]
  /\ saved' = pwd'
  /\ given' = given \cup {<<uid, word>>}
  /\ UNCHANGED vars

HaltSaved == Halt /\ saved' = pwd /\ UNCHANGED <<pwd, given>>

\* The program is started again, after halt() or after it was killed.
Restart ==
  /\ users' = [j \in Places |-> NoSession]
  /\ cur' = Nobody
  /\ open' = {}
  /\ phase' = "login"
  /\ pwd' = saved
  /\ UNCHANGED <<saved, given>>

AccountsNext ==
  \/ \E uid \in Uids, word \in Words : LoginWith(uid, word) \/ Reg(uid, word)
  \/ (\E s \in Slots : OpenFile(s) \/ CloseFile(s)) /\ UNCHANGED <<pwd, saved, given>>
  \/ Logout /\ UNCHANGED <<pwd, saved, given>>
  \/ HaltSaved
  \/ Restart

AccountsSpec == AccountsInit /\ [][AccountsNext]_avars

-----------------------------------------------------------------------------
\* Whoever has been registered can log in with the password that was typed,
\* whatever was registered after, and also after the program was halted or
\* killed and started again.
AccountsKept == \A a \in given : Known(a[1], a[2])
=================================================================================
