------------------------------- MODULE Sessions -------------------------------
(***************************************************************************)
(* Class UserManager: the table of sessions, login(), logout() and halt(), *)
(* with the system open-file slots that each session holds.  A place of    *)
(* m_users whose u_uid is 0 is taken for free, although 0 is also the uid  *)
(* of the root.                                                            *)
(***************************************************************************)
EXTENDS Integers, FiniteSets

CONSTANTS
  Uids,         \* the users of the password file
  USERNUM,      \* places in m_users
  NOFILE,       \* descriptors of a session
  Slots         \* the places of the system open-file table

ASSUME SessionsAssumption ==
  /\ Uids \subseteq Nat
  /\ USERNUM \in Nat \ {0}
  /\ NOFILE \in Nat \ {0}

VARIABLES
  users,        \* m_users: the uid of each session and the slots of its u_ofile
  cur,          \* m_user_id
  open,         \* the slots with f_count > 0
  phase         \* "login" in Core::init(), "shell" in Shell::run(), "halted"

vars == <<users, cur, open, phase>>

Places == 0 .. USERNUM - 1
Nobody == -1
NoSession == [uid |-> 0, slots |-> {}]

First(S) == CHOOSE x \in S : \A y \in S : x <= y
Having(us, uid) == {j \in Places : us[j].uid = uid}

Init ==
  /\ users = [j \in Places |-> NoSession]
  /\ cur = Nobody
  /\ open = {}
  /\ phase = "login"

-----------------------------------------------------------------------------
\* login() with the right password: the first place whose uid is 0.
Login(uid) ==
  /\ phase # "halted"
  /\ Having(users, 0) # {}
  /\ cur' = First(Having(users, 0))
  /\ users' = [users EXCEPT ![cur'] = [uid |-> uid, slots |-> {}]]
  /\ phase' = "shell"
  /\ UNCHANGED open

\* Mutant: the search for a free descriptor does not stop at NOFILE.
OpenFileUnchecked(s) ==
  /\ phase = "shell" /\ cur # Nobody
  /\ s \notin open
  /\ open' = open \cup {s}
  /\ users' = [users EXCEPT ![cur].slots = @ \cup {s}]
  /\ UNCHANGED <<cur, phase>>

\* creat() and open(), close(): a slot of the current session.
OpenFile(s) ==
  /\ phase = "shell" /\ cur # Nobody
  /\ s \notin open
  /\ Cardinality(users[cur].slots) < NOFILE
  /\ open' = open \cup {s}
  /\ users' = [users EXCEPT ![cur].slots = @ \cup {s}]
  /\ UNCHANGED <<cur, phase>>

CloseFile(s) ==
  /\ phase = "shell" /\ cur # Nobody
  /\ s \in users[cur].slots
  /\ open' = open \ {s}
  /\ users' = [users EXCEPT ![cur].slots = @ \ {s}]
  /\ UNCHANGED <<cur, phase>>

\* Mutant: logout() clears the place without closing its files.
LoggedOutUnclosed(us, uid) ==
  IF Having(us, uid) = {} THEN us
  ELSE [us EXCEPT ![First(Having(us, uid))].uid = 0]

\* logout(uid): the first place with that uid is cleared, its files closed.
LoggedOut(us, uid) ==
  IF Having(us, uid) = {} THEN us
  ELSE [us EXCEPT ![First(Having(us, uid))] = NoSession]

\* The slots that are still open when the table goes from users to us.
StillOpen(us) ==
  LET taken(t) == UNION {t[j].slots : j \in Places}
  IN  open \ (taken(users) \ taken(us))

\* The shell's logout command, which passes the uid of the current session.
Logout ==
  /\ phase = "shell" /\ cur # Nobody
  /\ LET uid == users[cur].uid
     IN  /\ users' = LoggedOut(users, uid)
         /\ cur' = IF cur = First(Having(users, uid)) THEN Nobody ELSE cur
  /\ open' = StillOpen(users')
  /\ UNCHANGED phase

\* Mutant: the loop of halt() leaves out the last place.
HaltLoopShort ==
  LET after[k \in 0 .. USERNUM] ==
        IF k = 0 THEN users
        ELSE IF k = USERNUM THEN after[k - 1]
        ELSE LoggedOut(after[k - 1], after[k - 1][k - 1].uid)
  IN  after[USERNUM]

\* halt() logs out the uid it finds in each place, in turn.
HaltLoop ==
  LET after[k \in 0 .. USERNUM] ==
        IF k = 0 THEN users ELSE LoggedOut(after[k - 1], after[k - 1][k - 1].uid)
  IN  after[USERNUM]

\* The halt command, the end of the input, or a failed login in Core::init();
\* the program ends here.
Halt ==
  /\ phase # "halted"
  /\ users' = HaltLoop
  /\ open' = StillOpen(users')
  /\ cur' = Nobody
  /\ phase' = "halted"

Next ==
  \/ \E uid \in Uids : Login(uid)
  \/ \E s \in Slots : OpenFile(s) \/ CloseFile(s)
  \/ Logout
  \/ Halt

Spec == Init /\ [][Next]_vars

-----------------------------------------------------------------------------
(***************************************************************************)
(* Properties.                                                             *)
(***************************************************************************)

TypeOK ==
  /\ users \in [Places -> [uid : Uids \cup {0}, slots : SUBSET Slots]]
  /\ cur \in Places \cup {Nobody}
  /\ open \subseteq Slots
  /\ phase \in {"login", "shell", "halted"}
  /\ \A j \in Places : Cardinality(users[j].slots) <= NOFILE

\* An open slot belongs to exactly one session: it can be closed, and only once.
\* A slot that no session holds keeps its inode in memory, and its size and
\* blocks off the disk, until the program ends.
SlotsHeldOnce ==
  /\ open = UNION {users[j].slots : j \in Places}
  /\ \A i, j \in Places : users[i].slots \cap users[j].slots # {} => i = j

\* "log out all users": after halt() no session has a file open.
HaltLogsOutAll ==
  phase = "halted" => \A j \in Places : users[j].slots = {}

\* "closes all open files and clears the slot": after the logout command nobody
\* is logged in at the prompt.
LogoutEndsSession == [][Logout => cur' = Nobody]_vars
================================================================================
