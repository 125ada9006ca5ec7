---------------------------- MODULE AccountsProofs ----------------------------
(***************************************************************************)
(* For every number of users, places and descriptors: every open slot of   *)
(* Accounts belongs to one session and halt() closes them all, as long as  *)
(* nobody logs in beside the root; and every account that was registered   *)
(* can log in, as long as the table keeps passwords whole.                 *)
(***************************************************************************)
EXTENDS Accounts, TLAPS, FiniteSetTheorems, SequenceTheorems, WellFoundedInduction

-----------------------------------------------------------------------------
(***************************************************************************)
(* The search for a place.                                                 *)
(***************************************************************************)

\* A set of numbers that is not empty has a least element: what First chooses.
LEMMA FirstIsLeast ==
  ASSUME NEW S \in SUBSET Nat, S # {}
  PROVE  First(S) \in S /\ \A y \in S : First(S) <= y
<1>1. IsWellFoundedOn(OpToRel(<, Nat), Nat)
  BY NatLessThanWellFounded
<1>2. PICK x \in S : \A y \in S : ~(<<y, x>> \in OpToRel(<, Nat))
  BY <1>1, WFMin
<1>3. \A y \in S : ~(y < x)
  BY <1>2 DEF OpToRel
<1>4. \A y \in S : x <= y
  BY <1>3
<1> QED
  BY <1>4, Zenon DEF First

Session == [uid : Uids \cup {0}, slots : SUBSET Slots]

LEMMA PlacesBasic ==
  /\ USERNUM \in Nat \ {0} /\ 0 \in Places /\ Places \subseteq Nat /\ Nobody \notin Places
  /\ NoSession \in Session /\ NoSession.uid = 0 /\ NoSession.slots = {}
  /\ \A us, u : Having(us, u) \subseteq Places
BY SessionsAssumption DEF Places, Nobody, NoSession, Session, Having

\* login() takes the first place that has a given uid.
LEMMA FirstHaving ==
  ASSUME NEW us, NEW u, NEW j \in Having(us, u), NEW p, p = First(Having(us, u))
  PROVE  /\ p \in Places /\ us[p].uid = u
         /\ \A y \in Places : us[y].uid = u => p <= y
<1>1. Having(us, u) \in SUBSET Nat /\ Having(us, u) # {}
  BY PlacesBasic
<1>2. p \in Having(us, u) /\ \A y \in Having(us, u) : p <= y
  BY <1>1, FirstIsLeast
<1> QED
  BY <1>2 DEF Having

\* logout() empties that place and no other.
LEMMA OnePlaceCleared ==
  ASSUME NEW us \in [Places -> Session], NEW u, NEW j \in Having(us, u),
         NEW p, p = First(Having(us, u)), NEW v, v = LoggedOut(us, u)
  PROVE  /\ v \in [Places -> Session] /\ v[p] = NoSession
         /\ \A i \in Places \ {p} : v[i] = us[i]
<1>1. p \in Places
  BY FirstHaving
<1>2. v = [us EXCEPT ![p] = NoSession]
  BY DEF LoggedOut
<1> QED
  BY <1>1, <1>2, PlacesBasic

-----------------------------------------------------------------------------
(***************************************************************************)
(* The loop of halt().                                                     *)
(***************************************************************************)

\* f holds the table before each of n turns of the loop and after the last.
Loop(us, n, f) ==
  f = [k \in 0 .. n |-> IF k = 0 THEN us ELSE LoggedOut(f[k - 1], f[k - 1][k - 1].uid)]

\* The loop can go on for any number of turns.
LEMMA LoopExists ==
  ASSUME NEW us, NEW n \in Nat
  PROVE  \E f : Loop(us, n, f)
<1> DEFINE T == {k \in Nat : ~ \E f : Loop(us, k, f)}
<1>1. SUFFICES ASSUME T # {} PROVE FALSE
  OBVIOUS
<1>2. PICK k : k = First(T)
  OBVIOUS
<1>3. k \in Nat /\ (~ \E f : Loop(us, k, f)) /\ \A y \in T : k <= y
  BY <1>1, <1>2, FirstIsLeast
<1>4. CASE k = 0
  <2>1. PICK g : g = [i \in 0 .. k |-> us]
    OBVIOUS
  <2>2. \A i \in 0 .. k : i = 0
    BY <1>4
  <2>3. g = [i \in 0 .. k |-> IF i = 0 THEN us ELSE LoggedOut(g[i - 1], g[i - 1][i - 1].uid)]
    BY <2>1, <2>2
  <2> QED
    BY <1>3, <2>3 DEF Loop
<1>5. CASE k # 0
  <2>1. PICK m \in Nat : k = m + 1 /\ m = k - 1
    BY <1>3, <1>5
  <2>2. PICK f : Loop(us, m, f)
    <3>1. m \notin T
      BY <1>3, <2>1
    <3> QED
      BY <3>1
  <2>3. PICK g : g = [i \in 0 .. k |-> IF i <= m THEN f[i] ELSE LoggedOut(f[m], f[m][m].uid)]
    OBVIOUS
  <2>4. ASSUME NEW i \in 0 .. k
        PROVE  g[i] = IF i = 0 THEN us ELSE LoggedOut(g[i - 1], g[i - 1][i - 1].uid)
    <3>1. CASE i = 0
      <4>1. 0 \in 0 .. m /\ 0 <= m /\ 0 \in 0 .. k
        BY <2>1
      <4> QED
        BY <2>2, <2>3, <3>1, <4>1 DEF Loop
    <3>2. CASE i # 0 /\ i <= m
      <4>1. i \in 0 .. m /\ i - 1 \in 0 .. k /\ i - 1 <= m
        BY <2>1, <3>2
      <4>2. g[i] = f[i] /\ g[i - 1] = f[i - 1]
        BY <2>3, <3>2, <4>1
      <4>3. f[i] = LoggedOut(f[i - 1], f[i - 1][i - 1].uid)
        BY <2>2, <3>2, <4>1 DEF Loop
      <4> QED
        BY <3>2, <4>2, <4>3
    <3>3. CASE ~(i <= m)
      <4>1. i = k /\ i - 1 = m /\ m \in 0 .. k /\ m <= m /\ i # 0
        BY <2>1, <3>3
      <4>2. g[i] = LoggedOut(f[m], f[m][m].uid) /\ g[m] = f[m]
        BY <2>3, <3>3, <4>1
      <4> QED
        BY <4>1, <4>2
    <3> QED
      BY <3>1, <3>2, <3>3
  <2>5. DOMAIN g = 0 .. k /\ g = [i \in 0 .. k |-> g[i]]
    BY <2>3
  <2>6. g = [i \in 0 .. k |-> IF i = 0 THEN us ELSE LoggedOut(g[i - 1], g[i - 1][i - 1].uid)]
    BY <2>4, <2>5
  <2> QED
    BY <1>3, <2>6 DEF Loop
<1> QED
  BY <1>4, <1>5

\* What halt() leaves is the table after the last turn.
LEMMA HaltLoopValue ==
  \E f : Loop(users, USERNUM, f) /\ HaltLoop = f[USERNUM]
<1> DEFINE after[k \in 0 .. USERNUM] ==
             IF k = 0 THEN users ELSE LoggedOut(after[k - 1], after[k - 1][k - 1].uid)
<1>1. HaltLoop = after[USERNUM]
  BY DEF HaltLoop
<1>2. after = CHOOSE f : Loop(users, USERNUM, f)
  BY DEF Loop
<1> HIDE DEF after
<1>3. \E f : Loop(users, USERNUM, f)
  BY PlacesBasic, LoopExists
<1> QED
  BY <1>1, <1>2, <1>3

\* One turn of the loop finds the session that it looks at, or one before it.
LEMMA OneTurn ==
  ASSUME NEW us \in [Places -> Session], NEW k \in Places,
         NEW v, v = LoggedOut(us, us[k].uid)
  PROVE  /\ v \in [Places -> Session]
         /\ \E p \in Places : /\ us[p].uid = us[k].uid /\ p <= k /\ v[p] = NoSession
                              /\ \A i \in Places \ {p} : v[i] = us[i]
                              /\ \A i \in Places : us[i].uid = us[k].uid => p <= i
<1>1. k \in Having(us, us[k].uid)
  BY DEF Having
<1>2. PICK p : p = First(Having(us, us[k].uid))
  OBVIOUS
<1>3. /\ p \in Places /\ us[p].uid = us[k].uid
      /\ \A i \in Places : us[i].uid = us[k].uid => p <= i
  BY <1>1, <1>2, FirstHaving
<1>4. /\ v \in [Places -> Session] /\ v[p] = NoSession
      /\ \A i \in Places \ {p} : v[i] = us[i]
  BY <1>1, <1>2, OnePlaceCleared
<1> QED
  BY <1>3, <1>4

\* A session is as it was, or has been logged out.
LEMMA LoopOnlyClears ==
  ASSUME NEW us \in [Places -> Session], NEW f, Loop(us, USERNUM, f)
  PROVE  \A k \in 0 .. USERNUM : /\ f[k] \in [Places -> Session]
                                 /\ \A j \in Places : f[k][j] \in {us[j], NoSession}
<1> DEFINE Good(k) == /\ f[k] \in [Places -> Session]
                      /\ \A j \in Places : f[k][j] \in {us[j], NoSession}
           T == {k \in 0 .. USERNUM : ~Good(k)}
<1>1. SUFFICES ASSUME T # {} PROVE FALSE
  OBVIOUS
<1>2. PICK k : k = First(T)
  OBVIOUS
<1>3. k \in 0 .. USERNUM /\ ~Good(k) /\ \A y \in T : k <= y
  <2>1. T \in SUBSET Nat
    BY PlacesBasic
  <2>2. k \in T /\ \A y \in T : k <= y
    BY <1>1, <1>2, <2>1, FirstIsLeast
  <2> QED
    BY <2>2
<1>4. CASE k = 0
  <2>1. f[k] = us
    BY <1>3, <1>4 DEF Loop
  <2> QED
    BY <1>3, <2>1
<1>5. CASE k # 0
  <2>1. PICK m : m = k - 1 /\ m \in Places /\ m \in 0 .. USERNUM /\ ~(k <= m)
    <3>1. k - 1 \in Places /\ k - 1 \in 0 .. USERNUM /\ ~(k <= k - 1)
      BY <1>3, <1>5, PlacesBasic DEF Places
    <3> QED
      BY <3>1
  <2>2. Good(m)
    BY <1>3, <2>1
  <2>3. f[k] = LoggedOut(f[m], f[m][m].uid)
    BY <1>3, <1>5, <2>1 DEF Loop
  <2>4. PICK w, v : w = f[m] /\ v = f[k]
    OBVIOUS
  <2>5. /\ w \in [Places -> Session] /\ v = LoggedOut(w, w[m].uid)
        /\ \A j \in Places : w[j] \in {us[j], NoSession}
    BY <2>2, <2>3, <2>4
  <2>6. /\ v \in [Places -> Session]
        /\ \E p \in Places : v[p] = NoSession /\ \A i \in Places \ {p} : v[i] = w[i]
    BY <2>1, <2>5, OneTurn
  <2>7. Good(k)
    BY <2>4, <2>5, <2>6
  <2> QED
    BY <1>3, <2>7
<1> QED
  BY <1>4, <1>5

\* Before turn k + 1 the loop has passed the places below k; a session of the root
\* that it would miss can only be in the first place, before the first turn.
Passed(us, k) ==
  \A j \in Places : /\ j < k => us[j].uid = 0 /\ us[j].slots = {}
                    /\ us[j].uid = 0 => us[j].slots = {} \/ (k = 0 /\ j = 0)

LEMMA TurnPasses ==
  ASSUME NEW us \in [Places -> Session], NEW k \in Places, Passed(us, k),
         NEW v, v = LoggedOut(us, us[k].uid)
  PROVE  Passed(v, k + 1)
<1>1. PICK p \in Places : /\ us[p].uid = us[k].uid /\ p <= k /\ v[p] = NoSession
                          /\ \A i \in Places \ {p} : v[i] = us[i]
                          /\ \A i \in Places : us[i].uid = us[k].uid => p <= i
  BY OneTurn
<1>2. k \in Nat /\ p \in Nat /\ \A j \in Places : j \in Nat
  BY PlacesBasic
<1>3. us[k].uid # 0 => p = k
  BY <1>1, <1>2 DEF Passed
<1>4. k = 0 => p = 0
  BY <1>1, <1>2
<1>5. ASSUME NEW j \in Places
      PROVE  /\ j < k + 1 => v[j].uid = 0 /\ v[j].slots = {}
             /\ v[j].uid = 0 => v[j].slots = {}
  <2>1. CASE j = p
    BY <1>1, <2>1, PlacesBasic
  <2>2. CASE j # p
    <3>1. v[j] = us[j]
      BY <1>1, <2>2
    <3>2. us[j].uid = 0 => us[j].slots = {}
      BY <1>2, <1>4, <2>2 DEF Passed
    <3>3. j < k + 1 => us[j].uid = 0
      <4>1. CASE j < k
        BY <4>1 DEF Passed
      <4>2. CASE j = k
        BY <1>3, <2>2, <4>2
      <4>3. j < k + 1 => j < k \/ j = k
        BY <1>2
      <4> QED
        BY <4>1, <4>2, <4>3
    <3> QED
      BY <3>1, <3>2, <3>3
  <2> QED
    BY <2>1, <2>2
<1> QED
  BY <1>2, <1>5 DEF Passed

\* After the last turn the loop has passed every place.
LEMMA LoopPassesAll ==
  ASSUME NEW us \in [Places -> Session], Passed(us, 0), NEW f, Loop(us, USERNUM, f)
  PROVE  \A k \in 0 .. USERNUM : Passed(f[k], k)
<1> DEFINE T == {k \in 0 .. USERNUM : ~Passed(f[k], k)}
<1>1. SUFFICES ASSUME T # {} PROVE FALSE
  OBVIOUS
<1>2. PICK k : k = First(T)
  OBVIOUS
<1>3. k \in 0 .. USERNUM /\ ~Passed(f[k], k) /\ \A y \in T : k <= y
  <2>1. T \in SUBSET Nat
    BY PlacesBasic
  <2>2. k \in T /\ \A y \in T : k <= y
    BY <1>1, <1>2, <2>1, FirstIsLeast
  <2> QED
    BY <2>2
<1>4. CASE k = 0
  <2>1. f[k] = us
    BY <1>3, <1>4 DEF Loop
  <2> QED
    BY <1>3, <1>4, <2>1
<1>5. CASE k # 0
  <2>1. PICK m : m = k - 1 /\ m + 1 = k /\ m \in Places /\ m \in 0 .. USERNUM /\ ~(k <= m)
    <3>1. k - 1 + 1 = k /\ k - 1 \in Places /\ k - 1 \in 0 .. USERNUM /\ ~(k <= k - 1)
      BY <1>3, <1>5, PlacesBasic DEF Places
    <3> QED
      BY <3>1
  <2>2. PICK w, v : w = f[m] /\ v = f[k]
    OBVIOUS
  <2>3. v = LoggedOut(w, w[m].uid)
    BY <1>3, <1>5, <2>1, <2>2 DEF Loop
  <2>4. Passed(w, m)
    BY <1>3, <2>1, <2>2
  <2>5. w \in [Places -> Session]
    BY <2>1, <2>2, LoopOnlyClears
  <2>6. Passed(v, m + 1)
    BY <2>1, <2>3, <2>4, <2>5, TurnPasses
  <2> QED
    BY <1>3, <2>1, <2>2, <2>6
<1> QED
  BY <1>4, <1>5

\* What halt() makes of a table: in every place it is as it was or empty, and it is
\* empty in all if the loop can pass them all.
LEMMA HaltEffect ==
  ASSUME users \in [Places -> Session], NEW us, us = HaltLoop
  PROVE  /\ us \in [Places -> Session]
         /\ \A j \in Places : us[j] \in {users[j], NoSession}
         /\ Passed(users, 0) => \A j \in Places : us[j].slots = {}
<1>1. PICK f : Loop(users, USERNUM, f) /\ us = f[USERNUM]
  BY HaltLoopValue
<1>2. USERNUM \in 0 .. USERNUM /\ \A j \in Places : j < USERNUM
  BY PlacesBasic DEF Places
<1>3. /\ us \in [Places -> Session]
      /\ \A j \in Places : us[j] \in {users[j], NoSession}
  BY <1>1, <1>2, LoopOnlyClears
<1>4. Passed(users, 0) => Passed(us, USERNUM)
  BY <1>1, <1>2, LoopPassesAll
<1> QED
  BY <1>2, <1>3, <1>4 DEF Passed

-----------------------------------------------------------------------------
(***************************************************************************)
(* The inductive invariants.  Types need no hypothesis; what is said of    *)
(* the open slots needs the root to be alone; the accounts do not depend   *)
(* on the sessions.                                                        *)
(***************************************************************************)

TypeInv == TypeOK /\ \A j \in Places : IsFiniteSet(users[j].slots)

\* A place whose uid is 0 is free, or it is the first and the root sits there alone.
RootAlone ==
  /\ \A j \in Places : users[j].uid = 0 /\ users[j].slots # {} => cur = j
  /\ cur \in Places /\ users[cur].uid = 0 =>
       cur = 0 /\ \A j \in Places \ {0} : users[j] = NoSession

SessionInv == RootAlone /\ SlotsHeldOnce /\ HaltLogsOutAll

AccountInv ==
  /\ pwd \in [1 .. PWDNUM -> (Uids \X Words) \cup {Free}] /\ saved = pwd
  /\ given \subseteq Uids \X Words
  /\ AccountsKept

\* What login() does to the table.
LEMMA LoginEffect ==
  ASSUME TypeInv, NEW uid \in Uids, Login(uid)
  PROVE  \E p \in Places : /\ users[p].uid = 0 /\ cur' = p /\ users' \in [Places -> Session]
                           /\ users'[p] = [uid |-> uid, slots |-> {}]
                           /\ \A j \in Places \ {p} : users'[j] = users[j]
                           /\ \A j \in Places : users[j].uid = 0 => p <= j
<1>1. PICK p : p = First(Having(users, 0))
  OBVIOUS
<1>2. PICK j : j \in Having(users, 0)
  BY DEF Login
<1>3. /\ p \in Places /\ users[p].uid = 0
      /\ \A i \in Places : users[i].uid = 0 => p <= i
  BY <1>1, <1>2, FirstHaving
<1>4. cur' = p /\ users' = [users EXCEPT ![p] = [uid |-> uid, slots |-> {}]]
  BY <1>1 DEF Login
<1>5. users \in [Places -> Session] /\ [uid |-> uid, slots |-> {}] \in Session
  BY DEF TypeInv, TypeOK, Session
<1>6. /\ users' \in [Places -> Session] /\ users'[p] = [uid |-> uid, slots |-> {}]
      /\ \A i \in Places \ {p} : users'[i] = users[i]
  BY <1>3, <1>4, <1>5
<1> QED
  BY <1>3, <1>4, <1>6

\* What the logout command does to the table.
LEMMA LogoutEffect ==
  ASSUME TypeInv, Logout
  PROVE  /\ cur \in Places
         /\ \E p \in Places : /\ users[p].uid = users[cur].uid
                              /\ users' \in [Places -> Session] /\ users'[p] = NoSession
                              /\ \A j \in Places \ {p} : users'[j] = users[j]
                              /\ \A j \in Places : users[j].uid = users[cur].uid => p <= j
                              /\ cur' = IF cur = p THEN Nobody ELSE cur
<1>1. cur \in Places /\ users \in [Places -> Session]
  BY DEF TypeInv, TypeOK, Logout, Session
<1>2. PICK u, p : u = users[cur].uid /\ p = First(Having(users, u))
  OBVIOUS
<1>3. cur \in Having(users, u)
  BY <1>1, <1>2 DEF Having
<1>4. /\ p \in Places /\ users[p].uid = u
      /\ \A i \in Places : users[i].uid = u => p <= i
  BY <1>2, <1>3, FirstHaving
<1>5. users' = LoggedOut(users, u) /\ cur' = IF cur = p THEN Nobody ELSE cur
  BY <1>2 DEF Logout
<1>6. /\ users' \in [Places -> Session] /\ users'[p] = NoSession
      /\ \A i \in Places \ {p} : users'[i] = users[i]
  BY <1>1, <1>2, <1>3, <1>5, OnePlaceCleared
<1> QED
  BY <1>1, <1>2, <1>4, <1>5, <1>6

\* What a session opens or closes.
LEMMA FileEffect ==
  ASSUME TypeInv, NEW s \in Slots, OpenFile(s) \/ CloseFile(s)
  PROVE  \E T \in SUBSET Slots :
           /\ cur \in Places /\ cur' = cur /\ phase' = phase /\ phase = "shell"
           /\ IsFiniteSet(T) /\ Cardinality(T) <= NOFILE
           /\ users' \in [Places -> Session]
           /\ users'[cur].uid = users[cur].uid /\ users'[cur].slots = T
           /\ \A j \in Places \ {cur} : users'[j] = users[j]
           /\ \/ s \notin open /\ open' = open \cup {s} /\ T = users[cur].slots \cup {s}
              \/ /\ s \in users[cur].slots
                 /\ open' = open \ {s} /\ T = users[cur].slots \ {s}
<1>1. /\ cur \in Places /\ users \in [Places -> Session] /\ users[cur] \in Session
      /\ IsFiniteSet(users[cur].slots) /\ Cardinality(users[cur].slots) <= NOFILE
      /\ Cardinality(users[cur].slots) \in Nat /\ NOFILE \in Nat
  <2>1. /\ cur \in Places /\ users \in [Places -> Session]
        /\ \A j \in Places : IsFiniteSet(users[j].slots) /\ Cardinality(users[j].slots) <= NOFILE
    BY DEF TypeInv, TypeOK, OpenFile, CloseFile, Session
  <2> QED
    BY <2>1, FS_CardinalityType, SessionsAssumption
<1>2. PICK r : r = users[cur]
  OBVIOUS
<1>3. CASE OpenFile(s)
  <2>1. PICK T : T = r.slots \cup {s}
    OBVIOUS
  <2>2. IsFiniteSet(T) /\ Cardinality(T) <= NOFILE
    <3>1. /\ IsFiniteSet(r.slots) /\ Cardinality(r.slots) \in Nat /\ NOFILE \in Nat
          /\ Cardinality(r.slots) < NOFILE
      BY <1>1, <1>2, <1>3 DEF OpenFile
    <3>2. /\ IsFiniteSet(T)
          /\ Cardinality(T) = Cardinality(r.slots) \/ Cardinality(T) = Cardinality(r.slots) + 1
      BY <2>1, <3>1, FS_AddElement
    <3> QED
      BY <3>1, <3>2
  <2>3. T \in SUBSET Slots
    BY <1>1, <1>2, <2>1 DEF Session
  <2>4. users' = [users EXCEPT ![cur] = [r EXCEPT !.slots = T]]
    BY <1>1, <1>2, <1>3, <2>1 DEF OpenFile, Session
  <2>5. PICK q : q = [r EXCEPT !.slots = T]
    OBVIOUS
  <2>6. q \in Session /\ q.uid = r.uid /\ q.slots = T
    BY <1>1, <1>2, <2>3, <2>5 DEF Session
  <2>7. /\ users' \in [Places -> Session] /\ users'[cur] = q
        /\ \A j \in Places \ {cur} : users'[j] = users[j]
    BY <1>1, <2>4, <2>5, <2>6
  <2>8. /\ cur' = cur /\ phase' = phase /\ phase = "shell"
        /\ s \notin open /\ open' = open \cup {s}
    BY <1>3 DEF OpenFile
  <2> QED
    BY <1>1, <1>2, <2>1, <2>2, <2>3, <2>6, <2>7, <2>8
<1>4. CASE CloseFile(s)
  <2>1. PICK T : T = r.slots \ {s}
    OBVIOUS
  <2>2. s \in r.slots
    BY <1>2, <1>4 DEF CloseFile
  <2>3. IsFiniteSet(T) /\ Cardinality(T) <= NOFILE
    <3>1. /\ IsFiniteSet(r.slots) /\ Cardinality(r.slots) \in Nat /\ NOFILE \in Nat
          /\ Cardinality(r.slots) <= NOFILE
      BY <1>1, <1>2
    <3>2. IsFiniteSet(T) /\ Cardinality(T) = Cardinality(r.slots) - 1
      BY <2>1, <2>2, <3>1, FS_RemoveElement
    <3> QED
      BY <3>1, <3>2
  <2>4. T \in SUBSET Slots
    BY <1>1, <1>2, <2>1 DEF Session
  <2>5. users' = [users EXCEPT ![cur] = [r EXCEPT !.slots = T]]
    BY <1>1, <1>2, <1>4, <2>1 DEF CloseFile, Session
  <2>6. PICK q : q = [r EXCEPT !.slots = T]
    OBVIOUS
  <2>7. q \in Session /\ q.uid = r.uid /\ q.slots = T
    BY <1>1, <1>2, <2>4, <2>6 DEF Session
  <2>8. /\ users' \in [Places -> Session] /\ users'[cur] = q
        /\ \A j \in Places \ {cur} : users'[j] = users[j]
    BY <1>1, <2>5, <2>6, <2>7
  <2>9. /\ cur' = cur /\ phase' = phase /\ phase = "shell" /\ open' = open \ {s}
    BY <1>4 DEF CloseFile
  <2> QED
    BY <1>1, <1>2, <2>1, <2>2, <2>3, <2>4, <2>7, <2>8, <2>9
<1> QED
  BY <1>3, <1>4

\* Places that change only by being emptied keep their type.
LEMMA ClearedTyped ==
  ASSUME TypeInv, NEW us \in [Places -> Session],
         \A j \in Places : us[j].slots \in {users[j].slots, {}}
  PROVE  \A j \in Places : IsFiniteSet(us[j].slots) /\ Cardinality(us[j].slots) <= NOFILE
<1>1. IsFiniteSet({}) /\ Cardinality({}) <= NOFILE
  BY FS_EmptySet, SessionsAssumption
<1> QED
  BY <1>1 DEF TypeInv, TypeOK

LEMMA TypeStep == TypeInv /\ [AccountsNext]_avars => TypeInv'
<1> SUFFICES ASSUME TypeInv, [AccountsNext]_avars PROVE TypeInv'
  OBVIOUS
<1>1. users \in [Places -> Session]
  BY DEF TypeInv, TypeOK, Session
<1>2. SUFFICES /\ users' \in [Places -> Session] /\ cur' \in Places \cup {Nobody}
               /\ open' \subseteq Slots /\ phase' \in {"login", "shell", "halted"}
               /\ \A j \in Places : /\ IsFiniteSet(users'[j].slots)
                                    /\ Cardinality(users'[j].slots) <= NOFILE
  BY DEF TypeInv, TypeOK, Session
<1>3. open \subseteq Slots /\ phase \in {"login", "shell", "halted"}
  BY DEF TypeInv, TypeOK
<1>4. ASSUME NEW uid \in Uids, Login(uid)
      PROVE  /\ users' \in [Places -> Session] /\ cur' \in Places \cup {Nobody}
             /\ open' \subseteq Slots /\ phase' \in {"login", "shell", "halted"}
             /\ \A j \in Places : /\ IsFiniteSet(users'[j].slots)
                                  /\ Cardinality(users'[j].slots) <= NOFILE
  <2>1. PICK p \in Places : /\ cur' = p /\ users' \in [Places -> Session]
                            /\ users'[p] = [uid |-> uid, slots |-> {}]
                            /\ \A j \in Places \ {p} : users'[j] = users[j]
    BY <1>4, LoginEffect
  <2>2. open' = open /\ phase' = "shell"
    BY <1>4 DEF Login
  <2>3. PICK us : us = users' /\ us \in [Places -> Session]
    BY <2>1
  <2>4. \A j \in Places : us[j].slots \in {users[j].slots, {}}
    BY <2>1, <2>3
  <2> QED
    BY <1>3, <2>1, <2>2, <2>3, <2>4, ClearedTyped
<1>5. ASSUME NEW s \in Slots, OpenFile(s) \/ CloseFile(s)
      PROVE  /\ users' \in [Places -> Session] /\ cur' \in Places \cup {Nobody}
             /\ open' \subseteq Slots /\ phase' \in {"login", "shell", "halted"}
             /\ \A j \in Places : /\ IsFiniteSet(users'[j].slots)
                                  /\ Cardinality(users'[j].slots) <= NOFILE
  <2>1. PICK T \in SUBSET Slots :
           /\ cur \in Places /\ cur' = cur /\ phase' = phase
           /\ IsFiniteSet(T) /\ Cardinality(T) <= NOFILE
           /\ users' \in [Places -> Session] /\ users'[cur].slots = T
           /\ \A j \in Places \ {cur} : users'[j] = users[j]
           /\ open' = open \cup {s} \/ open' = open \ {s}
    BY <1>5, FileEffect
  <2>2. \A j \in Places : IsFiniteSet(users[j].slots) /\ Cardinality(users[j].slots) <= NOFILE
    BY DEF TypeInv, TypeOK
  <2> QED
    BY <1>3, <2>1, <2>2
<1>6. CASE Logout
  <2>1. PICK p \in Places : /\ users' \in [Places -> Session] /\ users'[p] = NoSession
                            /\ \A j \in Places \ {p} : users'[j] = users[j]
                            /\ cur' = IF cur = p THEN Nobody ELSE cur
    BY <1>6, LogoutEffect
  <2>2. open' \subseteq open /\ phase' = phase /\ cur \in Places
    BY <1>6, LogoutEffect DEF Logout, StillOpen
  <2>3. PICK us : us = users' /\ us \in [Places -> Session]
    BY <2>1
  <2>4. \A j \in Places : us[j].slots \in {users[j].slots, {}}
    BY <2>1, <2>3, PlacesBasic
  <2> QED
    BY <1>3, <2>1, <2>2, <2>3, <2>4, ClearedTyped
<1>7. CASE Halt
  <2>1. PICK us : us = HaltLoop /\ users' = us
    BY <1>7 DEF Halt
  <2>2. us \in [Places -> Session] /\ \A j \in Places : us[j] \in {users[j], NoSession}
    BY <1>1, <2>1, HaltEffect
  <2>3. \A j \in Places : us[j].slots \in {users[j].slots, {}}
    BY <2>2, PlacesBasic
  <2>4. open' \subseteq open /\ phase' = "halted" /\ cur' = Nobody
    BY <1>7 DEF Halt, StillOpen
  <2> QED
    BY <1>3, <2>1, <2>2, <2>3, <2>4, ClearedTyped
<1>8. CASE Restart
  <2>1. /\ users' = [j \in Places |-> NoSession] /\ cur' = Nobody /\ open' = {}
        /\ phase' = "login"
    BY <1>8 DEF Restart
  <2>2. PICK us : us = users' /\ us \in [Places -> Session]
    BY <2>1, PlacesBasic
  <2>3. \A j \in Places : us[j].slots \in {users[j].slots, {}}
    BY <2>1, <2>2, PlacesBasic
  <2> QED
    BY <2>1, <2>2, <2>3, ClearedTyped
<1>9. CASE UNCHANGED vars
  BY <1>1, <1>9 DEF vars, TypeInv, TypeOK
<1> QED
  BY <1>4, <1>5, <1>6, <1>7, <1>8, <1>9
  DEF AccountsNext, LoginWith, Reg, HaltSaved, avars

\* Closing the files of the places that are emptied keeps the books.
LEMMA ClearedHeldOnce ==
  ASSUME TypeInv, SlotsHeldOnce, NEW us \in [Places -> Session],
         \A j \in Places : us[j].slots \in {users[j].slots, {}}
  PROVE  /\ StillOpen(us) = UNION {us[j].slots : j \in Places}
         /\ \A i, j \in Places : us[i].slots \cap us[j].slots # {} => i = j
<1>1. open = UNION {users[j].slots : j \in Places}
  BY DEF SlotsHeldOnce
<1>2. /\ \A x : x \in open <=> \E j \in Places : x \in users[j].slots
      /\ \A x : (\E j \in Places : x \in us[j].slots)
                  => \E j \in Places : x \in users[j].slots
  BY <1>1
<1>3. StillOpen(us) = UNION {us[j].slots : j \in Places}
  <2>1. ASSUME NEW x
        PROVE  x \in StillOpen(us) <=> \E j \in Places : x \in us[j].slots
    BY <1>2 DEF StillOpen
  <2> QED
    BY <2>1
<1>4. ASSUME NEW i \in Places, NEW j \in Places, us[i].slots \cap us[j].slots # {}
      PROVE  i = j
  <2>1. us[i].slots = users[i].slots /\ us[j].slots = users[j].slots
    BY <1>4
  <2> QED
    BY <1>4, <2>1 DEF SlotsHeldOnce
<1> QED
  BY <1>3, <1>4

\* login() beside anybody but the root takes a place without open files; the root
\* takes the first.
LEMMA LoginOK ==
  ASSUME TypeInv, SessionInv, RootApart, NEW uid \in Uids, Login(uid), Apart(uid)
  PROVE  SessionInv'
<1>1. PICK p \in Places : /\ users[p].uid = 0 /\ cur' = p /\ users' \in [Places -> Session]
                          /\ users'[p] = [uid |-> uid, slots |-> {}]
                          /\ \A j \in Places \ {p} : users'[j] = users[j]
                          /\ \A j \in Places : users[j].uid = 0 => p <= j
  BY LoginEffect
<1>2. /\ cur # Nobody => users[cur].uid # 0
      /\ uid = 0 => \A j \in Places : users[j] = NoSession
  BY DEF Apart
<1>3. \A j \in Places : users[j].uid = 0 => users[j].slots = {}
  BY <1>2, PlacesBasic DEF SessionInv, RootAlone
<1>4. users'[p].uid = uid /\ users'[p].slots = {}
  BY <1>1
<1>5. PICK us : us = users' /\ us \in [Places -> Session]
  BY <1>1
<1>6. \A j \in Places : us[j].slots = users[j].slots
  BY <1>1, <1>3, <1>4, <1>5
<1>7. SlotsHeldOnce'
  <2>1. open' = open
    BY DEF Login
  <2>2. open = UNION {us[j].slots : j \in Places}
    BY <1>6 DEF SessionInv, SlotsHeldOnce
  <2>3. \A i, j \in Places : us[i].slots \cap us[j].slots # {} => i = j
    BY <1>6 DEF SessionInv, SlotsHeldOnce
  <2> QED
    BY <1>5, <2>1, <2>2, <2>3 DEF SlotsHeldOnce
<1>8. RootAlone'
  <2>1. \A j \in Places : us[j].uid = 0 => us[j].slots = {}
    BY <1>1, <1>3, <1>4, <1>5
  <2>2. ASSUME uid = 0 PROVE p = 0 /\ \A j \in Places \ {0} : us[j] = NoSession
    <3>1. p = 0
      <4>1. p <= 0 /\ p \in Nat
        BY <1>1, <1>2, <2>2, PlacesBasic
      <4> QED
        BY <4>1
    <3> QED
      BY <1>1, <1>2, <1>5, <2>2, <3>1
  <2> QED
    BY <1>1, <1>4, <1>5, <2>1, <2>2 DEF RootAlone
<1>9. HaltLogsOutAll'
  BY DEF Login, HaltLogsOutAll
<1> QED
  BY <1>7, <1>8, <1>9 DEF SessionInv

LEMMA FileOK ==
  ASSUME TypeInv, SessionInv, NEW s \in Slots, OpenFile(s) \/ CloseFile(s)
  PROVE  SessionInv'
<1>1. PICK T \in SUBSET Slots :
           /\ cur \in Places /\ cur' = cur /\ phase' = phase /\ phase = "shell"
           /\ users' \in [Places -> Session]
           /\ users'[cur].uid = users[cur].uid /\ users'[cur].slots = T
           /\ \A j \in Places \ {cur} : users'[j] = users[j]
           /\ \/ s \notin open /\ open' = open \cup {s} /\ T = users[cur].slots \cup {s}
              \/ /\ s \in users[cur].slots
                 /\ open' = open \ {s} /\ T = users[cur].slots \ {s}
  BY FileEffect
<1>2. PICK us : us = users' /\ us \in [Places -> Session]
  BY <1>1
<1>3. RootAlone'
  BY <1>1 DEF SessionInv, RootAlone
<1>4. HaltLogsOutAll'
  BY <1>1 DEF HaltLogsOutAll
<1>5. /\ open = UNION {users[j].slots : j \in Places}
      /\ \A i, j \in Places : users[i].slots \cap users[j].slots # {} => i = j
  BY DEF SessionInv, SlotsHeldOnce
<1>6. /\ us[cur].slots = T /\ \A j \in Places \ {cur} : us[j].slots = users[j].slots
  BY <1>1, <1>2
<1>7. CASE s \notin open /\ open' = open \cup {s} /\ T = users[cur].slots \cup {s}
  <2>1. \A j \in Places : s \notin users[j].slots
    BY <1>5, <1>7
  <2>2. open' = UNION {us[j].slots : j \in Places}
    <3>1. ASSUME NEW x \in open' PROVE \E j \in Places : x \in us[j].slots
      <4>1. CASE x = s
        BY <1>1, <1>6, <1>7, <4>1
      <4>2. CASE x # s
        <5>1. PICK j \in Places : x \in users[j].slots
          BY <1>5, <1>7, <3>1, <4>2
        <5> QED
          BY <1>6, <1>7, <5>1
      <4> QED
        BY <4>1, <4>2
    <3>2. ASSUME NEW j \in Places, NEW x \in us[j].slots PROVE x \in open'
      BY <1>5, <1>6, <1>7, <3>2
    <3> QED
      BY <3>1, <3>2
  <2>3. ASSUME NEW i \in Places, NEW j \in Places, us[i].slots \cap us[j].slots # {}, i # j
        PROVE  FALSE
    <3>1. PICK x : x \in us[i].slots /\ x \in us[j].slots
      BY <2>3
    <3>2. x \in users[i].slots /\ x \in users[j].slots
      BY <1>6, <1>7, <2>1, <2>3, <3>1
    <3> QED
      BY <1>5, <2>3, <3>2
  <2> QED
    BY <1>2, <1>3, <1>4, <2>2, <2>3 DEF SessionInv, SlotsHeldOnce
<1>8. CASE s \in users[cur].slots /\ open' = open \ {s} /\ T = users[cur].slots \ {s}
  <2>1. \A j \in Places : s \in users[j].slots => j = cur
    BY <1>1, <1>5, <1>8
  <2>2. open' = UNION {us[j].slots : j \in Places}
    <3>1. ASSUME NEW x \in open' PROVE \E j \in Places : x \in us[j].slots
      <4>1. PICK j \in Places : x \in users[j].slots /\ x # s
        BY <1>5, <1>8, <3>1
      <4> QED
        BY <1>6, <1>8, <4>1
    <3>2. ASSUME NEW j \in Places, NEW x \in us[j].slots PROVE x \in open'
      <4>1. x \in users[j].slots /\ x # s
        BY <1>6, <1>8, <2>1, <3>2
      <4> QED
        BY <1>5, <1>8, <4>1
    <3> QED
      BY <3>1, <3>2
  <2>3. ASSUME NEW i \in Places, NEW j \in Places, us[i].slots \cap us[j].slots # {}
        PROVE  i = j
    <3>1. us[i].slots \subseteq users[i].slots /\ us[j].slots \subseteq users[j].slots
      BY <1>6, <1>8
    <3> QED
      BY <1>5, <2>3, <3>1
  <2> QED
    BY <1>2, <1>3, <1>4, <2>2, <2>3 DEF SessionInv, SlotsHeldOnce
<1> QED
  BY <1>1, <1>7, <1>8

LEMMA LogoutOK ==
  ASSUME TypeInv, SessionInv, Logout
  PROVE  SessionInv'
<1>1. PICK p \in Places : /\ cur \in Places /\ users[p].uid = users[cur].uid
                          /\ users' \in [Places -> Session] /\ users'[p] = NoSession
                          /\ \A j \in Places \ {p} : users'[j] = users[j]
                          /\ \A j \in Places : users[j].uid = users[cur].uid => p <= j
                          /\ cur' = IF cur = p THEN Nobody ELSE cur
  BY LogoutEffect
<1>2. PICK us : us = users' /\ us \in [Places -> Session]
  BY <1>1
<1>3. \A j \in Places : us[j].slots \in {users[j].slots, {}}
  BY <1>1, <1>2, PlacesBasic
<1>4. SlotsHeldOnce'
  <2>1. open' = StillOpen(us)
    BY <1>2 DEF Logout
  <2> QED
    BY <1>2, <1>3, <2>1, ClearedHeldOnce DEF SessionInv, SlotsHeldOnce
<1>5. users[cur].uid = 0 => p = cur
  <2>1. ASSUME users[cur].uid = 0 PROVE p = cur
    <3>1. cur = 0 /\ p <= cur /\ p \in Nat
      BY <1>1, <2>1, PlacesBasic DEF SessionInv, RootAlone
    <3> QED
      BY <3>1
  <2> QED
    BY <2>1
<1>6. RootAlone'
  <2>1. ASSUME NEW j \in Places, us[j].uid = 0, us[j].slots # {} PROVE cur' = j
    <3>1. j # p
      BY <1>1, <1>2, <2>1, PlacesBasic
    <3>2. cur = j /\ users[cur].uid = 0
      BY <1>1, <1>2, <2>1, <3>1 DEF SessionInv, RootAlone
    <3> QED
      BY <1>5, <3>1, <3>2
  <2>2. ~(cur' \in Places /\ us[cur'].uid = 0)
    <3>1. SUFFICES ASSUME cur' \in Places, us[cur'].uid = 0 PROVE FALSE
      OBVIOUS
    <3>2. cur' = cur /\ cur # p
      BY <1>1, <3>1, PlacesBasic
    <3> QED
      BY <1>1, <1>2, <1>5, <3>1, <3>2
  <2> QED
    BY <1>2, <2>1, <2>2 DEF RootAlone
<1>7. HaltLogsOutAll'
  BY DEF Logout, HaltLogsOutAll
<1> QED
  BY <1>4, <1>6, <1>7 DEF SessionInv

LEMMA HaltOK ==
  ASSUME TypeInv, SessionInv, Halt
  PROVE  SessionInv'
<1>1. PICK us : us = HaltLoop /\ users' = us
  BY DEF Halt
<1>2. users \in [Places -> Session]
  BY DEF TypeInv, TypeOK, Session
<1>3. Passed(users, 0)
  <2>1. ASSUME NEW j \in Places, users[j].uid = 0, users[j].slots # {} PROVE j = 0
    BY <2>1 DEF SessionInv, RootAlone
  <2>2. \A j \in Places : ~(j < 0)
    BY PlacesBasic
  <2> QED
    BY <2>1, <2>2 DEF Passed
<1>4. /\ us \in [Places -> Session]
      /\ \A j \in Places : us[j].slots = {}
  BY <1>1, <1>2, <1>3, HaltEffect
<1>5. SlotsHeldOnce'
  <2>1. open' = StillOpen(us)
    BY <1>1 DEF Halt
  <2> QED
    BY <1>1, <1>4, <2>1, ClearedHeldOnce DEF SessionInv, SlotsHeldOnce
<1>6. RootAlone'
  BY <1>1, <1>4, PlacesBasic DEF RootAlone, Halt
<1>7. HaltLogsOutAll'
  BY <1>1, <1>4 DEF HaltLogsOutAll
<1> QED
  BY <1>5, <1>6, <1>7 DEF SessionInv

\* Nobody is logged in.
LEMMA AllFreeOK ==
  ASSUME users = [j \in Places |-> NoSession], cur = Nobody, open = {}
  PROVE  SessionInv
<1>1. \A j \in Places : users[j].uid = 0 /\ users[j].slots = {}
  BY PlacesBasic
<1>2. UNION {users[j].slots : j \in Places} = {}
  BY <1>1
<1> QED
  BY <1>1, <1>2, PlacesBasic DEF SessionInv, RootAlone, SlotsHeldOnce, HaltLogsOutAll

LEMMA RestartOK ==
  ASSUME Restart
  PROVE  SessionInv'
<1>1. users' = [j \in Places |-> NoSession] /\ cur' = Nobody /\ open' = {}
  BY DEF Restart
<1>2. PICK us : us = users' /\ \A j \in Places : us[j].uid = 0 /\ us[j].slots = {}
  BY <1>1, PlacesBasic
<1>3. UNION {us[j].slots : j \in Places} = {}
  BY <1>2
<1> QED
  BY <1>1, <1>2, <1>3, PlacesBasic
  DEF SessionInv, RootAlone, SlotsHeldOnce, HaltLogsOutAll

LEMMA SessionStep ==
  ASSUME RootApart
  PROVE  TypeInv /\ SessionInv /\ [AccountsNext]_avars => SessionInv'
<1> SUFFICES ASSUME TypeInv, SessionInv, [AccountsNext]_avars PROVE SessionInv'
  OBVIOUS
<1>1. ASSUME NEW uid \in Uids, NEW word \in Words, LoginWith(uid, word) PROVE SessionInv'
  BY <1>1, LoginOK DEF LoginWith
<1>2. ASSUME NEW s \in Slots, OpenFile(s) \/ CloseFile(s) PROVE SessionInv'
  BY <1>2, FileOK
<1>3. CASE Logout
  BY <1>3, LogoutOK
<1>4. CASE Halt
  BY <1>4, HaltOK
<1>5. CASE Restart
  BY <1>5, RestartOK
<1>6. CASE UNCHANGED vars
  BY <1>6 DEF vars, SessionInv, RootAlone, SlotsHeldOnce, HaltLogsOutAll
<1> QED
  BY <1>1, <1>2, <1>3, <1>4, <1>5, <1>6 DEF AccountsNext, Reg, HaltSaved, avars

-----------------------------------------------------------------------------
(***************************************************************************)
(* The accounts.                                                           *)
(***************************************************************************)

\* The table takes passwords as they are typed.
KeepsWhole == \A w \in Words : Kept[w] = w

LEMMA FreeIsNoAccount == Free \notin Uids \X Words
BY AccountsAssumption DEF Free

\* reg overwrites a place that no account had.
LEMMA RegOK ==
  ASSUME KeepsWhole, AccountInv, NEW uid \in Uids, NEW word \in Words, Reg(uid, word)
  PROVE  AccountInv'
<1>1. PICK k, a : k = First(Vacant) /\ a = <<uid, word>>
  OBVIOUS
<1>2. /\ pwd \in [1 .. PWDNUM -> (Uids \X Words) \cup {Free}]
      /\ given \subseteq Uids \X Words
      /\ \A b \in given : Known(b[1], b[2])
  BY DEF AccountInv, AccountsKept
<1>3. k \in 1 .. PWDNUM /\ pwd[k] = Free
  <2>1. Vacant \in SUBSET Nat /\ Vacant # {}
    BY <1>2, AccountsAssumption DEF Vacant, Reg
  <2>2. k \in Vacant
    BY <1>1, <2>1, FirstIsLeast
  <2> QED
    BY <1>2, <2>2 DEF Vacant
<1>4. a \in Uids \X Words
  BY <1>1
<1>5. /\ pwd' = [pwd EXCEPT ![k] = a] /\ saved' = pwd' /\ given' = given \cup {a}
  BY <1>1 DEF Reg, KeepsWhole
<1>6. PICK q : q = pwd' /\ q = [pwd EXCEPT ![k] = a]
  BY <1>5
<1>7. /\ q \in [1 .. PWDNUM -> (Uids \X Words) \cup {Free}] /\ q[k] = a
      /\ \A i \in 1 .. PWDNUM : i # k => q[i] = pwd[i]
  BY <1>2, <1>3, <1>4, <1>6
<1>8. ASSUME NEW b \in given' PROVE \E i \in DOMAIN q : q[i] = <<b[1], b[2]>>
  <2>1. CASE b = a
    BY <1>1, <1>3, <1>7, <2>1
  <2>2. CASE b # a
    <3>1. b \in given /\ <<b[1], b[2]>> = b /\ b \in Uids \X Words
      BY <1>2, <1>5, <1>8, <2>2
    <3>2. PICK i \in 1 .. PWDNUM : pwd[i] = b
      BY <1>2, <3>1 DEF Known
    <3>3. i # k
      BY <1>3, <3>1, <3>2, FreeIsNoAccount
    <3> QED
      BY <1>7, <3>1, <3>2, <3>3
  <2> QED
    BY <2>1, <2>2
<1>9. given' \subseteq Uids \X Words
  BY <1>2, <1>4, <1>5
<1> QED
  BY <1>5, <1>6, <1>7, <1>8, <1>9 DEF AccountInv, AccountsKept, Known

LEMMA AccountStep ==
  ASSUME KeepsWhole
  PROVE  AccountInv /\ [AccountsNext]_avars => AccountInv'
<1> SUFFICES ASSUME AccountInv, [AccountsNext]_avars PROVE AccountInv'
  OBVIOUS
<1>1. ASSUME NEW uid \in Uids, NEW word \in Words, Reg(uid, word) PROVE AccountInv'
  BY <1>1, RegOK
<1>2. CASE pwd' = pwd /\ saved' = pwd /\ given' = given
  BY <1>2 DEF AccountInv, AccountsKept, Known
<1>3. saved = pwd
  BY DEF AccountInv
<1> QED
  BY <1>1, <1>2, <1>3
  DEF AccountsNext, LoginWith, HaltSaved, Restart, avars

LEMMA StartOK ==
  AccountsInit => TypeInv /\ SessionInv /\ AccountInv
<1> SUFFICES ASSUME AccountsInit PROVE TypeInv /\ SessionInv /\ AccountInv
  OBVIOUS
<1>1. /\ users = [j \in Places |-> NoSession] /\ cur = Nobody /\ open = {}
      /\ phase = "login"
  BY DEF AccountsInit, Init
<1>2. SessionInv
  BY <1>1, AllFreeOK
<1>3. TypeInv
  <2>1. \A j \in Places : users[j] = NoSession /\ users[j].slots = {}
    BY <1>1, PlacesBasic
  <2>2. IsFiniteSet({}) /\ Cardinality({}) <= NOFILE
    BY FS_EmptySet, SessionsAssumption
  <2>3. users \in [Places -> Session]
    BY <1>1, PlacesBasic
  <2> QED
    BY <1>1, <2>1, <2>2, <2>3 DEF TypeInv, TypeOK, Session
<1>4. /\ Formatted \in Seq(Uids \X Words) /\ Len(Formatted) <= PWDNUM /\ PWDNUM \in Nat
  BY AccountsAssumption
<1>5. /\ Len(Formatted) \in Nat /\ DOMAIN Formatted = 1 .. Len(Formatted)
      /\ \A k \in 1 .. Len(Formatted) : Formatted[k] \in Uids \X Words
  BY <1>4, LenProperties, ElementOfSeq
<1>6. /\ pwd = [k \in 1 .. PWDNUM |-> IF k <= Len(Formatted) THEN Formatted[k] ELSE Free]
      /\ saved = pwd /\ given = {Formatted[k] : k \in DOMAIN Formatted}
  BY DEF AccountsInit
<1>7. /\ \A k \in 1 .. PWDNUM : k <= Len(Formatted) => k \in 1 .. Len(Formatted)
      /\ \A k \in 1 .. Len(Formatted) : k \in 1 .. PWDNUM /\ k <= Len(Formatted)
  BY <1>4, <1>5
<1>8. pwd \in [1 .. PWDNUM -> (Uids \X Words) \cup {Free}]
  BY <1>5, <1>6, <1>7
<1>9. given \subseteq Uids \X Words
  BY <1>5, <1>6
<1>10. ASSUME NEW a \in given PROVE Known(a[1], a[2])
  <2>1. PICK k \in 1 .. Len(Formatted) : a = Formatted[k]
    BY <1>5, <1>6
  <2>2. k \in DOMAIN pwd /\ pwd[k] = a
    BY <1>6, <1>7, <2>1
  <2>3. a = <<a[1], a[2]>>
    BY <1>9
  <2> QED
    BY <2>2, <2>3 DEF Known
<1>11. AccountInv
  BY <1>6, <1>8, <1>9, <1>10 DEF AccountInv, AccountsKept
<1> QED
  BY <1>2, <1>3, <1>11

-----------------------------------------------------------------------------
(***************************************************************************)
(* What follows.                                                           *)
(***************************************************************************)

\* The table of sessions keeps its type, and no session opens more files than it
\* has descriptors.
THEOREM TypeCorrect == AccountsSpec => []TypeOK
<1>1. TypeInv => TypeOK
  BY DEF TypeInv
<1> QED
  BY <1>1, StartOK, TypeStep, PTL DEF AccountsSpec

\* A login overwrites no session with open files, so every open slot is that of one
\* session, which can close it, and of one only: if nobody logs in beside the root,
\* whose place the search for a free one takes for free.
THEOREM HeldOnce ==
  ASSUME RootApart
  PROVE  AccountsSpec => []SlotsHeldOnce
<1>1. SessionInv => SlotsHeldOnce
  BY DEF SessionInv
<1> QED
  BY <1>1, StartOK, TypeStep, SessionStep, PTL DEF AccountsSpec

\* The loop of halt() looks up each session by its uid and logs out the first that
\* has it; all the same it leaves none with an open file, however many sessions a
\* user has, under the same hypothesis.
THEOREM HaltClosesAll ==
  ASSUME RootApart
  PROVE  AccountsSpec => []HaltLogsOutAll
<1>1. SessionInv => HaltLogsOutAll
  BY DEF SessionInv
<1> QED
  BY <1>1, StartOK, TypeStep, SessionStep, PTL DEF AccountsSpec

\* Whoever was registered can log in, after any later reg and any restart: if the
\* table keeps the passwords whole.
THEOREM AccountsStay ==
  ASSUME KeepsWhole
  PROVE  AccountsSpec => []AccountsKept
<1>1. AccountInv => AccountsKept
  BY DEF AccountInv
<1> QED
  BY <1>1, StartOK, AccountStep, PTL DEF AccountsSpec
===============================================================================
