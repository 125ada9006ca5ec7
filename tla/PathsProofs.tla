------------------------------ MODULE PathsProofs ------------------------------
(***************************************************************************)
(* For every set of components, of inodes, and length of paths: the walks  *)
(* of Paths keep the tree and the current directory right, and cd goes     *)
(* where its path leads.  When no component is empty and every mkdir on    *)
(* the way succeeds the prompt is true, and a walk without ".." comes back *)
(* to where it began.  find (module Find) lists what it should, since      *)
(* every file is reached from the root and no way down comes back.         *)
(***************************************************************************)
EXTENDS Find, TLAPS, FiniteSetTheorems, SequenceTheorems, WellFoundedInduction

-----------------------------------------------------------------------------
(***************************************************************************)
(* Numbers, and loops over them.                                           *)
(***************************************************************************)

\* A set of numbers that is not empty has a least element: what First chooses.
LEMMA FirstIsLeast ==
  ASSUME NEW S \in SUBSET Nat, S # {}
  PROVE  First(S) \in S /\ \A y \in S : First(S) <= y
<1>1. IsWellFoundedOn(OpToRel(<, Nat), Nat)
  BY NatLessThanWellFounded
<1>2. PICK x \in S : \A y \in S : ~(<<y, x>> \in OpToRel(<, Nat))
  BY <1>1, WFMin
<1>3. \A y \in S : ~(y < x)
  BY <1>2 DEF OpToRel
<1>4. \A y \in S : x <= y
  BY <1>3
<1> QED
  BY <1>4, Zenon DEF First

\* What holds at first and is kept by every turn of a loop holds after each.
LEMMA Rise ==
  ASSUME NEW n \in Nat, NEW T, 0 \in T, \A k \in 0 .. n - 1 : k \in T => k + 1 \in T
  PROVE  0 .. n \subseteq T
<1> DEFINE U == {k \in 0 .. n : k \notin T}
<1>1. SUFFICES ASSUME U # {} PROVE FALSE
  OBVIOUS
<1>2. U \in SUBSET Nat
  OBVIOUS
<1>3. PICK k : k = First(U)
  OBVIOUS
<1>4. k \in 0 .. n /\ k \notin T /\ \A y \in U : k <= y
  BY <1>1, <1>2, <1>3, FirstIsLeast
<1>5. k # 0 /\ k - 1 \in 0 .. n - 1 /\ k - 1 + 1 = k /\ k - 1 \in 0 .. n /\ ~(k <= k - 1)
  BY <1>4
<1>6. k - 1 \in T
  BY <1>4, <1>5
<1> QED
  BY <1>4, <1>5, <1>6

\* f holds the values of a loop from a: before each of n turns and after the last.
Turns(n, V, a, step, f) ==
  f \in [0 .. n -> V] /\ f[0] = a /\ \A k \in 1 .. n : f[k] = step[k][f[k - 1]]

\* A loop that goes on from any value in V to one in V can take any number of turns.
LEMMA Loop ==
  ASSUME NEW n \in Nat, NEW V, NEW a \in V, NEW step,
         \A k \in 1 .. n : \A s \in V : step[k][s] \in V
  PROVE  \E f : Turns(n, V, a, step, f)
<1> DEFINE T == {m \in 0 .. n : \E f : Turns(m, V, a, step, f)}
<1>1. 0 \in T
  <2>1. PICK f : f = [i \in 0 .. 0 |-> a]
    OBVIOUS
  <2>2. f \in [0 .. 0 -> V] /\ f[0] = a /\ \A k \in 1 .. 0 : FALSE
    BY <2>1
  <2> QED
    BY <2>2 DEF Turns
<1>2. ASSUME NEW m \in 0 .. n - 1, m \in T PROVE m + 1 \in T
  <2>1. PICK f : Turns(m, V, a, step, f)
    BY <1>2
  <2>2. PICK g : g = [i \in 0 .. m + 1 |-> IF i <= m THEN f[i] ELSE step[m + 1][f[m]]]
    OBVIOUS
  <2>3. m + 1 \in 1 .. n /\ f[m] \in V /\ step[m + 1][f[m]] \in V
    BY <2>1 DEF Turns
  <2>4. g \in [0 .. m + 1 -> V]
    BY <2>1, <2>2, <2>3 DEF Turns
  <2>5. g[0] = a
    BY <2>1, <2>2 DEF Turns
  <2>6. ASSUME NEW k \in 1 .. m + 1 PROVE g[k] = step[k][g[k - 1]]
    <3>1. k - 1 \in 0 .. m /\ k - 1 \in 0 .. m + 1 /\ g[k - 1] = f[k - 1]
      BY <2>2
    <3>2. CASE k <= m
      <4>1. k \in 1 .. m /\ g[k] = f[k]
        BY <2>2, <3>2
      <4> QED
        BY <2>1, <3>1, <4>1 DEF Turns
    <3>3. CASE ~(k <= m)
      <4>1. k = m + 1 /\ k - 1 = m /\ g[k] = step[m + 1][f[m]]
        BY <2>2, <3>3
      <4> QED
        BY <3>1, <4>1
    <3> QED
      BY <3>2, <3>3
  <2>7. Turns(m + 1, V, a, step, g)
    BY <2>4, <2>5, <2>6 DEF Turns
  <2> QED
    BY <2>3, <2>7
<1>3. n \in T
  <2> HIDE DEF T
  <2>1. 0 .. n \subseteq T
    BY <1>1, <1>2, Rise
  <2> QED
    BY <2>1
<1> QED
  BY <1>3

-----------------------------------------------------------------------------
(***************************************************************************)
(* What a path leads to.                                                   *)
(***************************************************************************)

Ino == Inodes \cup {NoIno}
Tables == [Inodes -> [Names -> Ino]]

LEMMA Constants ==
  /\ Root \in Inodes /\ NoIno \notin Inodes /\ Inodes \in SUBSET Nat /\ IsFiniteSet(Inodes)
  /\ "." \notin Names /\ ".." \notin Names /\ Unnamed \in Names
  /\ Parts \subseteq Names \cup {".", ".."} /\ CdParts \subseteq Names \cup {".", ".."}
  /\ MaxPath \in Nat
  /\ Typed \subseteq Names
  /\ Parts \subseteq Typed \cup {".", ".."} /\ CdParts \subseteq Typed \cup {".", ".."}
BY PathsAssumption DEF Names, Typed, Unnamed, NoIno

\* The inodes along the path p from d.
Along(ks, d, p, f) ==
  /\ f \in [0 .. Len(p) -> Ino]
  /\ f[0] = d
  /\ \A k \in 1 .. Len(p) : f[k] = IF f[k - 1] = NoIno THEN NoIno ELSE ks[f[k - 1]][p[k]]

LEMMA LeadsValue ==
  ASSUME NEW ks \in Tables, NEW d \in Ino, NEW p \in Seq(Names)
  PROVE  \E f : Along(ks, d, p, f) /\ Leads(ks, d, p) = f[Len(p)]
<1>1. PICK n \in Nat : n = Len(p)
  OBVIOUS
<1>2. \A k \in 1 .. n : p[k] \in Names
  BY <1>1
<1>3. PICK step : step = [k \in 1 .. n |-> [s \in Ino |-> IF s = NoIno THEN NoIno ELSE ks[s][p[k]]]]
  OBVIOUS
<1>4. \A k \in 1 .. n : \A s \in Ino : step[k][s] \in Ino
  BY <1>2, <1>3 DEF Tables, Ino
<1>5. PICK g : Turns(n, Ino, d, step, g)
  BY <1>4, Loop
<1>6. \A k \in 1 .. n : g[k] = IF g[k - 1] = NoIno THEN NoIno ELSE ks[g[k - 1]][p[k]]
  <2> TAKE k \in 1 .. n
  <2>1. g[k - 1] \in Ino /\ g[k] = step[k][g[k - 1]]
    BY <1>5 DEF Turns
  <2> QED
    BY <1>3, <2>1
<1>7. g = [k \in 0 .. n |->
             IF k = 0 THEN d ELSE IF g[k - 1] = NoIno THEN NoIno ELSE ks[g[k - 1]][p[k]]]
  <2>1. \A k \in 0 .. n : k = 0 \/ k \in 1 .. n
    BY <1>1
  <2>2. \A k \in 0 .. n : g[k] = IF k = 0 THEN d ELSE
                                 IF g[k - 1] = NoIno THEN NoIno ELSE ks[g[k - 1]][p[k]]
    <3> TAKE k \in 0 .. n
    <3>1. CASE k = 0
      BY <1>5, <3>1 DEF Turns
    <3>2. CASE k # 0
      BY <1>6, <2>1, <3>2
    <3> QED
      BY <3>1, <3>2
  <2>3. g = [k \in 0 .. n |-> g[k]]
    BY <1>5 DEF Turns
  <2> QED
    BY <2>2, <2>3
<1> DEFINE at[k \in 0 .. Len(p)] ==
             IF k = 0 THEN d ELSE IF at[k - 1] = NoIno THEN NoIno ELSE ks[at[k - 1]][p[k]]
<1>8. Leads(ks, d, p) = at[Len(p)]
  BY DEF Leads
<1>9. at = [k \in 0 .. n |->
              IF k = 0 THEN d ELSE IF at[k - 1] = NoIno THEN NoIno ELSE ks[at[k - 1]][p[k]]]
  BY <1>1, <1>7
<1> HIDE DEF at
<1>10. at[0] = d
  BY <1>1, <1>9
<1>11. \A k \in 1 .. n : at[k] = IF at[k - 1] = NoIno THEN NoIno ELSE ks[at[k - 1]][p[k]]
  <2> TAKE k \in 1 .. n
  <2>1. k \in 0 .. n /\ k # 0
    BY <1>1
  <2> QED
    BY <1>9, <2>1
<1>12. \A k \in 0 .. n : at[k] \in Ino
  <2> DEFINE T == {k \in 0 .. n : at[k] \in Ino}
  <2>1. 0 \in T
    BY <1>1, <1>10
  <2>2. ASSUME NEW k \in 0 .. n - 1, k \in T PROVE k + 1 \in T
    <3>1. k + 1 \in 1 .. n /\ k + 1 - 1 = k /\ p[k + 1] \in Names
      BY <1>1, <1>2
    <3>2. at[k + 1] = IF at[k] = NoIno THEN NoIno ELSE ks[at[k]][p[k + 1]]
      BY <1>11, <3>1
    <3>3. at[k + 1] \in Ino
      BY <2>2, <3>1, <3>2 DEF Tables, Ino
    <3> QED
      BY <3>1, <3>3
  <2>3. 0 .. n \subseteq T
    <3> HIDE DEF T
    <3> QED
      BY <2>1, <2>2, Rise
  <2> QED
    BY <2>3
<1>13. at \in [0 .. n -> Ino]
  <2>1. at = [k \in 0 .. n |-> at[k]]
    BY <1>9
  <2> QED
    BY <1>12, <2>1
<1>14. Along(ks, d, p, at)
  BY <1>1, <1>10, <1>11, <1>13 DEF Along
<1> QED
  BY <1>8, <1>14

\* There is one way along a path.
LEMMA AlongOnly ==
  ASSUME NEW ks \in Tables, NEW d \in Ino, NEW p \in Seq(Names), NEW f, Along(ks, d, p, f)
  PROVE  Leads(ks, d, p) = f[Len(p)]
<1>1. PICK n \in Nat : n = Len(p)
  OBVIOUS
<1>2. PICK g : Along(ks, d, p, g) /\ Leads(ks, d, p) = g[n]
  BY <1>1, LeadsValue
<1> DEFINE T == {k \in 0 .. n : f[k] = g[k]}
<1>3. 0 \in T
  BY <1>1, <1>2 DEF Along
<1>4. ASSUME NEW k \in 0 .. n - 1, k \in T PROVE k + 1 \in T
  <2>1. k + 1 \in 1 .. n /\ k + 1 - 1 = k /\ k + 1 \in 0 .. n /\ f[k] = g[k]
    BY <1>1, <1>4
  <2>2. f[k + 1] = IF f[k] = NoIno THEN NoIno ELSE ks[f[k]][p[k + 1]]
    BY <1>1, <2>1 DEF Along
  <2>3. g[k + 1] = IF g[k] = NoIno THEN NoIno ELSE ks[g[k]][p[k + 1]]
    BY <1>1, <1>2, <2>1 DEF Along
  <2> QED
    BY <2>1, <2>2, <2>3
<1>5. n \in T
  <2> HIDE DEF T
  <2>1. 0 .. n \subseteq T
    BY <1>3, <1>4, Rise
  <2> QED
    BY <1>1, <2>1
<1> QED
  BY <1>1, <1>2, <1>5

\* The part of a path leads along the same inodes.
LEMMA AlongPart ==
  ASSUME NEW ks \in Tables, NEW d \in Ino, NEW p \in Seq(Names), NEW f, Along(ks, d, p, f),
         NEW k \in 0 .. Len(p)
  PROVE  SubSeq(p, 1, k) \in Seq(Names) /\ Leads(ks, d, SubSeq(p, 1, k)) = f[k]
<1>1. PICK n \in Nat : n = Len(p)
  OBVIOUS
<1>2. PICK q : q = SubSeq(p, 1, k)
  OBVIOUS
<1>3. q \in Seq(Names) /\ Len(q) = k /\ \A i \in 1 .. k : q[i] = p[i]
  BY <1>1, <1>2
<1>4. PICK g : g = [i \in 0 .. k |-> f[i]]
  OBVIOUS
<1>5. \A i \in 1 .. k : i \in 1 .. n /\ i - 1 \in 0 .. k /\ i \in 0 .. k
  BY <1>1
<1>6. g \in [0 .. k -> Ino] /\ g[0] = d /\ g[k] = f[k]
  <2>1. \A i \in 0 .. k : i \in 0 .. n
    BY <1>1
  <2>2. f \in [0 .. n -> Ino] /\ f[0] = d
    BY <1>1 DEF Along
  <2>3. 0 \in 0 .. k /\ k \in 0 .. k
    BY <1>1
  <2> QED
    BY <1>4, <2>1, <2>2, <2>3
<1>7. ASSUME NEW i \in 1 .. k
      PROVE  g[i] = IF g[i - 1] = NoIno THEN NoIno ELSE ks[g[i - 1]][q[i]]
  <2>1. f[i] = IF f[i - 1] = NoIno THEN NoIno ELSE ks[f[i - 1]][p[i]]
    BY <1>1, <1>5 DEF Along
  <2>2. g[i] = f[i] /\ g[i - 1] = f[i - 1] /\ q[i] = p[i]
    BY <1>3, <1>4, <1>5
  <2> QED
    BY <2>1, <2>2
<1>8. Along(ks, d, q, g)
  BY <1>3, <1>6, <1>7 DEF Along
<1>9. Leads(ks, d, q) = g[k]
  BY <1>3, <1>8, AlongOnly
<1> QED
  BY <1>2, <1>3, <1>6, <1>9

\* A path with one component more.
LEMMA LeadsStep ==
  ASSUME NEW ks \in Tables, NEW d \in Ino, NEW p \in Seq(Names), NEW n \in Names
  PROVE  /\ Leads(ks, d, << >>) = d
         /\ Leads(ks, d, p) \in Ino
         /\ Leads(ks, d, Append(p, n)) =
              IF Leads(ks, d, p) = NoIno THEN NoIno ELSE ks[Leads(ks, d, p)][n]
<1>1. Leads(ks, d, << >>) = d
  <2>1. PICK e : e = << >>
    OBVIOUS
  <2>2. e \in Seq(Names) /\ Len(e) = 0
    BY <2>1
  <2>3. PICK f : Along(ks, d, e, f) /\ Leads(ks, d, e) = f[Len(e)]
    BY <2>2, LeadsValue
  <2> QED
    BY <2>1, <2>2, <2>3 DEF Along
<1>2. PICK m \in Nat : m = Len(p)
  OBVIOUS
<1>3. PICK q : q = Append(p, n)
  OBVIOUS
<1>4. q \in Seq(Names) /\ Len(q) = m + 1 /\ q[m + 1] = n /\ SubSeq(q, 1, m) = p
  <2>1. q \in Seq(Names) /\ Len(q) = m + 1 /\ q[m + 1] = n
    BY <1>2, <1>3
  <2>2. \A i \in 1 .. m : q[i] = p[i]
    BY <1>2, <1>3
  <2>3. PICK t : t = SubSeq(q, 1, m)
    OBVIOUS
  <2>4. t \in Seq(Names) /\ Len(t) = m /\ \A i \in 1 .. m : t[i] = q[i]
    BY <1>2, <2>1, <2>3
  <2>5. t = p
    BY <1>2, <2>2, <2>4, SeqEqual
  <2> QED
    BY <2>1, <2>3, <2>5
<1>5. PICK f : Along(ks, d, q, f) /\ Leads(ks, d, q) = f[Len(q)]
  BY <1>4, LeadsValue
<1>6. m \in 0 .. Len(q) /\ m + 1 \in 1 .. Len(q) /\ m + 1 - 1 = m
  BY <1>4
<1>7. Leads(ks, d, p) = f[m] /\ f[m] \in Ino
  <2>1. f[m] \in Ino
    BY <1>5, <1>6 DEF Along
  <2>2. Leads(ks, d, SubSeq(q, 1, m)) = f[m]
    BY <1>4, <1>5, <1>6, AlongPart
  <2> QED
    BY <1>4, <2>1, <2>2
<1>8. f[m + 1] = IF f[m] = NoIno THEN NoIno ELSE ks[f[m]][n]
  BY <1>4, <1>5, <1>6 DEF Along
<1> QED
  BY <1>1, <1>3, <1>4, <1>5, <1>7, <1>8

\* A path is one component longer than the path that leads to the parent.
LEMMA LeadsBack ==
  ASSUME NEW ks \in Tables, NEW d \in Ino, NEW p \in Seq(Names), p # << >>,
         Leads(ks, d, p) # NoIno
  PROVE  /\ Shorter(p) \in Seq(Names) /\ Len(Shorter(p)) = Len(p) - 1
         /\ Leads(ks, d, Shorter(p)) \in Inodes
         /\ p[Len(p)] \in Names
         /\ ks[Leads(ks, d, Shorter(p))][p[Len(p)]] = Leads(ks, d, p)
<1>1. PICK m \in Nat : m = Len(p)
  OBVIOUS
<1>2. m # 0 /\ p[m] \in Names
  BY <1>1
<1>3. PICK q : q = Shorter(p)
  OBVIOUS
<1>4. q = SubSeq(p, 1, m - 1)
  BY <1>1, <1>3 DEF Shorter
<1>5. q \in Seq(Names) /\ Len(q) = m - 1 /\ \A i \in 1 .. m - 1 : q[i] = p[i]
  BY <1>1, <1>2, <1>4
<1>6. p = Append(q, p[m])
  <2>1. PICK t : t = Append(q, p[m])
    OBVIOUS
  <2>2. t \in Seq(Names) /\ Len(t) = m /\ \A i \in 1 .. m : t[i] = p[i]
    BY <1>1, <1>2, <1>5, <2>1
  <2> QED
    BY <1>1, <2>1, <2>2, SeqEqual
<1>7. PICK n \in Names : n = p[m]
  BY <1>2
<1>8. /\ Leads(ks, d, q) \in Ino
      /\ Leads(ks, d, Append(q, n)) =
           IF Leads(ks, d, q) = NoIno THEN NoIno ELSE ks[Leads(ks, d, q)][n]
  BY <1>5, LeadsStep
<1>9. Leads(ks, d, p) = IF Leads(ks, d, q) = NoIno THEN NoIno ELSE ks[Leads(ks, d, q)][n]
  BY <1>6, <1>7, <1>8
<1>10. Leads(ks, d, q) \in Inodes
  BY <1>8, <1>9 DEF Ino
<1> QED
  BY <1>1, <1>2, <1>3, <1>5, <1>7, <1>9, <1>10, Constants

\* From ks to ls no entry is lost but one of an inode without entries, other than c.
Keeps(ks, ls, c) ==
  \A e \in Inodes, n \in Names :
    ks[e][n] # NoIno =>
      \/ ls[e][n] = ks[e][n]
      \/ ks[e][n] # c /\ \A m \in Names : ks[ks[e][n]][m] = NoIno

\* A path that leads somewhere leads there still.
LEMMA LeadsKept ==
  ASSUME NEW ks \in Tables, NEW ls \in Tables, NEW d \in Ino, NEW p \in Seq(Names),
         Leads(ks, d, p) # NoIno, Keeps(ks, ls, Leads(ks, d, p))
  PROVE  Leads(ls, d, p) = Leads(ks, d, p)
<1>1. PICK n \in Nat : n = Len(p)
  OBVIOUS
<1>2. PICK f : Along(ks, d, p, f) /\ Leads(ks, d, p) = f[n]
  BY <1>1, LeadsValue
<1>3. PICK g : Along(ls, d, p, g) /\ Leads(ls, d, p) = g[n]
  BY <1>1, LeadsValue
<1>4. \A k \in 1 .. n : /\ k - 1 \in 0 .. n /\ p[k] \in Names
                        /\ f[k - 1] \in Ino /\ f[k] \in Ino
                        /\ f[k] = IF f[k - 1] = NoIno THEN NoIno ELSE ks[f[k - 1]][p[k]]
                        /\ g[k] = IF g[k - 1] = NoIno THEN NoIno ELSE ls[g[k - 1]][p[k]]
  <2> TAKE k \in 1 .. n
  <2>1. k - 1 \in 0 .. n /\ k \in 0 .. n /\ p[k] \in Names
    BY <1>1
  <2>2. f[k - 1] \in Ino /\ f[k] \in Ino
    BY <1>1, <1>2, <2>1 DEF Along
  <2>3. f[k] = IF f[k - 1] = NoIno THEN NoIno ELSE ks[f[k - 1]][p[k]]
    BY <1>1, <1>2 DEF Along
  <2>4. g[k] = IF g[k - 1] = NoIno THEN NoIno ELSE ls[g[k - 1]][p[k]]
    BY <1>1, <1>3 DEF Along
  <2> QED
    BY <2>1, <2>2, <2>3, <2>4
<1>5. \A k \in 0 .. n : f[k] # NoIno
  <2> DEFINE T == {j \in 0 .. n : f[n - j] # NoIno}
  <2>1. 0 \in T
    BY <1>2
  <2>2. ASSUME NEW j \in 0 .. n - 1, j \in T PROVE j + 1 \in T
    <3>1. PICK k \in 1 .. n : k = n - j /\ k - 1 = n - (j + 1) /\ j + 1 \in 0 .. n
      OBVIOUS
    <3>2. f[k] # NoIno
      BY <2>2, <3>1
    <3>3. f[k - 1] # NoIno
      BY <1>4, <3>2
    <3> QED
      BY <3>1, <3>3
  <2>3. 0 .. n \subseteq T
    <3> HIDE DEF T
    <3> QED
      BY <2>1, <2>2, Rise
  <2>4. \A k \in 0 .. n : n - k \in 0 .. n /\ n - (n - k) = k
    OBVIOUS
  <2> QED
    BY <2>3, <2>4
<1> DEFINE T == {k \in 0 .. n : g[k] = f[k]}
<1>6. 0 \in T
  BY <1>1, <1>2, <1>3 DEF Along
<1>7. ASSUME NEW k \in 0 .. n - 1, k \in T PROVE k + 1 \in T
  <2>1. PICK j \in 1 .. n : j = k + 1 /\ j - 1 = k /\ j \in 0 .. n /\ k \in 0 .. n
    OBVIOUS
  <2>2. PICK e, a : e = f[k] /\ a = p[j]
    OBVIOUS
  <2>3. e \in Inodes /\ a \in Names /\ f[j] = ks[e][a] /\ f[j] # NoIno
    BY <1>4, <1>5, <2>1, <2>2 DEF Ino
  <2>4. g[j] = ls[e][a]
    BY <1>4, <1>5, <1>7, <2>1, <2>2
  <2>5. \/ ls[e][a] = ks[e][a]
        \/ ks[e][a] # f[n] /\ \A m \in Names : ks[ks[e][a]][m] = NoIno
    BY <1>2, <2>3 DEF Keeps
  <2>6. ls[e][a] = ks[e][a]
    <3>1. CASE j = n
      BY <2>3, <2>5, <3>1
    <3>2. CASE j # n
      <4>1. PICK i \in 1 .. n : i = j + 1 /\ i - 1 = j /\ i \in 0 .. n
        BY <3>2
      <4>2. f[i] = ks[f[j]][p[i]] /\ f[i] # NoIno /\ p[i] \in Names
        BY <1>4, <1>5, <2>1, <4>1
      <4>3. ks[ks[e][a]][p[i]] # NoIno /\ p[i] \in Names
        BY <2>3, <4>2
      <4> QED
        BY <2>5, <4>3
    <3> QED
      BY <3>1, <3>2
  <2> QED
    BY <2>1, <2>3, <2>4, <2>6
<1>8. n \in T
  <2> HIDE DEF T
  <2>1. 0 .. n \subseteq T
    BY <1>6, <1>7, Rise
  <2> QED
    BY <2>1
<1> QED
  BY <1>2, <1>3, <1>8

-----------------------------------------------------------------------------
(***************************************************************************)
(* The tree, and the state of a walk.                                      *)
(***************************************************************************)

Kinds == {"free", "file", "dir"}

\* Each file and directory is at the end of a path from the root.
Rooted(k, ks) ==
  \A i \in Inodes : k[i] # "free" => \E p \in Seq(Names) : Leads(ks, Root, p) = i

\* Each file and directory but the root has one entry, in a directory.
Tree(k, ks) ==
  /\ k \in [Inodes -> Kinds] /\ ks \in Tables
  /\ k[Root] = "dir"
  /\ \A d \in Inodes, n \in Names :
       ks[d][n] # NoIno => k[d] = "dir" /\ k[ks[d][n]] # "free" /\ ks[d][n] # Root
  /\ \A d, e \in Inodes, n, m \in Names :
       ks[d][n] = ks[e][m] /\ ks[d][n] # NoIno => d = e /\ n = m
  /\ \A i \in Inodes \ {Root} :
       k[i] # "free" => \E d \in Inodes, n \in Names : ks[d][n] = i
  /\ Rooted(k, ks)

States == [kind : [Inodes -> Kinds], kids : Tables, cur : Inodes, prompt : Seq(Typed),
           depth : Int, ok : BOOLEAN]

Sound(st) ==
  st \in States /\ Tree(st.kind, st.kids) /\ st.kind[st.cur] = "dir"

\* All but the place and what is said of it.
SameTree(st, t) == t.kind = st.kind /\ t.kids = st.kids
SameWalk(st, t) == t.prompt = st.prompt /\ t.depth = st.depth /\ t.ok = st.ok

LEMMA SoundTypes ==
  ASSUME NEW st, Sound(st)
  PROVE  /\ st.kind \in [Inodes -> Kinds] /\ st.kids \in Tables /\ st.cur \in Inodes
         /\ st.prompt \in Seq(Typed) /\ st.prompt \in Seq(Names)
         /\ st.depth \in Int /\ st.ok \in BOOLEAN
         /\ Tree(st.kind, st.kids) /\ st.kind[st.cur] = "dir"
         /\ \A d \in Inodes, n \in Names : st.kids[d][n] \in Inodes \cup {NoIno}
<1>1. st.prompt \in Seq(Typed) /\ st.prompt \in Seq(Names)
  BY Constants DEF Sound, States
<1> QED
  BY <1>1 DEF Sound, States, Tables, Ino

\* s_cwd with a component more; an empty one apart, that is the sequence with one more.
LEMMA LongerIs ==
  ASSUME NEW p \in Seq(Typed), NEW n \in Typed
  PROVE  /\ Longer(p, n) \in Seq(Typed)
         /\ Unnamed \notin Typed => Longer(p, n) = Append(p, n)
<1>1. PICK q : q = IF p # << >> /\ p[Len(p)] = Unnamed THEN Shorter(p) ELSE p
  OBVIOUS
<1>2. Longer(p, n) = IF q = << >> /\ n = Unnamed THEN q ELSE Append(q, n)
  BY <1>1 DEF Longer
<1>3. q \in Seq(Typed)
  BY <1>1 DEF Shorter
<1>4. p # << >> => p[Len(p)] \in Typed
  OBVIOUS
<1>5. Unnamed \notin Typed => q = p /\ n # Unnamed
  BY <1>1, <1>4
<1> QED
  BY <1>2, <1>3, <1>5

\* What namei() finds; only of the root ".." is not the directory that has it.
LEMMA KidFound ==
  ASSUME NEW st, Sound(st), NEW n \in Names \cup {".", ".."}, NEW i, i = Kid(st, n)
  PROVE  /\ i \in Inodes \cup {NoIno}
         /\ n = "." => i = st.cur
         /\ n \in Names => i = st.kids[st.cur][n]
         /\ n = ".." => /\ i \in Inodes /\ st.kind[i] = "dir"
                        /\ st.cur = Root => i = Root
                        /\ st.cur # Root => \E m \in Names : st.kids[i][m] = st.cur
<1>1. CASE n = "."
  BY <1>1, SoundTypes, Constants DEF Kid
<1>2. CASE n \in Names
  BY <1>2, SoundTypes, Constants DEF Kid
<1>3. CASE n = ".."
  <2>1. CASE st.cur = Root
    BY <1>3, <2>1, SoundTypes, Constants DEF Kid
  <2>2. CASE st.cur # Root
    <3>1. i = CHOOSE d \in Inodes : \E m \in Names : st.kids[d][m] = st.cur
      BY <1>3, <2>2, Constants DEF Kid
    <3>2. \E d \in Inodes : \E m \in Names : st.kids[d][m] = st.cur
      BY <2>2, SoundTypes DEF Tree
    <3>3. i \in Inodes /\ \E m \in Names : st.kids[i][m] = st.cur
      BY <3>1, <3>2, Zenon
    <3>4. st.kind[i] = "dir"
      BY <3>3, SoundTypes, Constants DEF Tree
    <3> QED
      BY <1>3, <2>2, <3>3, <3>4, Constants
  <2> QED
    BY <2>1, <2>2
<1> QED
  BY <1>1, <1>2, <1>3

\* An inode has one entry.
LEMMA OneEntry ==
  ASSUME NEW st, Sound(st), NEW d \in Inodes, NEW e \in Inodes, NEW a \in Names, NEW b \in Names,
         st.kids[d][a] = st.kids[e][b], st.kids[d][a] # NoIno
  PROVE  d = e /\ a = b
BY SoundTypes DEF Tree

\* The free inode i becomes the entry n of the current directory.
Adds(st, t, n, k, i) ==
  /\ i \in Free(st)
  /\ t.kind = [st.kind EXCEPT ![i] = k]
  /\ t.kids = [st.kids EXCEPT ![st.cur][n] = i]

\* mkdir() and creat(): an inode that was free gets the name, if one is left.
LEMMA MakeDoes ==
  ASSUME NEW st, Sound(st), NEW n \in Names \cup {".", ".."}, NEW k \in {"file", "dir"},
         NEW t, t = Make(st, n, k)
  PROVE  /\ Sound(t) /\ SameWalk(st, t) /\ t.cur = st.cur
         /\ Free(st) = {} \/ Kid(st, n) # NoIno => t = st
         /\ Free(st) # {} /\ Kid(st, n) = NoIno =>
              n \in Names /\ \E i : Adds(st, t, n, k, i)
<1>1. CASE Free(st) = {} \/ Kid(st, n) # NoIno
  <2>1. t = st
    BY <1>1 DEF Make
  <2> QED
    BY <1>1, <2>1 DEF SameWalk
<1>2. CASE Free(st) # {} /\ Kid(st, n) = NoIno
  <2>1. PICK i : i = First(Free(st))
    OBVIOUS
  <2>2. Free(st) \in SUBSET Nat
    BY Constants DEF Free
  <2>3. i \in Free(st)
    BY <1>2, <2>1, <2>2, FirstIsLeast
  <2>4. i \in Inodes /\ st.kind[i] = "free"
    BY <2>3 DEF Free
  <2>5. n \in Names /\ st.kids[st.cur][n] = NoIno
    BY <1>2, KidFound, SoundTypes, Constants
  <2>6. t = [st EXCEPT !.kind[i] = k, !.kids[st.cur][n] = i]
    BY <1>2, <2>1 DEF Make
  <2>7. t = [st EXCEPT !.kind = [st.kind EXCEPT ![i] = k],
                       !.kids = [st.kids EXCEPT ![st.cur][n] = i]]
    BY <2>6 DEF Sound, States
  <2>8. /\ t.kind = [st.kind EXCEPT ![i] = k] /\ t.kids = [st.kids EXCEPT ![st.cur][n] = i]
        /\ t.cur = st.cur /\ SameWalk(st, t)
    BY <2>7 DEF Sound, States, SameWalk
  <2>9. t.kind \in [Inodes -> Kinds] /\ t.kids \in Tables
    BY <2>4, <2>5, <2>8, SoundTypes DEF Kinds, Tables, Ino
  <2>10. t \in States
    BY <2>7, <2>8, <2>9 DEF Sound, States
  <2>11. \A d \in Inodes, m \in Names :
           t.kids[d][m] = IF d = st.cur /\ m = n THEN i ELSE st.kids[d][m]
    BY <2>5, <2>8, SoundTypes DEF Tables
  <2>12. \A j \in Inodes : t.kind[j] = IF j = i THEN k ELSE st.kind[j]
    BY <2>8, SoundTypes
  <2>13. i # Root /\ i # st.cur /\ i # NoIno
    BY <2>4, SoundTypes, Constants DEF Tree
  <2>14. \A d \in Inodes, m \in Names : st.kids[d][m] # i
    BY <2>4, <2>13, SoundTypes DEF Tree
  <2>15. ASSUME NEW d \in Inodes, NEW m \in Names, t.kids[d][m] # NoIno
         PROVE  t.kind[d] = "dir" /\ t.kind[t.kids[d][m]] # "free" /\ t.kids[d][m] # Root
    <3>1. CASE d = st.cur /\ m = n
      BY <2>4, <2>11, <2>12, <2>13, <3>1, SoundTypes
    <3>2. CASE ~(d = st.cur /\ m = n)
      <4>1. t.kids[d][m] = st.kids[d][m] /\ st.kids[d][m] \in Inodes
        BY <2>11, <2>15, <3>2, SoundTypes
      <4>2. st.kind[d] = "dir" /\ st.kind[st.kids[d][m]] # "free" /\ st.kids[d][m] # Root
        BY <2>15, <4>1, SoundTypes DEF Tree
      <4> QED
        BY <2>4, <2>12, <4>1, <4>2
    <3> QED
      BY <3>1, <3>2
  <2>16. ASSUME NEW d \in Inodes, NEW e \in Inodes, NEW a \in Names, NEW b \in Names,
                t.kids[d][a] = t.kids[e][b], t.kids[d][a] # NoIno
         PROVE  d = e /\ a = b
    BY <2>11, <2>14, <2>16, SoundTypes DEF Tree
  <2>17. ASSUME NEW j \in Inodes \ {Root}, t.kind[j] # "free"
         PROVE  \E d \in Inodes, m \in Names : t.kids[d][m] = j
    <3>1. CASE j = i
      BY <2>5, <2>11, <3>1, SoundTypes
    <3>2. CASE j # i
      <4>1. PICK d \in Inodes, m \in Names : st.kids[d][m] = j
        BY <2>12, <2>17, <3>2, SoundTypes DEF Tree
      <4>2. ~(d = st.cur /\ m = n)
        BY <2>5, <4>1, Constants
      <4> QED
        BY <2>11, <4>1, <4>2
    <3> QED
      BY <3>1, <3>2
  <2>18. t.kind[Root] = "dir" /\ t.kind[t.cur] = "dir"
    BY <2>8, <2>12, <2>13, SoundTypes, Constants DEF Tree
  <2>19. Rooted(t.kind, t.kids)
    <3>1. st.kids \in Tables /\ t.kids \in Tables /\ Root \in Ino /\ Rooted(st.kind, st.kids)
      BY <2>9, SoundTypes, Constants DEF Tree, Ino
    <3>2. ASSUME NEW j \in Inodes, st.kind[j] # "free"
          PROVE  \E p \in Seq(Names) : Leads(t.kids, Root, p) = j
      <4>1. PICK p \in Seq(Names) : Leads(st.kids, Root, p) = j
        BY <3>1, <3>2 DEF Rooted
      <4>2. j # NoIno /\ Keeps(st.kids, t.kids, j)
        BY <2>5, <2>11, Constants DEF Keeps
      <4> QED
        BY <3>1, <4>1, <4>2, LeadsKept
    <3>3. \E p \in Seq(Names) : Leads(t.kids, Root, p) = i
      <4>1. st.kind[st.cur] # "free"
        BY SoundTypes
      <4>2. PICK p \in Seq(Names) : Leads(t.kids, Root, p) = st.cur
        BY <3>2, <4>1, SoundTypes
      <4>3. t.kids[st.cur][n] = i /\ st.cur # NoIno
        BY <2>5, <2>11, SoundTypes, Constants
      <4>4. Leads(t.kids, Root, Append(p, n)) = i
        BY <2>5, <3>1, <4>2, <4>3, LeadsStep
      <4>5. Append(p, n) \in Seq(Names)
        BY <2>5
      <4> QED
        BY <4>4, <4>5
    <3>4. ASSUME NEW j \in Inodes, t.kind[j] # "free"
          PROVE  \E p \in Seq(Names) : Leads(t.kids, Root, p) = j
      <4>1. CASE j = i
        BY <3>3, <4>1
      <4>2. CASE j # i
        BY <2>12, <3>2, <3>4, <4>2
      <4> QED
        BY <4>1, <4>2
    <3> QED
      BY <3>4 DEF Rooted
  <2>20. Sound(t)
    BY <2>9, <2>10, <2>15, <2>16, <2>17, <2>18, <2>19 DEF Sound, Tree
  <2> QED
    BY <1>2, <2>3, <2>5, <2>8, <2>20 DEF Adds
<1> QED
  BY <1>1, <1>2

\* A path from d that leads to where the walk is.
Way(st, d, q) ==
  d \in Inodes /\ q \in Seq(Names) /\ Leads(st.kids, d, q) = st.cur

\* chdir() goes to a directory or nowhere.
LEMMA ChdirDoes ==
  ASSUME NEW st, Sound(st), NEW n \in Names \cup {".", ".."}, NEW t, t = Chdir(st, n)
  PROVE  /\ Sound(t) /\ SameTree(st, t) /\ SameWalk(st, t)
         /\ Kid(st, n) # NoIno /\ st.kind[Kid(st, n)] = "dir" => t.cur = Kid(st, n)
         /\ ~(Kid(st, n) # NoIno /\ st.kind[Kid(st, n)] = "dir") => t = st
<1>1. PICK i : i = Kid(st, n)
  OBVIOUS
<1>2. CASE i # NoIno /\ st.kind[i] = "dir"
  <2>1. i \in Inodes
    BY <1>1, <1>2, KidFound
  <2>2. t = [st EXCEPT !.cur = i]
    BY <1>1, <1>2 DEF Chdir
  <2>3. t.cur = i /\ SameTree(st, t) /\ SameWalk(st, t) /\ t \in States
    BY <2>1, <2>2 DEF Sound, States, SameTree, SameWalk
  <2>4. Sound(t)
    BY <1>2, <2>3, SoundTypes DEF Sound, SameTree
  <2> QED
    BY <1>1, <1>2, <2>3, <2>4
<1>3. CASE ~(i # NoIno /\ st.kind[i] = "dir")
  <2>1. t = st
    BY <1>1, <1>3 DEF Chdir
  <2> QED
    BY <1>1, <1>3, <2>1 DEF SameTree, SameWalk
<1> QED
  BY <1>2, <1>3

\* One level up: every way to where the walk is loses its last component.
LEMMA UpDoes ==
  ASSUME NEW st, Sound(st), NEW t, t = Up(st)
  PROVE  /\ Sound(t) /\ SameTree(st, t) /\ t.depth = st.depth /\ t.ok = st.ok
         /\ t.prompt = Shorter(st.prompt) /\ t.cur = Kid(st, "..")
         /\ \A d, q : Way(st, d, q) /\ (q # << >> \/ d = Root) => Way(t, d, Shorter(q))
<1>1. PICK u : u = Chdir(st, "..")
  OBVIOUS
<1>2. PICK i : i = Kid(st, "..")
  OBVIOUS
<1>3. /\ i \in Inodes /\ st.kind[i] = "dir" /\ (st.cur = Root => i = Root)
      /\ st.cur # Root => \E m \in Names : st.kids[i][m] = st.cur
  BY <1>2, KidFound
<1>4. Sound(u) /\ SameTree(st, u) /\ SameWalk(st, u) /\ u.cur = i
  BY <1>1, <1>2, <1>3, ChdirDoes, Constants
<1>5. PICK p : p = Shorter(st.prompt)
  OBVIOUS
<1>6. p \in Seq(Typed)
  <2>1. PICK s \in Seq(Typed) : s = st.prompt
    BY SoundTypes
  <2> QED
    BY <1>5, <2>1 DEF Shorter
<1>7. t = [u EXCEPT !.prompt = p]
  BY <1>1, <1>4, <1>5 DEF Up, SameWalk, Sound, States
<1>8. /\ t \in States /\ t.kind = u.kind /\ t.kids = u.kids /\ t.cur = u.cur
      /\ t.prompt = p /\ t.depth = u.depth /\ t.ok = u.ok
  BY <1>4, <1>6, <1>7 DEF Sound, States
<1>9. Sound(t) /\ SameTree(st, t) /\ t.depth = st.depth /\ t.ok = st.ok
  BY <1>4, <1>8 DEF Sound, SameTree, SameWalk
<1>10. ASSUME NEW d, NEW q, Way(st, d, q), q # << >> \/ d = Root
       PROVE  Way(t, d, Shorter(q))
  <2>1. PICK ks \in Tables : ks = st.kids
    BY SoundTypes
  <2>2. PICK c \in Inodes : c = st.cur
    BY SoundTypes
  <2>3. d \in Ino /\ q \in Seq(Names) /\ Leads(ks, d, q) = c /\ c # NoIno
    BY <1>10, <2>1, <2>2, Constants DEF Way, Ino
  <2>4. CASE q = << >>
    <3>1. d = Root /\ d = c
      BY <1>10, <2>3, <2>4, LeadsStep, Constants
    <3>2. t.cur = d
      BY <1>3, <1>4, <1>8, <2>2, <3>1
    <3>3. Shorter(q) = << >> /\ << >> \in Seq(Names)
      BY <2>4 DEF Shorter
    <3>4. Leads(t.kids, d, << >>) = d
      BY <1>9, <2>1, <2>3, LeadsStep, Constants DEF SameTree
    <3> QED
      BY <1>10, <3>2, <3>3, <3>4 DEF Way
  <2>5. CASE q # << >>
    <3>1. PICK e, n, s : e = Leads(ks, d, Shorter(q)) /\ n = q[Len(q)] /\ s = Shorter(q)
      OBVIOUS
    <3>2. s \in Seq(Names) /\ e \in Inodes /\ n \in Names /\ ks[e][n] = c
      BY <2>3, <2>5, <3>1, LeadsBack
    <3>3. c # Root
      BY <2>1, <3>2, SoundTypes, Constants DEF Tree
    <3>4. PICK m \in Names : ks[i][m] = c
      BY <1>3, <2>1, <2>2, <3>3
    <3>5. i = e
      BY <1>3, <2>1, <2>3, <3>2, <3>4, SoundTypes DEF Tree
    <3>6. Leads(t.kids, d, s) = t.cur
      BY <1>4, <1>8, <1>9, <2>1, <3>1, <3>5 DEF SameTree
    <3> QED
      BY <1>10, <3>1, <3>2, <3>6 DEF Way
  <2> QED
    BY <2>4, <2>5
<1> QED
  BY <1>2, <1>4, <1>5, <1>8, <1>9, <1>10

\* The prompt and the depth say of one component more.
Entered(st, n, t) ==
  t.prompt = Longer(st.prompt, n) /\ t.depth = st.depth + 1

\* One level down: every way to where the walk is gets the component.
LEMMA DownDoes ==
  ASSUME NEW st, Sound(st), NEW n \in Typed, NEW t, t = Down(st, n)
  PROVE  /\ Sound(t) /\ SameTree(st, t) /\ t.ok = st.ok /\ Entered(st, n, t)
         /\ n \in Names /\ (Unnamed \notin Typed => t.prompt = Append(st.prompt, n))
         /\ st.kids[st.cur][n] # NoIno /\ st.kind[st.kids[st.cur][n]] = "dir" =>
              /\ t.cur = st.kids[st.cur][n]
              /\ \A d, q : Way(st, d, q) => Way(t, d, Append(q, n))
<1>0. n \in Names
  BY Constants
<1>1. PICK u : u = Chdir(st, n)
  OBVIOUS
<1>2. Sound(u) /\ SameTree(st, u) /\ SameWalk(st, u)
  BY <1>0, <1>1, ChdirDoes
<1>3. PICK p : p = Longer(st.prompt, n)
  OBVIOUS
<1>4. p \in Seq(Typed) /\ (Unnamed \notin Typed => p = Append(st.prompt, n))
  BY <1>3, SoundTypes, LongerIs
<1>5. PICK h \in Int : h = st.depth + 1
  BY SoundTypes
<1>6. t = [u EXCEPT !.prompt = p, !.depth = h]
  BY <1>1, <1>2, <1>3, <1>5 DEF Down, SameWalk, Sound, States
<1>7. /\ t \in States /\ t.kind = u.kind /\ t.kids = u.kids /\ t.cur = u.cur
      /\ t.prompt = p /\ t.depth = h /\ t.ok = u.ok
  BY <1>2, <1>4, <1>6, <1>5 DEF Sound, States
<1>8. Sound(t) /\ SameTree(st, t) /\ t.ok = st.ok
  BY <1>2, <1>7 DEF Sound, SameTree, SameWalk
<1>9. ASSUME st.kids[st.cur][n] # NoIno, st.kind[st.kids[st.cur][n]] = "dir"
      PROVE  /\ t.cur = st.kids[st.cur][n]
             /\ \A d, q : Way(st, d, q) => Way(t, d, Append(q, n))
  <2>1. PICK i : i = Kid(st, n)
    OBVIOUS
  <2>2. i = st.kids[st.cur][n]
    BY <1>0, <2>1, KidFound
  <2>3. t.cur = i
    BY <1>0, <1>1, <1>7, <1>9, <2>1, <2>2, ChdirDoes
  <2>4. ASSUME NEW d, NEW q, Way(st, d, q) PROVE Way(t, d, Append(q, n))
    <3>1. d \in Ino /\ d \in Inodes /\ q \in Seq(Names) /\ Leads(st.kids, d, q) = st.cur
      BY <2>4 DEF Way, Ino
    <3>2. st.kids \in Tables /\ st.cur # NoIno
      BY SoundTypes, Constants
    <3>3. PICK s : s = Append(q, n)
      OBVIOUS
    <3>4. s \in Seq(Names)
      BY <1>0, <3>1, <3>3
    <3>5. Leads(st.kids, d, s) = st.kids[st.cur][n]
      BY <1>0, <3>1, <3>2, <3>3, LeadsStep
    <3> QED
      BY <1>8, <2>2, <2>3, <3>1, <3>3, <3>4, <3>5 DEF Way, SameTree
  <2> QED
    BY <2>2, <2>3, <2>4
<1>10. Entered(st, n, t)
  BY <1>3, <1>5, <1>7 DEF Entered
<1> QED
  BY <1>0, <1>4, <1>7, <1>8, <1>9, <1>10

\* The path q without its last k components.
Cut(q, k) == SubSeq(q, 1, Len(q) - k)

LEMMA CutOne ==
  ASSUME NEW q \in Seq(Names)
  PROVE  /\ Cut(q, 0) = q
         /\ \A k \in 0 .. Len(q) - 1 :
              /\ Cut(q, k) \in Seq(Names) /\ Cut(q, k) # << >>
              /\ Shorter(Cut(q, k)) = Cut(q, k + 1)
<1>1. PICK n \in Nat : n = Len(q)
  OBVIOUS
<1>2. Cut(q, 0) = q
  <2>1. PICK t : t = SubSeq(q, 1, n)
    OBVIOUS
  <2>2. t \in Seq(Names) /\ Len(t) = n /\ \A i \in 1 .. n : t[i] = q[i]
    BY <1>1, <2>1
  <2>3. t = q
    BY <1>1, <2>2, SeqEqual
  <2> QED
    BY <1>1, <2>1, <2>3 DEF Cut
<1>3. ASSUME NEW k \in 0 .. n - 1
      PROVE  /\ Cut(q, k) \in Seq(Names) /\ Cut(q, k) # << >>
             /\ Shorter(Cut(q, k)) = Cut(q, k + 1)
  <2>1. PICK s : s = Cut(q, k)
    OBVIOUS
  <2>2. s = SubSeq(q, 1, n - k)
    BY <1>1, <2>1 DEF Cut
  <2>3. s \in Seq(Names) /\ Len(s) = n - k /\ \A i \in 1 .. n - k : s[i] = q[i]
    BY <1>1, <2>2
  <2>4. s # << >>
    BY <2>3
  <2>5. PICK t, u : t = Shorter(s) /\ u = Cut(q, k + 1)
    OBVIOUS
  <2>6. t = SubSeq(s, 1, n - k - 1) /\ u = SubSeq(q, 1, n - (k + 1))
    BY <1>1, <2>3, <2>4, <2>5 DEF Shorter, Cut
  <2>7. PICK m \in Nat : m = n - k - 1 /\ m = n - (k + 1) /\ m + 1 = n - k
    OBVIOUS
  <2>8. /\ t \in Seq(Names) /\ Len(t) = m /\ \A i \in 1 .. m : t[i] = s[i]
        /\ u \in Seq(Names) /\ Len(u) = m /\ \A i \in 1 .. m : u[i] = q[i]
    <3>1. t = SubSeq(s, 1, m) /\ u = SubSeq(q, 1, m) /\ m <= Len(s) /\ m <= Len(q)
      BY <1>1, <2>3, <2>6, <2>7
    <3> QED
      BY <2>3, <3>1
  <2>9. \A i \in 1 .. m : t[i] = u[i]
    BY <2>3, <2>7, <2>8
  <2>10. t = u
    BY <2>8, <2>9, SeqEqual
  <2> QED
    BY <2>1, <2>3, <2>4, <2>5, <2>10
<1> QED
  BY <1>1, <1>2, <1>3

\* The states of unwind_path(), which goes up as often as it is told.
Unwinds(st, n, f) ==
  /\ f[0] = st /\ \A k \in 1 .. n : f[k] = Up(f[k - 1])
  /\ \A k \in 0 .. n : Sound(f[k])
  /\ Unwind(st, n) = f[n]

LEMMA UnwindValue ==
  ASSUME NEW st, Sound(st), NEW n \in Nat
  PROVE  \E f : Unwinds(st, n, f)
<1> DEFINE V == {s \in States : Sound(s)}
<1>1. \A s : s \in V <=> Sound(s)
  BY DEF Sound
<1>2. PICK step : step = [k \in 1 .. n |-> [s \in V |-> Up(s)]]
  OBVIOUS
<1> HIDE DEF V
<1>3. \A k \in 1 .. n : \A s \in V : step[k][s] = Up(s) /\ step[k][s] \in V
  BY <1>1, <1>2, UpDoes
<1>4. PICK g : Turns(n, V, st, step, g)
  BY <1>1, <1>3, Loop
<1>5. g[0] = st /\ g = [k \in 0 .. n |-> g[k]] /\ \A k \in 1 .. n : g[k] = Up(g[k - 1])
  <2>1. \A k \in 1 .. n : k - 1 \in 0 .. n
    OBVIOUS
  <2> QED
    BY <1>3, <1>4, <2>1 DEF Turns
<1>6. g = [k \in 0 .. n |-> IF k = 0 THEN st ELSE Up(g[k - 1])]
  <2>1. \A k \in 0 .. n : k = 0 \/ k \in 1 .. n
    OBVIOUS
  <2>2. \A k \in 0 .. n : g[k] = IF k = 0 THEN st ELSE Up(g[k - 1])
    BY <1>5, <2>1
  <2> QED
    BY <1>5, <2>2
<1> DEFINE after[k \in 0 .. n] == IF k = 0 THEN st ELSE Up(after[k - 1])
<1>7. Unwind(st, n) = IF n > 0 THEN after[n] ELSE st
  BY DEF Unwind
<1>8. after = [k \in 0 .. n |-> IF k = 0 THEN st ELSE Up(after[k - 1])]
  BY <1>6
<1> HIDE DEF after
<1>9. after[0] = st /\ \A k \in 1 .. n : after[k] = Up(after[k - 1])
  <2>1. 0 \in 0 .. n /\ \A k \in 1 .. n : k \in 0 .. n /\ k # 0
    OBVIOUS
  <2> QED
    BY <1>8, <2>1
<1>10. \A k \in 0 .. n : Sound(after[k])
  <2> DEFINE T == {k \in 0 .. n : Sound(after[k])}
  <2>1. 0 \in T
    BY <1>9
  <2>2. ASSUME NEW k \in 0 .. n - 1, k \in T PROVE k + 1 \in T
    <3>1. k + 1 \in 1 .. n /\ k + 1 - 1 = k /\ Sound(after[k])
      BY <2>2
    <3>2. after[k + 1] = Up(after[k])
      BY <1>9, <3>1
    <3> QED
      BY <3>1, <3>2, UpDoes
  <2>3. 0 .. n \subseteq T
    <3> HIDE DEF T
    <3> QED
      BY <2>1, <2>2, Rise
  <2> QED
    BY <2>3
<1>11. Unwind(st, n) = after[n]
  BY <1>7, <1>9
<1> QED
  BY <1>9, <1>10, <1>11 DEF Unwinds

\* What unwind_path() leaves: every way cut by as many components.
LEMMA UnwindDoes ==
  ASSUME NEW st, Sound(st), NEW depth \in Int, NEW t, t = Unwind(st, depth)
  PROVE  /\ Sound(t) /\ SameTree(st, t) /\ t.depth = st.depth /\ t.ok = st.ok
         /\ Way(st, Root, st.prompt) => Way(t, Root, t.prompt)
         /\ depth \in 0 .. Len(st.prompt) => t.prompt = Cut(st.prompt, depth)
         /\ \A d, q : Way(st, d, q) /\ depth \in 0 .. Len(q) => Way(t, d, Cut(q, depth))
<1>1. CASE ~(depth > 0)
  <2>1. t = st
    BY <1>1 DEF Unwind
  <2>2. depth \in Nat => depth = 0
    BY <1>1
  <2>3. \A q \in Seq(Names) : depth \in 0 .. Len(q) => Cut(q, depth) = q
    BY <2>2, CutOne
  <2> QED
    BY <2>1, <2>3, SoundTypes DEF SameTree, Way
<1>2. CASE depth > 0
  <2>1. depth \in Nat
    BY <1>2
  <2>2. PICK f : /\ f[0] = st /\ \A k \in 1 .. depth : f[k] = Up(f[k - 1])
                 /\ \A k \in 0 .. depth : Sound(f[k])
                 /\ t = f[depth]
    <3>1. PICK f : Unwinds(st, depth, f)
      BY <2>1, UnwindValue
    <3> QED
      BY <3>1 DEF Unwinds
  <2>3. ASSUME NEW k \in 0 .. depth - 1
        PROVE  /\ k \in 0 .. depth /\ k + 1 \in 0 .. depth
               /\ Sound(f[k]) /\ f[k + 1] = Up(f[k])
               /\ SameTree(f[k], f[k + 1])
               /\ f[k + 1].depth = f[k].depth /\ f[k + 1].ok = f[k].ok
               /\ f[k + 1].prompt = Shorter(f[k].prompt)
               /\ \A d, q : Way(f[k], d, q) /\ (q # << >> \/ d = Root)
                              => Way(f[k + 1], d, Shorter(q))
    <3>1. k \in 0 .. depth /\ k + 1 \in 1 .. depth /\ k + 1 - 1 = k /\ k + 1 \in 0 .. depth
      BY <2>1
    <3>2. Sound(f[k]) /\ f[k + 1] = Up(f[k])
      BY <2>2, <3>1
    <3> QED
      BY <3>1, <3>2, UpDoes
  <2>4. Sound(t) /\ SameTree(st, t) /\ t.depth = st.depth /\ t.ok = st.ok
    <3> DEFINE T == {k \in 0 .. depth : SameTree(st, f[k]) /\ f[k].depth = st.depth
                                          /\ f[k].ok = st.ok}
    <3>1. 0 \in T
      BY <2>1, <2>2 DEF SameTree
    <3>2. ASSUME NEW k \in 0 .. depth - 1, k \in T PROVE k + 1 \in T
      BY <2>3, <3>2 DEF SameTree
    <3>3. 0 .. depth \subseteq T
      <4> HIDE DEF T
      <4> QED
        BY <2>1, <3>1, <3>2, Rise
    <3> QED
      BY <2>1, <2>2, <3>3
  <2>5. ASSUME Way(st, Root, st.prompt) PROVE Way(t, Root, t.prompt)
    <3> DEFINE T == {k \in 0 .. depth : Way(f[k], Root, f[k].prompt)}
    <3>1. 0 \in T
      BY <2>1, <2>2, <2>5
    <3>2. ASSUME NEW k \in 0 .. depth - 1, k \in T PROVE k + 1 \in T
      BY <2>3, <3>2
    <3>3. 0 .. depth \subseteq T
      <4> HIDE DEF T
      <4> QED
        BY <2>1, <3>1, <3>2, Rise
    <3> QED
      BY <2>1, <2>2, <3>3
  <2>6. ASSUME depth \in 0 .. Len(st.prompt) PROVE t.prompt = Cut(st.prompt, depth)
    <3>1. PICK p \in Seq(Names) : p = st.prompt
      BY SoundTypes
    <3> DEFINE T == {k \in 0 .. depth : f[k].prompt = Cut(p, k)}
    <3>2. 0 \in T
      BY <2>1, <2>2, <3>1, CutOne
    <3>3. ASSUME NEW k \in 0 .. depth - 1, k \in T PROVE k + 1 \in T
      <4>1. k \in 0 .. Len(p) - 1
        BY <2>6, <3>1
      <4>2. Shorter(Cut(p, k)) = Cut(p, k + 1)
        BY <4>1, CutOne
      <4> QED
        BY <2>3, <3>3, <4>2
    <3>4. 0 .. depth \subseteq T
      <4> HIDE DEF T
      <4> QED
        BY <2>1, <3>2, <3>3, Rise
    <3> QED
      BY <2>1, <2>2, <3>1, <3>4
  <2>7. ASSUME NEW d, NEW q, Way(st, d, q), depth \in 0 .. Len(q)
        PROVE  Way(t, d, Cut(q, depth))
    <3>1. q \in Seq(Names)
      BY <2>7 DEF Way
    <3> DEFINE T == {k \in 0 .. depth : Way(f[k], d, Cut(q, k))}
    <3>2. 0 \in T
      BY <2>1, <2>2, <2>7, <3>1, CutOne
    <3>3. ASSUME NEW k \in 0 .. depth - 1, k \in T PROVE k + 1 \in T
      <4>1. k \in 0 .. Len(q) - 1
        BY <2>7, <3>1
      <4>2. Shorter(Cut(q, k)) = Cut(q, k + 1) /\ Cut(q, k) # << >>
        BY <3>1, <4>1, CutOne
      <4> QED
        BY <2>3, <3>3, <4>2
    <3>4. 0 .. depth \subseteq T
      <4> HIDE DEF T
      <4> QED
        BY <2>1, <3>2, <3>3, Rise
    <3> QED
      BY <2>1, <2>2, <3>4
  <2> QED
    BY <2>4, <2>5, <2>6, <2>7
<1> QED
  BY <1>1, <1>2

\* A new entry takes nothing from any way.
LEMMA MakeKeeps ==
  ASSUME NEW st, Sound(st), NEW n \in Names \cup {".", ".."}, NEW k \in {"file", "dir"},
         NEW t, t = Make(st, n, k), NEW d, NEW q \in Seq(Names), d \in Ino,
         Leads(st.kids, d, q) # NoIno
  PROVE  Leads(t.kids, d, q) = Leads(st.kids, d, q)
<1>1. CASE Free(st) = {} \/ Kid(st, n) # NoIno
  BY <1>1, MakeDoes
<1>2. CASE Free(st) # {} /\ Kid(st, n) = NoIno
  <2>1. n \in Names /\ st.kids[st.cur][n] = NoIno
    BY <1>2, MakeDoes, KidFound
  <2>2. PICK i : Adds(st, t, n, k, i)
    BY <1>2, MakeDoes
  <2>3. st.kids \in Tables /\ t.kids \in Tables
    BY MakeDoes, SoundTypes
  <2>4. \A e \in Inodes, m \in Names : st.kids[e][m] # NoIno => t.kids[e][m] = st.kids[e][m]
    BY <2>1, <2>2, SoundTypes DEF Tables, Adds
  <2>5. Keeps(st.kids, t.kids, Leads(st.kids, d, q))
    BY <2>4 DEF Keeps
  <2> QED
    BY <2>3, <2>5, LeadsKept
<1> QED
  BY <1>1, <1>2

\* rm of what has no entries takes nothing from the way to where the walk is.
LEMMA ErasedDoes ==
  ASSUME NEW st, Sound(st), NEW n \in Names, NEW t, t = Erased(st, n),
         Kid(st, n) # NoIno => \A m \in Names : st.kids[Kid(st, n)][m] = NoIno
  PROVE  /\ Sound(t) /\ SameWalk(st, t) /\ t.cur = st.cur
         /\ \A d, q : Way(st, d, q) => Way(t, d, q)
<1>1. PICK i : i = st.kids[st.cur][n] /\ i = Kid(st, n)
  BY KidFound
<1>2. CASE i = NoIno
  <2>1. t = st
    BY <1>1, <1>2 DEF Erased
  <2> QED
    BY <2>1 DEF SameWalk
<1>3. CASE i # NoIno
  <2>0. /\ st.kids \in Tables /\ st.cur \in Inodes
        /\ \A d \in Inodes, m \in Names : st.kids[d][m] # NoIno => st.kids[d][m] # Root
    BY SoundTypes DEF Tree
  <2>1. i \in Inodes /\ \A m \in Names : st.kids[i][m] = NoIno
    <3>1. \A m \in Names : st.kids[i][m] = NoIno
      BY <1>1, <1>3
    <3>2. st.kids[st.cur][n] \in Inodes \cup {NoIno}
      BY SoundTypes
    <3> QED
      BY <1>1, <1>3, <3>1, <3>2
  <2>2. i # st.cur /\ i # Root
    BY <1>1, <1>3, <2>0, <2>1
  <2>3. t = [st EXCEPT !.kind[i] = "free", !.kids[st.cur][n] = NoIno]
    BY <1>1, <1>3 DEF Erased
  <2>4. t = [st EXCEPT !.kind = [st.kind EXCEPT ![i] = "free"],
                       !.kids = [st.kids EXCEPT ![st.cur][n] = NoIno]]
    BY <2>3 DEF Sound, States
  <2>5. /\ t.kind = [st.kind EXCEPT ![i] = "free"]
        /\ t.kids = [st.kids EXCEPT ![st.cur][n] = NoIno]
        /\ t.cur = st.cur /\ SameWalk(st, t)
    BY <2>4 DEF Sound, States, SameWalk
  <2>6. t.kind \in [Inodes -> Kinds] /\ t.kids \in Tables
    BY <2>1, <2>5, SoundTypes DEF Kinds, Tables, Ino
  <2>7. t \in States
    BY <2>4, <2>5, <2>6 DEF Sound, States
  <2>8. \A d \in Inodes, m \in Names :
          t.kids[d][m] = IF d = st.cur /\ m = n THEN NoIno ELSE st.kids[d][m]
    BY <2>5, SoundTypes DEF Tables
  <2>9. \A j \in Inodes : t.kind[j] = IF j = i THEN "free" ELSE st.kind[j]
    BY <2>5, SoundTypes
  <2>10. ASSUME NEW d \in Inodes, NEW m \in Names, t.kids[d][m] # NoIno
         PROVE  /\ t.kids[d][m] = st.kids[d][m] /\ t.kids[d][m] # i /\ d # i
                /\ t.kind[d] = "dir" /\ t.kind[t.kids[d][m]] # "free" /\ t.kids[d][m] # Root
    <3>1. ~(d = st.cur /\ m = n) /\ t.kids[d][m] = st.kids[d][m] /\ st.kids[d][m] \in Inodes
      BY <2>8, <2>10, SoundTypes
    <3>2. d # i /\ st.kids[d][m] # i
      <4>1. d # i
        BY <2>1, <2>10, <3>1
      <4>2. st.kids[d][m] # i
        <5>1. SUFFICES ASSUME st.kids[d][m] = i PROVE FALSE
          OBVIOUS
        <5>2. st.kids[d][m] = st.kids[st.cur][n] /\ st.kids[d][m] # NoIno
          BY <1>1, <1>3, <5>1
        <5>3. d = st.cur /\ m = n
          BY <2>0, <5>2, OneEntry
        <5> QED
          BY <3>1, <5>3
      <4> QED
        BY <4>1, <4>2
    <3>3. st.kind[d] = "dir" /\ st.kind[st.kids[d][m]] # "free" /\ st.kids[d][m] # Root
      BY <2>10, <3>1, SoundTypes DEF Tree
    <3> QED
      BY <2>9, <3>1, <3>2, <3>3
  <2>11. ASSUME NEW d \in Inodes, NEW e \in Inodes, NEW a \in Names, NEW b \in Names,
                t.kids[d][a] = t.kids[e][b], t.kids[d][a] # NoIno
         PROVE  d = e /\ a = b
    <3>1. t.kids[d][a] = st.kids[d][a] /\ t.kids[e][b] = st.kids[e][b]
      BY <2>10, <2>11
    <3>2. st.kids[d][a] = st.kids[e][b] /\ st.kids[d][a] # NoIno
      BY <2>11, <3>1
    <3> QED
      BY <3>2, OneEntry
  <2>12. ASSUME NEW j \in Inodes \ {Root}, t.kind[j] # "free"
         PROVE  \E d \in Inodes, m \in Names : t.kids[d][m] = j
    <3>1. j # i /\ st.kind[j] # "free"
      BY <2>9, <2>12
    <3>2. PICK d \in Inodes, m \in Names : st.kids[d][m] = j
      BY <3>1, SoundTypes DEF Tree
    <3>3. t.kids[d][m] = j
      BY <1>1, <2>8, <3>1, <3>2
    <3> QED
      BY <3>3
  <2>13. t.kind[Root] = "dir" /\ t.kind[t.cur] = "dir"
    BY <2>2, <2>5, <2>9, SoundTypes, Constants DEF Tree
  <2>14. ASSUME NEW c, c # i PROVE Keeps(st.kids, t.kids, c)
    <3>1. ASSUME NEW e \in Inodes, NEW a \in Names, st.kids[e][a] # NoIno
          PROVE  \/ t.kids[e][a] = st.kids[e][a]
                 \/ st.kids[e][a] # c /\ \A m \in Names : st.kids[st.kids[e][a]][m] = NoIno
      <4>1. CASE e = st.cur /\ a = n
        <5>1. st.kids[e][a] = i
          BY <1>1, <4>1
        <5> QED
          BY <2>1, <2>14, <5>1
      <4>2. CASE ~(e = st.cur /\ a = n)
        BY <2>8, <4>2
      <4> QED
        BY <4>1, <4>2
    <3> QED
      BY <3>1 DEF Keeps
  <2>15. Rooted(t.kind, t.kids)
    <3>1. Root \in Ino /\ Rooted(st.kind, st.kids)
      BY SoundTypes, Constants DEF Tree, Ino
    <3>2. ASSUME NEW j \in Inodes, t.kind[j] # "free"
          PROVE  \E p \in Seq(Names) : Leads(t.kids, Root, p) = j
      <4>1. st.kind[j] # "free" /\ j # i /\ j # NoIno
        BY <2>9, <3>2, Constants
      <4>2. PICK p \in Seq(Names) : Leads(st.kids, Root, p) = j
        BY <3>1, <4>1 DEF Rooted
      <4>3. Keeps(st.kids, t.kids, j)
        BY <2>14, <4>1
      <4> QED
        BY <2>0, <2>6, <3>1, <4>1, <4>2, <4>3, LeadsKept
    <3> QED
      BY <3>2 DEF Rooted
  <2>16. Sound(t)
    BY <2>6, <2>7, <2>10, <2>11, <2>12, <2>13, <2>15 DEF Sound, Tree
  <2>17. ASSUME NEW d, NEW q, Way(st, d, q) PROVE Way(t, d, q)
    <3>1. d \in Ino /\ d \in Inodes /\ q \in Seq(Names) /\ Leads(st.kids, d, q) = st.cur
      BY <2>17 DEF Way, Ino
    <3>2. st.kids \in Tables /\ st.cur # NoIno
      BY SoundTypes, Constants
    <3>3. Leads(t.kids, d, q) = Leads(st.kids, d, q)
      BY <2>2, <2>6, <2>14, <3>1, <3>2, LeadsKept
    <3> QED
      BY <2>5, <3>1, <3>3 DEF Way
  <2> QED
    BY <2>5, <2>16, <2>17
<1> QED
  BY <1>2, <1>3

-----------------------------------------------------------------------------
(***************************************************************************)
(* The walks.                                                              *)
(***************************************************************************)

\* What a walk counts, and whether it goes on, say nothing of the tree.
LEMMA Counted ==
  ASSUME NEW u, Sound(u), NEW h \in Int, NEW t, t = [u EXCEPT !.depth = h]
  PROVE  /\ Sound(t) /\ SameTree(u, t) /\ t.cur = u.cur /\ t.prompt = u.prompt
         /\ t.depth = h /\ t.ok = u.ok
         /\ \A d, q : Way(u, d, q) <=> Way(t, d, q)
<1>1. /\ t \in States /\ SameTree(u, t) /\ t.cur = u.cur /\ t.prompt = u.prompt
      /\ t.depth = h /\ t.ok = u.ok
  BY DEF Sound, States, SameTree
<1> QED
  BY <1>1 DEF Sound, SameTree, Way

LEMMA Ended ==
  ASSUME NEW u, Sound(u), NEW t, t = [u EXCEPT !.ok = FALSE]
  PROVE  /\ Sound(t) /\ SameTree(u, t) /\ t.cur = u.cur /\ t.prompt = u.prompt /\ ~t.ok
         /\ \A d, q : Way(u, d, q) <=> Way(t, d, q)
<1>1. /\ t \in States /\ SameTree(u, t) /\ t.cur = u.cur /\ t.prompt = u.prompt
      /\ t.ok = FALSE
  BY DEF Sound, States, SameTree
<1> QED
  BY <1>1 DEF Sound, SameTree, Way

\* The root is where s_cwd leads.
Shown(st) == Way(st, Root, st.prompt)

\* How many components a walk is away from where it began, which is the directory c
\* with the prompt p.
Steps(st) == IF st.ok THEN st.depth ELSE 0
Away(st, c, p) ==
  /\ p \in Seq(Names)
  /\ \E w : Way(st, c, w) /\ st.prompt = p \o w /\ Len(w) = Steps(st)

\* After as many levels up as the walk is away, it is where it began.
LEMMA BackAgain ==
  ASSUME NEW st, Sound(st), NEW c, NEW p, Away(st, c, p), NEW t, t = Unwind(st, Steps(st))
  PROVE  t.cur = c /\ t.prompt = p
<1>1. PICK w : Way(st, c, w) /\ st.prompt = p \o w /\ Len(w) = Steps(st)
  BY DEF Away
<1>2. w \in Seq(Names) /\ p \in Seq(Names) /\ c \in Inodes
  BY <1>1 DEF Way, Away
<1>3. PICK n \in Nat, m \in Nat : n = Len(w) /\ m = Len(p)
  BY <1>2
<1>4. n = Steps(st)
  BY <1>1, <1>3
<1>5. Way(t, c, Cut(w, n))
  BY <1>1, <1>3, <1>4, UnwindDoes
<1>6. Cut(w, n) = << >>
  BY <1>2, <1>3 DEF Cut
<1>7. t.cur = c
  <2>1. Leads(t.kids, c, << >>) = t.cur /\ Sound(t)
    BY <1>4, <1>5, <1>6, UnwindDoes DEF Way
  <2>2. t.kids \in Tables /\ c \in Ino
    BY <1>2, <2>1, SoundTypes DEF Ino
  <2>3. Leads(t.kids, c, << >>) = c
    BY <1>2, <2>2, LeadsStep, Constants
  <2> QED
    BY <2>1, <2>3
<1>8. PICK r : r = p \o w
  OBVIOUS
<1>9. r \in Seq(Names) /\ Len(r) = m + n /\ \A i \in 1 .. m : r[i] = p[i]
  BY <1>2, <1>3, <1>8, ConcatProperties
<1>10. t.prompt = Cut(r, n)
  <2>1. st.prompt = r /\ n \in 0 .. Len(r) /\ n \in Int /\ t = Unwind(st, n)
    BY <1>1, <1>3, <1>4, <1>8, <1>9
  <2>2. n \in 0 .. Len(st.prompt) => t.prompt = Cut(st.prompt, n)
    BY <2>1, UnwindDoes
  <2> QED
    BY <2>1, <2>2
<1>11. Cut(r, n) = p
  <2>1. PICK s : s = Cut(r, n)
    OBVIOUS
  <2>2. s = SubSeq(r, 1, m)
    BY <1>9, <2>1 DEF Cut
  <2>3. s \in Seq(Names) /\ Len(s) = m /\ \A i \in 1 .. m : s[i] = r[i]
    BY <1>9, <2>2
  <2>4. s = p
    BY <1>2, <1>3, <1>9, <2>3, SeqEqual
  <2> QED
    BY <2>1, <2>4
<1> QED
  BY <1>7, <1>10, <1>11

\* One component entered is one step further away.
LEMMA FurtherAway ==
  ASSUME NEW st, Sound(st), NEW c, NEW p, Away(st, c, p), st.ok, NEW n \in Typed,
         Unnamed \notin Typed,
         st.kids[st.cur][n] # NoIno, st.kind[st.kids[st.cur][n]] = "dir",
         NEW t, t = Down(st, n)
  PROVE  Away(t, c, p)
<1>0. n \in Names
  BY Constants
<1>1. PICK w : Way(st, c, w) /\ st.prompt = p \o w /\ Len(w) = Steps(st)
  BY DEF Away
<1>2. w \in Seq(Names) /\ p \in Seq(Names)
  BY <1>1 DEF Way, Away
<1>3. PICK v : v = Append(w, n)
  OBVIOUS
<1>4. v \in Seq(Names) /\ Len(v) = Len(w) + 1 /\ Append(p \o w, n) = p \o v
  <2>1. v \in Seq(Names) /\ Len(v) = Len(w) + 1
    BY <1>0, <1>2, <1>3
  <2>2. p \o w \in Seq(Names) /\ <<n>> \in Seq(Names)
    BY <1>0, <1>2, ConcatProperties
  <2>3. Append(p \o w, n) = (p \o w) \o <<n>> /\ v = w \o <<n>>
    BY <1>2, <1>3, <2>2, AppendIsConcat
  <2>4. (p \o w) \o <<n>> = p \o (w \o <<n>>)
    BY <1>2, <2>2, ConcatAssociative
  <2> QED
    BY <2>1, <2>3, <2>4
<1>5. /\ Way(t, c, v) /\ t.prompt = Append(st.prompt, n)
      /\ t.depth = st.depth + 1 /\ t.ok = st.ok
  <2>1. \A d, q : Way(st, d, q) => Way(t, d, Append(q, n))
    BY DownDoes
  <2>2. Way(t, c, v)
    BY <1>1, <1>3, <2>1
  <2>3. Entered(st, n, t) /\ t.ok = st.ok /\ t.prompt = Append(st.prompt, n)
    BY DownDoes
  <2> QED
    BY <2>2, <2>3 DEF Entered
<1>6. t.prompt = p \o v /\ Len(v) = Steps(t)
  BY <1>1, <1>4, <1>5 DEF Steps
<1> QED
  BY <1>2, <1>5, <1>6 DEF Away

\* One component left that was entered is one step back.
LEMMA NearerAway ==
  ASSUME NEW st, Sound(st), NEW c, NEW p, Away(st, c, p), st.ok, st.depth > 0,
         NEW u, u = Up(st), NEW t, t = [u EXCEPT !.depth = st.depth - 1]
  PROVE  Away(t, c, p)
<1>1. PICK w : Way(st, c, w) /\ st.prompt = p \o w /\ Len(w) = st.depth
  BY DEF Away, Steps
<1>2. w \in Seq(Names) /\ p \in Seq(Names) /\ st.depth \in Int
  BY <1>1, SoundTypes DEF Way, Away
<1>3. PICK n \in Nat, m \in Nat : n = Len(w) /\ m = Len(p) /\ n > 0
  BY <1>1, <1>2
<1>4. /\ Sound(u) /\ u.depth = st.depth /\ u.ok = st.ok /\ u.prompt = Shorter(p \o w)
      /\ Way(u, c, Shorter(w))
  <2>1. w # << >>
    BY <1>2, <1>3
  <2> QED
    BY <1>1, <2>1, UpDoes
<1>5. /\ t.prompt = u.prompt /\ t.depth = st.depth - 1 /\ t.ok
      /\ Way(t, c, Shorter(w))
  <2>1. PICK h \in Int : h = st.depth - 1
    BY <1>2
  <2>2. t = [u EXCEPT !.depth = h]
    BY <2>1
  <2>3. Sound(u)
    BY <1>4
  <2>4. \A d, q : Way(u, d, q) <=> Way(t, d, q)
    BY <2>2, <2>3, Counted
  <2>5. t.prompt = u.prompt
    BY <2>2, <2>3, Counted
  <2>6. t.depth = h
    BY <2>2, <2>3, Counted
  <2>7. t.ok = u.ok
    BY <2>2, <2>3, Counted
  <2> QED
    BY <1>4, <2>1, <2>4, <2>5, <2>6, <2>7
<1>6. PICK r, s, v : r = p \o w /\ s = Shorter(r) /\ v = Shorter(w)
  OBVIOUS
<1>7. /\ r \in Seq(Names) /\ Len(r) = m + n
      /\ \A i \in 1 .. m + n : r[i] = IF i <= m THEN p[i] ELSE w[i - m]
  BY <1>2, <1>3, <1>6, ConcatProperties
<1>8. s = SubSeq(r, 1, m + n - 1) /\ v = SubSeq(w, 1, n - 1)
  BY <1>2, <1>3, <1>6, <1>7 DEF Shorter
<1>9. PICK h \in Nat : h = n - 1
  BY <1>3
<1>10. v \in Seq(Names) /\ Len(v) = h /\ \A i \in 1 .. h : v[i] = w[i]
  BY <1>2, <1>3, <1>8, <1>9
<1>11. s \in Seq(Names) /\ Len(s) = m + h /\ \A i \in 1 .. m + h : s[i] = r[i]
  <2>1. PICK x \in Nat : x = m + h
    OBVIOUS
  <2>2. s = SubSeq(r, 1, x) /\ x <= Len(r)
    BY <1>3, <1>7, <1>8, <1>9, <2>1
  <2>3. s \in Seq(Names) /\ Len(s) = x /\ \A i \in 1 .. x : s[i] = r[i]
    BY <1>7, <2>2
  <2> QED
    BY <2>1, <2>3
<1>12. PICK q : q = p \o v
  OBVIOUS
<1>13. /\ q \in Seq(Names) /\ Len(q) = m + h
       /\ \A i \in 1 .. m + h : q[i] = IF i <= m THEN p[i] ELSE v[i - m]
  BY <1>2, <1>3, <1>10, <1>12, ConcatProperties
<1>14. ASSUME NEW i \in 1 .. m + h PROVE s[i] = q[i]
  <2>1. i \in 1 .. m + n
    BY <1>9
  <2>2. s[i] = IF i <= m THEN p[i] ELSE w[i - m]
    BY <1>7, <1>11, <2>1
  <2>3. q[i] = IF i <= m THEN p[i] ELSE v[i - m]
    BY <1>13
  <2>4. CASE i <= m
    BY <2>2, <2>3, <2>4
  <2>5. CASE i > m
    <3>1. i - m \in 1 .. h
      BY <2>5
    <3>2. v[i - m] = w[i - m]
      BY <1>10, <3>1
    <3> QED
      BY <2>2, <2>3, <2>5, <3>2
  <2> QED
    BY <2>4, <2>5
<1>15. s = q
  BY <1>11, <1>13, <1>14, SeqEqual
<1>16. t.prompt = p \o v /\ Way(t, c, v) /\ Len(v) = Steps(t)
  BY <1>1, <1>3, <1>4, <1>5, <1>6, <1>9, <1>10, <1>12, <1>15 DEF Steps
<1> QED
  BY <1>2, <1>16 DEF Away

LEMMA FreeCounts ==
  ASSUME NEW st
  PROVE  /\ IsFiniteSet(Free(st)) /\ Cardinality(Free(st)) \in Nat
         /\ Cardinality(Free(st)) > 0 => Free(st) # {}
         /\ \A t : SameTree(st, t) => Free(t) = Free(st)
<1>1. Free(st) \subseteq Inodes
  BY DEF Free
<1>2. IsFiniteSet(Free(st)) /\ Cardinality(Free(st)) \in Nat
  BY <1>1, Constants, FS_Subset, FS_CardinalityType
<1>3. Free(st) = {} => Cardinality(Free(st)) = 0
  BY FS_EmptySet
<1>4. \A t : SameTree(st, t) => Free(t) = Free(st)
  BY DEF SameTree, Free
<1> QED
  BY <1>2, <1>3, <1>4

\* A new entry is there, costs at most one inode, and leaves every way.
LEMMA MadeOne ==
  ASSUME NEW st, Sound(st), NEW n \in Names \cup {".", ".."}, NEW k \in {"file", "dir"},
         NEW u, u = Make(st, n, k)
  PROVE  /\ Sound(u) /\ SameWalk(st, u) /\ u.cur = st.cur
         /\ Cardinality(Free(u)) + 1 >= Cardinality(Free(st))
         /\ \A d, q : Way(st, d, q) => Way(u, d, q)
         /\ Kid(st, n) = NoIno /\ Free(st) # {} =>
              u.kids[u.cur][n] # NoIno /\ u.kind[u.kids[u.cur][n]] = k
<1>1. Sound(u) /\ SameWalk(st, u) /\ u.cur = st.cur
  BY MakeDoes
<1>2. ASSUME NEW d, NEW q, Way(st, d, q) PROVE Way(u, d, q)
  <2>1. d \in Ino /\ d \in Inodes /\ q \in Seq(Names) /\ Leads(st.kids, d, q) = st.cur
    BY <1>2 DEF Way, Ino
  <2>2. Leads(st.kids, d, q) # NoIno
    BY <2>1, SoundTypes, Constants
  <2>3. Leads(u.kids, d, q) = Leads(st.kids, d, q)
    BY <2>1, <2>2, MakeKeeps
  <2> QED
    BY <1>1, <2>1, <2>3 DEF Way
<1>3. CASE Free(st) = {} \/ Kid(st, n) # NoIno
  <2>1. u = st
    BY <1>3, MakeDoes
  <2> QED
    BY <1>1, <1>2, <1>3, <2>1, FreeCounts
<1>4. CASE Free(st) # {} /\ Kid(st, n) = NoIno
  <2>1. n \in Names
    BY <1>4, MakeDoes
  <2>2. PICK i : Adds(st, u, n, k, i)
    BY <1>4, MakeDoes
  <2>3. i \in Inodes /\ i # NoIno
    BY <2>2, Constants DEF Adds, Free
  <2>4. u.kids[st.cur][n] = i /\ u.kind[i] = k
    BY <2>1, <2>2, <2>3, SoundTypes DEF Adds, Tables
  <2>5. Free(u) = Free(st) \ {i}
    BY <2>2, <2>3, SoundTypes DEF Adds, Free
  <2>6. Cardinality(Free(u)) = Cardinality(Free(st)) - 1
    BY <2>2, <2>5, FreeCounts, FS_RemoveElement DEF Adds
  <2>7. Cardinality(Free(u)) + 1 >= Cardinality(Free(st))
    BY <2>6, FreeCounts
  <2> QED
    BY <1>1, <1>2, <2>3, <2>4, <2>7
<1> QED
  BY <1>3, <1>4

\* A walk that fails goes back to where it began.
LEMMA GivenUp ==
  ASSUME NEW st, Sound(st), st.ok, NEW t, t = [Unwind(st, st.depth) EXCEPT !.ok = FALSE]
  PROVE  /\ Sound(t) /\ SameTree(st, t) /\ ~t.ok
         /\ Shown(st) => Shown(t)
         /\ \A c, p : Away(st, c, p) => Away(t, c, p)
<1>1. PICK u : u = Unwind(st, st.depth)
  OBVIOUS
<1>2. st.depth \in Int /\ st.depth = Steps(st)
  BY SoundTypes DEF Steps
<1>3. Sound(u) /\ SameTree(st, u) /\ (Shown(st) => Shown(u))
  BY <1>1, <1>2, UnwindDoes DEF Shown
<1>4. /\ Sound(t) /\ SameTree(u, t) /\ t.cur = u.cur /\ t.prompt = u.prompt /\ ~t.ok
      /\ \A d, q : Way(u, d, q) <=> Way(t, d, q)
  BY <1>1, <1>2, <1>3, Ended
<1>5. ASSUME NEW c, NEW p, Away(st, c, p) PROVE Away(t, c, p)
  <2>1. t.cur = c /\ t.prompt = p
    BY <1>1, <1>2, <1>4, <1>5, BackAgain
  <2>2. p \in Seq(Names) /\ c \in Inodes /\ t.kids \in Tables
    BY <1>4, <1>5, SoundTypes DEF Away, Way
  <2>3. Leads(t.kids, c, << >>) = c
    BY <2>2, LeadsStep, Constants DEF Ino
  <2>4. Way(t, c, << >>) /\ Len(<< >>) = 0 /\ p \o << >> = p
    BY <2>1, <2>2, <2>3, ConcatEmptySeq DEF Way
  <2>5. Steps(t) = 0
    BY <1>4 DEF Steps
  <2> QED
    BY <2>1, <2>2, <2>4, <2>5 DEF Away
<1>6. SameTree(st, t) /\ ~t.ok /\ (Shown(st) => Shown(t))
  BY <1>3, <1>4 DEF SameTree, Shown
<1> QED
  BY <1>4, <1>5, <1>6

\* One turn of resolve_path(): with an inode left, the prompt stays true, and
\* without ".." the walk knows the way back.
LEMMA ResolvePartDoes ==
  ASSUME NEW st, Sound(st), NEW n \in Typed \cup {".", ".."}, NEW t, t = ResolvePart(st, n)
  PROVE  /\ Sound(t)
         /\ Cardinality(Free(t)) + 1 >= Cardinality(Free(st))
         /\ Free(st) # {} /\ Unnamed \notin Typed /\ Shown(st) => Shown(t)
         /\ \A c, p : Free(st) # {} /\ Unnamed \notin Typed /\ n # ".." /\ Away(st, c, p) => Away(t, c, p)
<1>0. Cardinality(Free(st)) + 1 >= Cardinality(Free(st)) /\ n \in Names \cup {".", ".."}
  BY FreeCounts, Constants
<1>1. CASE ~st.ok \/ n = "."
  <2>1. t = st
    BY <1>1 DEF ResolvePart
  <2> QED
    BY <1>0, <2>1
<1>2. CASE st.ok /\ n = ".."
  <2>1. PICK u : u = Up(st)
    OBVIOUS
  <2>2. /\ Sound(u) /\ SameTree(st, u) /\ u.depth = st.depth /\ u.ok = st.ok
        /\ u.prompt = Shorter(st.prompt)
    BY <2>1, UpDoes
  <2>3. Shown(st) => Shown(u)
    BY <2>1, <2>2, UpDoes DEF Shown
  <2>4. PICK h \in Int : h = u.depth - 1
    BY <2>2, SoundTypes
  <2>5. t = [u EXCEPT !.depth = h]
    BY <1>2, <2>1, <2>4 DEF ResolvePart, Sound, States
  <2>6. Sound(t) /\ SameTree(u, t) /\ (Shown(u) => Shown(t))
    BY <2>2, <2>4, <2>5, Counted DEF Shown
  <2>7. Free(t) = Free(st)
    BY <2>2, <2>6, FreeCounts
  <2> QED
    BY <1>0, <1>2, <2>3, <2>6, <2>7
<1>3. CASE st.ok /\ n \in Typed /\ Kid(st, n) = NoIno
  <2>1. PICK u : u = Make(st, n, "dir")
    OBVIOUS
  <2>2. /\ Sound(u) /\ SameWalk(st, u) /\ u.cur = st.cur
        /\ Cardinality(Free(u)) + 1 >= Cardinality(Free(st))
        /\ \A d, q : Way(st, d, q) => Way(u, d, q)
        /\ Free(st) # {} => u.kids[u.cur][n] # NoIno /\ u.kind[u.kids[u.cur][n]] = "dir"
    BY <1>0, <1>3, <2>1, MadeOne
  <2>3. t = Down(u, n)
    BY <1>3, <2>1, Constants DEF ResolvePart
  <2>4. Sound(t) /\ Free(t) = Free(u)
    BY <1>3, <2>2, <2>3, DownDoes, FreeCounts
  <2>5. ASSUME Free(st) # {}, Unnamed \notin Typed, Shown(st) PROVE Shown(t)
    <3>1. Way(u, Root, u.prompt)
      BY <2>2, <2>5 DEF Shown, SameWalk
    <3>2. Way(t, Root, Append(u.prompt, n))
      BY <1>3, <2>2, <2>3, <2>5, <3>1, DownDoes
    <3>3. t.prompt = Append(u.prompt, n)
      BY <1>3, <2>2, <2>3, <2>5, DownDoes
    <3> QED
      BY <3>2, <3>3 DEF Shown
  <2>6. ASSUME NEW c, NEW p, Free(st) # {}, Unnamed \notin Typed, Away(st, c, p) PROVE Away(t, c, p)
    <3>1. Away(u, c, p)
      BY <2>2, <2>6 DEF Away, Steps, SameWalk
    <3> QED
      BY <1>3, <2>2, <2>3, <2>6, <3>1, FurtherAway DEF SameWalk
  <2> QED
    BY <2>2, <2>4, <2>5, <2>6
<1>4. CASE st.ok /\ n \in Typed /\ Kid(st, n) # NoIno /\ st.kind[Kid(st, n)] # "dir"
  <2>1. t = [Unwind(st, st.depth) EXCEPT !.ok = FALSE]
    BY <1>4, Constants DEF ResolvePart
  <2>2. Sound(t) /\ SameTree(st, t) /\ (Shown(st) => Shown(t))
        /\ \A c, p : Away(st, c, p) => Away(t, c, p)
    BY <1>4, <2>1, GivenUp
  <2>3. Free(t) = Free(st)
    BY <2>2, FreeCounts
  <2> QED
    BY <1>0, <2>2, <2>3
<1>5. CASE st.ok /\ n \in Typed /\ Kid(st, n) # NoIno /\ st.kind[Kid(st, n)] = "dir"
  <2>1. t = Down(st, n)
    BY <1>5, Constants DEF ResolvePart
  <2>2. st.kids[st.cur][n] # NoIno /\ st.kind[st.kids[st.cur][n]] = "dir"
    BY <1>0, <1>5, KidFound, Constants
  <2>3. Sound(t) /\ Free(t) = Free(st)
    BY <1>5, <2>1, DownDoes, FreeCounts
  <2>4. ASSUME Unnamed \notin Typed, Shown(st) PROVE Shown(t)
    <3>1. Way(t, Root, Append(st.prompt, n))
      BY <1>5, <2>1, <2>2, <2>4, DownDoes DEF Shown
    <3>2. t.prompt = Append(st.prompt, n)
      BY <1>5, <2>1, <2>4, DownDoes
    <3> QED
      BY <3>1, <3>2 DEF Shown
  <2>5. ASSUME NEW c, NEW p, Unnamed \notin Typed, Away(st, c, p) PROVE Away(t, c, p)
    BY <1>5, <2>1, <2>2, <2>5, FurtherAway
  <2> QED
    BY <1>0, <2>3, <2>4, <2>5
<1> QED
  BY <1>1, <1>2, <1>3, <1>4, <1>5

LEMMA PathTyped ==
  ASSUME NEW parts, NEW p \in PathsOf(parts)
  PROVE  /\ p \in Seq(parts) /\ Len(p) \in Nat \ {0}
         /\ \E n \in Nat : n = Len(p) - 1 /\ n + 1 = Len(p)
         /\ \A k \in 1 .. Len(p) : p[k] \in parts
<1>1. PICK m \in 1 .. MaxPath : p \in [1 .. m -> parts]
  BY DEF PathsOf
<1>2. m \in Nat \ {0}
  BY <1>1, Constants
<1>3. p \in Seq(parts) /\ Len(p) = m
  BY <1>1, <1>2
<1> QED
  BY <1>1, <1>2, <1>3

\* One turn of navigate_path().  It makes nothing, it goes on as long as there is a
\* directory, and without going above where it began it knows the way back.
LEMMA NavigatePartDoes ==
  ASSUME NEW st, Sound(st), NEW n \in Typed \cup {".", ".."}, NEW t, t = NavigatePart(st, n)
  PROVE  /\ Sound(t) /\ SameTree(st, t)
         /\ Unnamed \notin Typed /\ Shown(st) => Shown(t)
         /\ \A c, p : /\ Unnamed \notin Typed /\ Away(st, c, p)
                      /\ st.ok /\ n = ".." => st.depth > 0
                      => Away(t, c, p)
         /\ t.ok <=> st.ok /\ Kid(st, n) # NoIno /\ st.kind[Kid(st, n)] = "dir"
         /\ t.ok => /\ t.cur = Kid(st, n)
                    /\ n = ".." /\ st.depth > 0 => t.depth = st.depth - 1
                    /\ n = "." => t.depth = st.depth
                    /\ n \in Typed => t.depth = st.depth + 1
<1>0. n \in Names \cup {".", ".."} /\ "." \notin Typed /\ ".." \notin Typed
  BY Constants
<1>1. CASE ~st.ok \/ n = "."
  <2>1. t = st
    BY <1>1 DEF NavigatePart
  <2>2. n = "." => Kid(st, n) = st.cur /\ st.cur # NoIno /\ st.kind[st.cur] = "dir"
    BY <1>0, KidFound, SoundTypes, Constants
  <2> QED
    BY <1>0, <1>1, <2>1, <2>2 DEF SameTree
<1>2. CASE st.ok /\ n = ".."
  <2>1. PICK u : u = Up(st)
    OBVIOUS
  <2>2. /\ Sound(u) /\ SameTree(st, u) /\ u.depth = st.depth /\ u.ok = st.ok
        /\ u.prompt = Shorter(st.prompt) /\ u.cur = Kid(st, "..")
    BY <2>1, UpDoes
  <2>3. Shown(st) => Shown(u)
    BY <2>1, <2>2, UpDoes DEF Shown
  <2>4. PICK h \in Int : h = IF u.depth > 0 THEN u.depth - 1 ELSE u.depth
    BY <2>2, SoundTypes
  <2>5. t = [u EXCEPT !.depth = h]
    BY <1>2, <2>1, <2>4 DEF NavigatePart, Sound, States
  <2>6. /\ Sound(t) /\ SameTree(u, t) /\ (Shown(u) => Shown(t))
        /\ t.depth = h /\ t.ok = u.ok /\ t.cur = u.cur
    BY <2>2, <2>4, <2>5, Counted DEF Shown
  <2>7. ASSUME NEW c, NEW p, Away(st, c, p), st.depth > 0 PROVE Away(t, c, p)
    <3>1. t = [u EXCEPT !.depth = st.depth - 1]
      BY <2>2, <2>4, <2>5, <2>7
    <3> QED
      BY <1>2, <2>1, <2>7, <3>1, NearerAway
  <2>8. Kid(st, n) # NoIno /\ st.kind[Kid(st, n)] = "dir"
    BY <1>0, <1>2, KidFound, Constants
  <2> QED
    BY <1>0, <1>2, <2>2, <2>3, <2>4, <2>6, <2>7, <2>8 DEF SameTree
<1>3. CASE st.ok /\ n \in Typed /\ (Kid(st, n) = NoIno \/ st.kind[Kid(st, n)] # "dir")
  <2>1. t = [Unwind(st, st.depth) EXCEPT !.ok = FALSE]
    BY <1>0, <1>3 DEF NavigatePart
  <2> QED
    BY <1>3, <2>1, GivenUp
<1>4. CASE st.ok /\ n \in Typed /\ Kid(st, n) # NoIno /\ st.kind[Kid(st, n)] = "dir"
  <2>1. t = Down(st, n)
    BY <1>0, <1>4 DEF NavigatePart
  <2>2. st.kids[st.cur][n] = Kid(st, n)
    BY <1>0, <1>4, KidFound, Constants
  <2>3. /\ Sound(t) /\ SameTree(st, t) /\ t.ok = st.ok /\ t.cur = Kid(st, n)
        /\ t.depth = st.depth + 1
    <3>1. Sound(t) /\ SameTree(st, t) /\ t.ok = st.ok /\ Entered(st, n, t)
      BY <1>4, <2>1, DownDoes
    <3>2. st.kids[st.cur][n] # NoIno /\ st.kind[st.kids[st.cur][n]] = "dir"
      BY <1>4, <2>2
    <3>3. t.cur = st.kids[st.cur][n]
      BY <1>4, <2>1, <3>2, DownDoes
    <3> QED
      BY <2>2, <3>1, <3>3 DEF Entered
  <2>4. ASSUME Unnamed \notin Typed, Shown(st) PROVE Shown(t)
    <3>1. Way(t, Root, Append(st.prompt, n))
      BY <1>4, <2>1, <2>2, <2>4, DownDoes DEF Shown
    <3>2. t.prompt = Append(st.prompt, n)
      BY <1>4, <2>1, <2>4, DownDoes
    <3> QED
      BY <3>1, <3>2 DEF Shown
  <2>5. ASSUME NEW c, NEW p, Unnamed \notin Typed, Away(st, c, p) PROVE Away(t, c, p)
    BY <1>4, <2>1, <2>2, <2>5, FurtherAway
  <2> QED
    BY <1>0, <1>4, <2>3, <2>4, <2>5
<1> QED
  BY <1>1, <1>2, <1>3, <1>4

\* The states of resolve_path().
Resolves(p, n, f) ==
  /\ f[0] = Start
  /\ \A k \in 1 .. n : f[k] = ResolvePart(f[k - 1], p[k])
  /\ \A k \in 0 .. n : Sound(f[k])
  /\ Resolve(p) = f[n]

LEMMA ResolveValue ==
  ASSUME NEW st, Sound(st), st = Start, NEW p \in PathsOf(Parts), NEW n \in Nat, n = Len(p) - 1
  PROVE  \E f : Resolves(p, n, f)
<1> DEFINE V == {s \in States : Sound(s)}
<1>1. \A s : s \in V <=> Sound(s)
  BY DEF Sound
<1>2. \A k \in 1 .. n : p[k] \in Typed \cup {".", ".."}
  BY PathTyped, Constants
<1>3. PICK step : step = [k \in 1 .. n |-> [s \in V |-> ResolvePart(s, p[k])]]
  OBVIOUS
<1> HIDE DEF V
<1>4. \A k \in 1 .. n : \A s \in V : step[k][s] = ResolvePart(s, p[k]) /\ step[k][s] \in V
  BY <1>1, <1>2, <1>3, ResolvePartDoes
<1>5. PICK g : Turns(n, V, st, step, g)
  BY <1>1, <1>4, Loop
<1>6. /\ g[0] = st /\ g = [k \in 0 .. n |-> g[k]]
      /\ \A k \in 1 .. n : g[k] = ResolvePart(g[k - 1], p[k])
  <2>1. \A k \in 1 .. n : k - 1 \in 0 .. n
    OBVIOUS
  <2> QED
    BY <1>4, <1>5, <2>1 DEF Turns
<1>7. g = [k \in 0 .. n |-> IF k = 0 THEN st ELSE ResolvePart(g[k - 1], p[k])]
  <2>1. \A k \in 0 .. n : k = 0 \/ k \in 1 .. n
    OBVIOUS
  <2>2. \A k \in 0 .. n : g[k] = IF k = 0 THEN st ELSE ResolvePart(g[k - 1], p[k])
    BY <1>6, <2>1
  <2> QED
    BY <1>6, <2>2
<1> DEFINE after[k \in 0 .. Len(p) - 1] ==
             IF k = 0 THEN Start ELSE ResolvePart(after[k - 1], p[k])
<1>8. Resolve(p) = after[Len(p) - 1]
  BY DEF Resolve
<1>9. after = [k \in 0 .. n |-> IF k = 0 THEN st ELSE ResolvePart(after[k - 1], p[k])]
  BY <1>7
<1> HIDE DEF after
<1>10. after[0] = st /\ \A k \in 1 .. n : after[k] = ResolvePart(after[k - 1], p[k])
  <2>1. 0 \in 0 .. n /\ \A k \in 1 .. n : k \in 0 .. n /\ k # 0
    OBVIOUS
  <2> QED
    BY <1>9, <2>1
<1>11. \A k \in 0 .. n : Sound(after[k])
  <2> DEFINE T == {k \in 0 .. n : Sound(after[k])}
  <2>1. 0 \in T
    BY <1>10
  <2>2. ASSUME NEW k \in 0 .. n - 1, k \in T PROVE k + 1 \in T
    <3>1. k + 1 \in 1 .. n /\ k + 1 - 1 = k /\ Sound(after[k])
      BY <2>2
    <3>2. after[k + 1] = ResolvePart(after[k], p[k + 1]) /\ p[k + 1] \in Typed \cup {".", ".."}
      BY <1>2, <1>10, <3>1
    <3> QED
      BY <3>1, <3>2, ResolvePartDoes
  <2>3. 0 .. n \subseteq T
    <3> HIDE DEF T
    <3> QED
      BY <2>1, <2>2, Rise
  <2> QED
    BY <2>3
<1>12. Resolve(p) = after[n]
  BY <1>8
<1> QED
  BY <1>10, <1>11, <1>12 DEF Resolves

\* The states of navigate_path().
Navigates(p, n, f) ==
  /\ f[0] = Start
  /\ \A k \in 1 .. n : f[k] = NavigatePart(f[k - 1], p[k])
  /\ \A k \in 0 .. n : Sound(f[k])
  /\ Navigate(p) = f[n]

LEMMA NavigateValue ==
  ASSUME NEW st, Sound(st), st = Start, NEW p \in PathsOf(CdParts), NEW n \in Nat, n = Len(p)
  PROVE  \E f : Navigates(p, n, f)
<1> DEFINE V == {s \in States : Sound(s)}
<1>1. \A s : s \in V <=> Sound(s)
  BY DEF Sound
<1>2. \A k \in 1 .. n : p[k] \in Typed \cup {".", ".."}
  BY PathTyped, Constants
<1>3. PICK step : step = [k \in 1 .. n |-> [s \in V |-> NavigatePart(s, p[k])]]
  OBVIOUS
<1> HIDE DEF V
<1>4. \A k \in 1 .. n : \A s \in V : step[k][s] = NavigatePart(s, p[k]) /\ step[k][s] \in V
  BY <1>1, <1>2, <1>3, NavigatePartDoes
<1>5. PICK g : Turns(n, V, st, step, g)
  BY <1>1, <1>4, Loop
<1>6. /\ g[0] = st /\ g = [k \in 0 .. n |-> g[k]]
      /\ \A k \in 1 .. n : g[k] = NavigatePart(g[k - 1], p[k])
  <2>1. \A k \in 1 .. n : k - 1 \in 0 .. n
    OBVIOUS
  <2> QED
    BY <1>4, <1>5, <2>1 DEF Turns
<1>7. g = [k \in 0 .. n |-> IF k = 0 THEN st ELSE NavigatePart(g[k - 1], p[k])]
  <2>1. \A k \in 0 .. n : k = 0 \/ k \in 1 .. n
    OBVIOUS
  <2>2. \A k \in 0 .. n : g[k] = IF k = 0 THEN st ELSE NavigatePart(g[k - 1], p[k])
    BY <1>6, <2>1
  <2> QED
    BY <1>6, <2>2
<1> DEFINE after[k \in 0 .. Len(p)] ==
             IF k = 0 THEN Start ELSE NavigatePart(after[k - 1], p[k])
<1>8. Navigate(p) = after[Len(p)]
  BY DEF Navigate
<1>9. after = [k \in 0 .. n |-> IF k = 0 THEN st ELSE NavigatePart(after[k - 1], p[k])]
  BY <1>7
<1> HIDE DEF after
<1>10. after[0] = st /\ \A k \in 1 .. n : after[k] = NavigatePart(after[k - 1], p[k])
  <2>1. 0 \in 0 .. n /\ \A k \in 1 .. n : k \in 0 .. n /\ k # 0
    OBVIOUS
  <2> QED
    BY <1>9, <2>1
<1>11. \A k \in 0 .. n : Sound(after[k])
  <2> DEFINE T == {k \in 0 .. n : Sound(after[k])}
  <2>1. 0 \in T
    BY <1>10
  <2>2. ASSUME NEW k \in 0 .. n - 1, k \in T PROVE k + 1 \in T
    <3>1. k + 1 \in 1 .. n /\ k + 1 - 1 = k /\ Sound(after[k])
      BY <2>2
    <3>2. after[k + 1] = NavigatePart(after[k], p[k + 1]) /\ p[k + 1] \in Typed \cup {".", ".."}
      BY <1>2, <1>10, <3>1
    <3> QED
      BY <3>1, <3>2, NavigatePartDoes
  <2>3. 0 .. n \subseteq T
    <3> HIDE DEF T
    <3> QED
      BY <2>1, <2>2, Rise
  <2> QED
    BY <2>3
<1>12. Navigate(p) = after[n]
  BY <1>8
<1> QED
  BY <1>10, <1>11, <1>12 DEF Navigates

-----------------------------------------------------------------------------
(***************************************************************************)
(* The commands.                                                           *)
(***************************************************************************)

IInv == Sound(Start)

\* The shell as the start of a walk.
LEMMA StartIs ==
  ASSUME IInv
  PROVE  /\ kind \in [Inodes -> Kinds] /\ kids \in Tables /\ cur \in Inodes
         /\ prompt \in Seq(Typed) /\ prompt \in Seq(Names) /\ Tree(kind, kids) /\ kind[cur] = "dir"
         /\ Start.kind = kind /\ Start.kids = kids /\ Start.cur = cur
         /\ Start.prompt = prompt /\ Start.depth = 0 /\ Start.ok = TRUE
         /\ Shown(Start) <=> PromptTrue
         /\ Away(Start, cur, prompt)
<1>1. /\ Start.kind = kind /\ Start.kids = kids /\ Start.cur = cur
      /\ Start.prompt = prompt /\ Start.depth = 0 /\ Start.ok = TRUE
  BY DEF Start
<1>2. /\ kind \in [Inodes -> Kinds] /\ kids \in Tables /\ cur \in Inodes
      /\ prompt \in Seq(Typed) /\ prompt \in Seq(Names) /\ Tree(kind, kids) /\ kind[cur] = "dir"
  BY <1>1, SoundTypes DEF IInv
<1>3. Shown(Start) <=> PromptTrue
  BY <1>1, <1>2, Constants DEF Shown, Way, PromptTrue
<1>4. Leads(kids, cur, << >>) = cur
  BY <1>2, LeadsStep, Constants DEF Ino
<1>5. Way(Start, cur, << >>) /\ prompt = prompt \o << >> /\ Len(<< >>) = Steps(Start)
  BY <1>1, <1>2, <1>4, ConcatEmptySeq DEF Way, Steps
<1>6. Away(Start, cur, prompt)
  BY <1>1, <1>2, <1>5 DEF Away
<1> QED
  BY <1>1, <1>2, <1>3, <1>6

LEMMA BecomesSound ==
  ASSUME NEW t, Sound(t), Becomes(t)
  PROVE  /\ IInv'
         /\ kind' = t.kind /\ kids' = t.kids /\ cur' = t.cur /\ prompt' = t.prompt
         /\ Shown(t) => PromptTrue'
<1>1. kind' = t.kind /\ kids' = t.kids /\ cur' = t.cur /\ prompt' = t.prompt
  BY DEF Becomes
<1>2. PICK s : s = [kind |-> t.kind, kids |-> t.kids, cur |-> t.cur, prompt |-> t.prompt,
                    depth |-> 0, ok |-> TRUE]
  OBVIOUS
<1>3. Sound(s)
  <2>1. /\ s.kind = t.kind /\ s.kids = t.kids /\ s.cur = t.cur /\ s \in States
    BY <1>2, SoundTypes DEF States
  <2> QED
    BY <2>1, SoundTypes DEF Sound
<1>4. Start' = s
  BY <1>1, <1>2 DEF Start
<1>5. IInv'
  BY <1>3, <1>4 DEF IInv
<1>6. Shown(t) => PromptTrue'
  BY <1>1 DEF Shown, Way, PromptTrue
<1> QED
  BY <1>1, <1>5, <1>6

\* Where resolve_path() leads.
LEMMA Resolved ==
  ASSUME IInv, NEW p \in PathsOf(Parts), NEW st, st = Resolve(p)
  PROVE  /\ Sound(st)
         /\ ~MkdirFails /\ Room(p) =>
              /\ Free(st) # {}
              /\ Unnamed \notin Typed =>
                   /\ PromptTrue => Shown(st)
                   /\ ".." \notin Parts => Away(st, cur, prompt)
<1>1. PICK n \in Nat : n = Len(p) - 1 /\ n + 1 = Len(p)
  BY PathTyped
<1>2. \A k \in 1 .. n : p[k] \in Typed \cup {".", ".."} /\ p[k] \in Parts
  BY <1>1, PathTyped, Constants
<1>3. PICK s : s = Start /\ Sound(s)
  BY DEF IInv
<1>4. PICK f : Resolves(p, n, f)
  BY <1>1, <1>3, ResolveValue
<1>5. Sound(st) /\ st = f[n]
  BY <1>1, <1>4 DEF Resolves
<1>6. ASSUME ~MkdirFails, Room(p)
      PROVE  /\ Free(st) # {}
             /\ Unnamed \notin Typed =>
                  /\ PromptTrue => Shown(st)
                  /\ ".." \notin Parts => Away(st, cur, prompt)
  <2>1. Cardinality(Free(s)) >= n + 1
    BY <1>1, <1>3, <1>6 DEF Room
  <2> DEFINE T == {k \in 0 .. n : /\ Cardinality(Free(f[k])) + k >= n + 1
                                  /\ Unnamed \notin Typed =>
                                       /\ PromptTrue => Shown(f[k])
                                       /\ ".." \notin Parts => Away(f[k], cur, prompt)}
  <2>2. 0 \in T
    BY <1>3, <1>4, <2>1, StartIs, FreeCounts DEF Resolves
  <2>3. ASSUME NEW k \in 0 .. n - 1, k \in T PROVE k + 1 \in T
    <3>1. PICK a : a = f[k] /\ Sound(a)
      BY <1>4 DEF Resolves
    <3>2. k + 1 \in 1 .. n /\ k + 1 - 1 = k
      BY <1>1
    <3>3. PICK b : b = f[k + 1] /\ b = ResolvePart(a, p[k + 1])
      BY <1>4, <3>1, <3>2 DEF Resolves
    <3>4. /\ Cardinality(Free(a)) + k >= n + 1
          /\ Unnamed \notin Typed =>
               /\ PromptTrue => Shown(a)
               /\ ".." \notin Parts => Away(a, cur, prompt)
      BY <2>3, <3>1
    <3>5. Cardinality(Free(a)) \in Nat /\ Cardinality(Free(b)) \in Nat /\ Free(a) # {}
      BY <3>2, <3>4, FreeCounts
    <3>6. /\ Cardinality(Free(b)) + 1 >= Cardinality(Free(a))
          /\ Unnamed \notin Typed =>
               /\ Shown(a) => Shown(b)
               /\ p[k + 1] # ".." /\ Away(a, cur, prompt) => Away(b, cur, prompt)
      BY <1>2, <3>1, <3>2, <3>3, <3>5, ResolvePartDoes
    <3>7. Cardinality(Free(b)) + (k + 1) >= n + 1
      BY <3>2, <3>4, <3>5, <3>6
    <3>8. ".." \notin Parts => p[k + 1] # ".."
      BY <1>2, <3>2
    <3>9. /\ Cardinality(Free(f[k + 1])) + (k + 1) >= n + 1
          /\ Unnamed \notin Typed =>
               /\ PromptTrue => Shown(f[k + 1])
               /\ ".." \notin Parts => Away(f[k + 1], cur, prompt)
      BY <3>3, <3>4, <3>6, <3>7, <3>8
    <3>10. k + 1 \in 0 .. n
      BY <3>2
    <3> QED
      BY <3>9, <3>10
  <2>4. n \in T
    <3> HIDE DEF T
    <3>1. 0 .. n \subseteq T
      BY <2>2, <2>3, Rise
    <3> QED
      BY <3>1
  <2>5. Cardinality(Free(st)) + n >= n + 1 /\ Cardinality(Free(st)) \in Nat
    BY <1>5, <2>4, FreeCounts
  <2>6. Free(st) # {}
    BY <2>5, FreeCounts
  <2> QED
    BY <1>5, <2>4, <2>6
<1> QED
  BY <1>5, <1>6

\* What a command does where its path leads takes nothing from the way back.
Works(st, u) ==
  /\ Sound(u) /\ SameWalk(st, u) /\ u.cur = st.cur
  /\ \A d, q : Way(st, d, q) => Way(u, d, q)

LEMMA CommandWorks ==
  ASSUME IInv, PathCommand
  PROVE  \E p \in PathsOf(Parts) : \E u :
           Room(p) /\ Works(Resolve(p), u) /\ Becomes(Unwind(u, Depth(Resolve(p))))
<1>1. PICK p \in PathsOf(Parts) : Mkdir(p) \/ Creat(p) \/ Read(p) \/ Rm(p)
  BY DEF PathCommand
<1>2. PICK st : st = Resolve(p)
  OBVIOUS
<1>3. Sound(st)
  BY <1>2, Resolved
<1>4. Last(st, p) \in Names \cup {".", ".."}
  BY PathTyped, Constants DEF Last
<1>5. ASSUME NEW k \in {"file", "dir"} PROVE Works(st, Make(st, Last(st, p), k))
  BY <1>3, <1>4, MadeOne DEF Works
<1>6. CASE Mkdir(p)
  BY <1>2, <1>5, <1>6 DEF Mkdir
<1>7. CASE Creat(p)
  BY <1>2, <1>5, <1>7 DEF Creat
<1>8. CASE Read(p)
  <2>1. Works(st, st)
    BY <1>3 DEF Works, SameWalk
  <2> QED
    BY <1>2, <1>8, <2>1 DEF Read
<1>9. CASE Rm(p)
  <2>1. PICK n : n = Last(st, p)
    OBVIOUS
  <2>2. /\ Room(p) /\ n \in Names
        /\ Kid(st, n) # NoIno => \A m \in Names : st.kids[Kid(st, n)][m] = NoIno
        /\ Becomes(Unwind(Erased(st, n), Depth(st)))
    BY <1>2, <1>9, <2>1 DEF Rm
  <2>3. Works(st, Erased(st, n))
    BY <1>3, <2>2, ErasedDoes DEF Works
  <2> QED
    BY <1>2, <2>2, <2>3
<1> QED
  BY <1>1, <1>6, <1>7, <1>8, <1>9

\* A command that works on a path, without hypothesis and with inodes left.
LEMMA CommandDoes ==
  ASSUME IInv, PathCommand
  PROVE  /\ IInv'
         /\ ~MkdirFails /\ Unnamed \notin Typed =>
              /\ PromptTrue => PromptTrue'
              /\ ".." \notin Parts => cur' = cur /\ prompt' = prompt
<1>0. PICK p \in PathsOf(Parts) : \E v :
             Room(p) /\ Works(Resolve(p), v) /\ Becomes(Unwind(v, Depth(Resolve(p))))
  BY CommandWorks
<1>1. PICK u : Room(p) /\ Works(Resolve(p), u) /\ Becomes(Unwind(u, Depth(Resolve(p))))
  BY <1>0
<1>2. PICK st : st = Resolve(p)
  OBVIOUS
<1>3. PICK t : t = Unwind(u, Depth(st))
  OBVIOUS
<1>4. Sound(st) /\ Works(st, u) /\ Becomes(t) /\ Sound(u)
  BY <1>1, <1>2, <1>3, Resolved DEF Works
<1>5. Depth(st) \in Int /\ Depth(st) = IF st.ok THEN st.depth ELSE -1
  BY <1>4, SoundTypes DEF Depth
<1>6. Sound(t) /\ (Shown(u) => Shown(t))
  BY <1>3, <1>4, <1>5, UnwindDoes DEF Shown
<1>7. IInv' /\ cur' = t.cur /\ prompt' = t.prompt /\ (Shown(t) => PromptTrue')
  BY <1>4, <1>6, BecomesSound
<1>8. ASSUME ~MkdirFails, Unnamed \notin Typed, PromptTrue PROVE PromptTrue'
  <2>1. Shown(st)
    BY <1>1, <1>2, <1>8, Resolved
  <2>2. Shown(u)
    BY <1>4, <2>1 DEF Works, Shown, SameWalk
  <2> QED
    BY <1>6, <1>7, <2>2
<1>9. ASSUME ~MkdirFails, Unnamed \notin Typed, ".." \notin Parts
      PROVE  cur' = cur /\ prompt' = prompt
  <2>1. Away(st, cur, prompt)
    BY <1>1, <1>2, <1>9, Resolved
  <2>2. Away(u, cur, prompt)
    BY <1>4, <2>1 DEF Works, Away, Steps, SameWalk
  <2>3. Unwind(u, Steps(u)) = t
    <3>1. CASE st.ok
      <4>1. Depth(st) = Steps(u)
        BY <1>4, <1>5, <3>1 DEF Works, Steps, SameWalk
      <4> QED
        BY <1>3, <4>1
    <3>2. CASE ~st.ok
      <4>1. Steps(u) = 0 /\ Depth(st) = -1
        BY <1>4, <1>5, <3>2 DEF Works, Steps, SameWalk
      <4>2. ~(0 > 0) /\ ~(-1 > 0)
        OBVIOUS
      <4>3. Unwind(u, 0) = u /\ Unwind(u, -1) = u
        BY <4>2 DEF Unwind
      <4> QED
        BY <1>3, <4>1, <4>3
    <3> QED
      BY <3>1, <3>2
  <2>4. t.cur = cur /\ t.prompt = prompt
    BY <1>4, <2>2, <2>3, BackAgain
  <2> QED
    BY <1>7, <2>4
<1> QED
  BY <1>7, <1>8, <1>9

LEMMA CdDoes ==
  ASSUME IInv, NEW p \in PathsOf(CdParts), Cd(p)
  PROVE  IInv' /\ (Unnamed \notin Typed /\ PromptTrue => PromptTrue')
<1>1. PICK n \in Nat : n = Len(p)
  BY PathTyped
<1>2. \A k \in 1 .. n : p[k] \in Typed \cup {".", ".."}
  BY <1>1, PathTyped, Constants
<1>3. PICK s : s = Start /\ Sound(s)
  BY DEF IInv
<1>4. PICK f : Navigates(p, n, f)
  BY <1>1, <1>3, NavigateValue
<1>5. PICK t : t = f[n] /\ Sound(t) /\ Becomes(t)
  BY <1>1, <1>4 DEF Navigates, Cd
<1>6. ASSUME Unnamed \notin Typed, PromptTrue PROVE Shown(t)
  <2> DEFINE T == {k \in 0 .. n : Shown(f[k])}
  <2>1. 0 \in T
    BY <1>4, <1>6, StartIs DEF Navigates
  <2>2. ASSUME NEW k \in 0 .. n - 1, k \in T PROVE k + 1 \in T
    <3>1. k + 1 \in 1 .. n /\ k + 1 - 1 = k /\ k + 1 \in 0 .. n
      BY <1>1
    <3>2. f[k + 1] = NavigatePart(f[k], p[k + 1]) /\ Sound(f[k]) /\ Shown(f[k])
      BY <1>4, <2>2, <3>1 DEF Navigates
    <3>3. Shown(f[k + 1])
      BY <1>2, <1>6, <3>1, <3>2, NavigatePartDoes
    <3> QED
      BY <3>1, <3>3
  <2>3. 0 .. n \subseteq T
    <3> HIDE DEF T
    <3> QED
      BY <2>1, <2>2, Rise
  <2> QED
    BY <1>5, <2>3
<1> QED
  BY <1>5, <1>6, BecomesSound

\* The shell in a directory it may be in.
LEMMA InThere ==
  ASSUME IInv, NEW d \in Dirs
  PROVE  Sound(In(d)) /\ In(d).cur = d /\ In(d).kids = kids /\ In(d).kind = kind
<1>1. In(d) = [Start EXCEPT !.cur = d]
  BY DEF In
<1>2. Start \in States /\ Start.kids = kids /\ Start.kind = kind /\ Tree(kind, kids)
  BY StartIs DEF IInv, Sound
<1>3. d \in Inodes /\ kind[d] = "dir"
  BY DEF Dirs
<1>4. In(d) \in States /\ In(d).cur = d /\ In(d).kids = kids /\ In(d).kind = kind
  BY <1>1, <1>2, <1>3 DEF States
<1> QED
  BY <1>2, <1>3, <1>4 DEF Sound

\* Kid() reads no more of a walk than this.
KidOf(ks, c, n) ==
  IF n = "." THEN c
  ELSE IF n # ".." THEN ks[c][n]
  ELSE IF c = Root THEN Root
  ELSE CHOOSE d \in Inodes : \E m \in Names : ks[d][m] = c

\* On the tree as it is, a component leads where Subdir says.
LEMMA SubdirIs ==
  ASSUME IInv, NEW st, Sound(st), st.kind = kind, st.kids = kids,
         NEW n \in Names \cup {".", ".."}
  PROVE  /\ st.cur \in Dirs /\ Subdir(st.cur, n) \in Dirs \cup {NoIno}
         /\ Subdir(st.cur, n) = IF Kid(st, n) # NoIno /\ st.kind[Kid(st, n)] = "dir"
                                THEN Kid(st, n) ELSE NoIno
<1>1. PICK d : d = st.cur
  OBVIOUS
<1>2. d \in Dirs
  BY <1>1, SoundTypes DEF Dirs
<1>3. Kid(st, n) = KidOf(st.kids, st.cur, n) /\ Kid(In(d), n) = KidOf(In(d).kids, In(d).cur, n)
  BY DEF Kid, KidOf
<1>4. Kid(In(d), n) = Kid(st, n)
  BY <1>1, <1>2, <1>3, InThere
<1>5. Kid(st, n) \in Inodes \cup {NoIno}
  BY KidFound
<1>6. Subdir(d, n) = IF Kid(In(d), n) # NoIno /\ kind[Kid(In(d), n)] = "dir"
                     THEN Kid(In(d), n) ELSE NoIno
  BY DEF Subdir, In
<1> QED
  BY <1>1, <1>2, <1>4, <1>5, <1>6 DEF Dirs

\* The directories along the path of a cd.
Visits(p, n, g) ==
  /\ g \in [0 .. n -> Dirs \cup {NoIno}] /\ g[0] = cur
  /\ \A k \in 1 .. n : g[k] = IF g[k - 1] = NoIno THEN NoIno ELSE Subdir(g[k - 1], p[k])
  /\ Destination(p) = g[n]

LEMMA DestinationValue ==
  ASSUME IInv, NEW p \in PathsOf(CdParts), NEW n \in Nat, n = Len(p)
  PROVE  \E g : Visits(p, n, g)
<1> DEFINE V == Dirs \cup {NoIno}
<1>1. \A k \in 1 .. n : p[k] \in Names \cup {".", ".."}
  BY PathTyped, Constants
<1>2. cur \in V
  BY StartIs DEF Dirs
<1>3. ASSUME NEW d \in Dirs, NEW m \in Names \cup {".", ".."}
      PROVE  Subdir(d, m) \in V /\ d # NoIno
  <2>1. PICK st : st = In(d)
    OBVIOUS
  <2>2. Sound(st) /\ st.cur = d /\ st.kids = kids /\ st.kind = kind
    BY <2>1, InThere
  <2> QED
    BY <2>2, SubdirIs, Constants DEF Dirs
<1>4. PICK step : step = [k \in 1 .. n |->
                            [s \in V |-> IF s = NoIno THEN NoIno ELSE Subdir(s, p[k])]]
  OBVIOUS
<1>5. \A k \in 1 .. n : \A s \in V :
        /\ step[k][s] = IF s = NoIno THEN NoIno ELSE Subdir(s, p[k])
        /\ step[k][s] \in V
  BY <1>1, <1>3, <1>4
<1> HIDE DEF V
<1>6. PICK g : Turns(n, V, cur, step, g)
  BY <1>2, <1>5, Loop
<1>7. /\ g \in [0 .. n -> V] /\ g[0] = cur
      /\ \A k \in 1 .. n : g[k] = IF g[k - 1] = NoIno THEN NoIno ELSE Subdir(g[k - 1], p[k])
  <2>1. \A k \in 1 .. n : k - 1 \in 0 .. n
    OBVIOUS
  <2> QED
    BY <1>5, <1>6, <2>1 DEF Turns
<1>8. g = [k \in 0 .. n |-> IF k = 0 THEN cur
                            ELSE IF g[k - 1] = NoIno THEN NoIno ELSE Subdir(g[k - 1], p[k])]
  <2>1. \A k \in 0 .. n : k = 0 \/ k \in 1 .. n
    OBVIOUS
  <2>2. \A k \in 0 .. n :
          g[k] = IF k = 0 THEN cur
                 ELSE IF g[k - 1] = NoIno THEN NoIno ELSE Subdir(g[k - 1], p[k])
    BY <1>7, <2>1
  <2>3. g = [k \in 0 .. n |-> g[k]]
    BY <1>7
  <2> QED
    BY <2>2, <2>3
<1> DEFINE at[k \in 0 .. Len(p)] ==
             IF k = 0 THEN cur
             ELSE IF at[k - 1] = NoIno THEN NoIno ELSE Subdir(at[k - 1], p[k])
<1>9. Destination(p) = at[Len(p)]
  BY DEF Destination
<1>10. at = [k \in 0 .. n |-> IF k = 0 THEN cur
                              ELSE IF at[k - 1] = NoIno THEN NoIno ELSE Subdir(at[k - 1], p[k])]
  BY <1>8
<1> HIDE DEF at
<1> DEFINE T == {k \in 0 .. n : at[k] = g[k]}
<1>11. 0 \in T
  <2>1. 0 \in 0 .. n
    OBVIOUS
  <2> QED
    BY <1>7, <1>10, <2>1
<1>12. ASSUME NEW k \in 0 .. n - 1, k \in T PROVE k + 1 \in T
  <2>1. k + 1 \in 1 .. n /\ k + 1 \in 0 .. n /\ k + 1 # 0 /\ k + 1 - 1 = k /\ at[k] = g[k]
    BY <1>12
  <2>2. at[k + 1] = IF at[k] = NoIno THEN NoIno ELSE Subdir(at[k], p[k + 1])
    <3>1. PICK m \in 0 .. n : m = k + 1 /\ m - 1 = k /\ m # 0
      BY <2>1
    <3>2. at[m] = IF at[m - 1] = NoIno THEN NoIno ELSE Subdir(at[m - 1], p[m])
      BY <1>10, <3>1
    <3> QED
      BY <3>1, <3>2
  <2>3. g[k + 1] = IF g[k] = NoIno THEN NoIno ELSE Subdir(g[k], p[k + 1])
    BY <1>7, <2>1
  <2> QED
    BY <2>1, <2>2, <2>3
<1>13. n \in T
  <2> HIDE DEF T
  <2>1. 0 .. n \subseteq T
    BY <1>11, <1>12, Rise
  <2> QED
    BY <2>1
<1> QED
  BY <1>7, <1>9, <1>13 DEF Visits, V

\* The members of A among the first numbers, counted one by one.
LEMMA CountStep ==
  ASSUME NEW A, NEW k \in Nat
  PROVE  /\ Cardinality((1 .. 0) \cap A) = 0
         /\ Cardinality((1 .. k) \cap A) \in Nat
         /\ Cardinality((1 .. k + 1) \cap A) =
              Cardinality((1 .. k) \cap A) + (IF k + 1 \in A THEN 1 ELSE 0)
<1>1. PICK S : S = (1 .. k) \cap A
  OBVIOUS
<1>2. IsFiniteSet(S) /\ Cardinality(S) \in Nat
  <2>1. IsFiniteSet(1 .. k) /\ S \subseteq 1 .. k
    BY <1>1, FS_Interval
  <2> QED
    BY <2>1, FS_Subset, FS_CardinalityType
<1>3. (1 .. 0) \cap A = {}
  OBVIOUS
<1>4. CASE k + 1 \in A
  <2>1. (1 .. k + 1) \cap A = S \cup {k + 1} /\ k + 1 \notin S
    BY <1>1, <1>4
  <2> QED
    BY <1>1, <1>2, <1>3, <1>4, <2>1, FS_AddElement, FS_EmptySet
<1>5. CASE k + 1 \notin A
  <2>1. (1 .. k + 1) \cap A = S
    BY <1>1, <1>5
  <2> QED
    BY <1>1, <1>2, <1>3, <1>5, <2>1, FS_EmptySet
<1> QED
  BY <1>4, <1>5

LEMMA Counts ==
  ASSUME NEW p, NEW k \in Nat
  PROVE  /\ Ups(p, 0) = 0 /\ Downs(p, 0) = 0 /\ Ups(p, k) \in Nat /\ Downs(p, k) \in Nat
         /\ Ups(p, k + 1) = Ups(p, k) + (IF p[k + 1] = ".." THEN 1 ELSE 0)
         /\ Downs(p, k + 1) = Downs(p, k) + (IF p[k + 1] \notin {".", ".."} THEN 1 ELSE 0)
<1>1. PICK U, D : /\ U = {j \in Nat : p[j] = ".."}
                  /\ D = {j \in Nat : p[j] \notin {".", ".."}}
  OBVIOUS
<1>2. ASSUME NEW m \in Nat
      PROVE  /\ Ups(p, m) = Cardinality((1 .. m) \cap U)
             /\ Downs(p, m) = Cardinality((1 .. m) \cap D)
  <2>1. {j \in 1 .. m : p[j] = ".."} = (1 .. m) \cap U
    BY <1>1
  <2>2. {j \in 1 .. m : p[j] \notin {".", ".."}} = (1 .. m) \cap D
    BY <1>1
  <2> QED
    BY <2>1, <2>2 DEF Ups, Downs
<1>3. k + 1 \in Nat /\ 0 \in Nat
  OBVIOUS
<1>4. (k + 1 \in U <=> p[k + 1] = "..") /\ (k + 1 \in D <=> p[k + 1] \notin {".", ".."})
  BY <1>1, <1>3
<1>5. /\ Cardinality((1 .. 0) \cap U) = 0 /\ Cardinality((1 .. k) \cap U) \in Nat
      /\ Cardinality((1 .. k + 1) \cap U) =
           Cardinality((1 .. k) \cap U) + (IF k + 1 \in U THEN 1 ELSE 0)
  BY CountStep
<1>6. /\ Cardinality((1 .. 0) \cap D) = 0 /\ Cardinality((1 .. k) \cap D) \in Nat
      /\ Cardinality((1 .. k + 1) \cap D) =
           Cardinality((1 .. k) \cap D) + (IF k + 1 \in D THEN 1 ELSE 0)
  BY CountStep
<1> QED
  BY <1>2, <1>3, <1>4, <1>5, <1>6

\* navigate_path() goes on as long as its path leads somewhere, and is there.
LEMMA NavigateGoes ==
  ASSUME IInv, NEW p \in PathsOf(CdParts), NEW n \in Nat, n = Len(p),
         NEW f, Navigates(p, n, f), NEW g, Visits(p, n, g), NEW k \in 0 .. n
  PROVE  /\ f[k].kind = kind /\ f[k].kids = kids
         /\ f[k].ok <=> g[k] # NoIno
         /\ f[k].ok => f[k].cur = g[k]
<1>1. \A j \in 1 .. n : p[j] \in Typed \cup {".", ".."}
  BY PathTyped, Constants
<1> DEFINE T == {j \in 0 .. n : /\ f[j].kind = kind /\ f[j].kids = kids
                                /\ f[j].ok <=> g[j] # NoIno
                                /\ f[j].ok => f[j].cur = g[j]}
<1>2. 0 \in T
  <2>1. f[0] = Start /\ g[0] = cur
    BY DEF Navigates, Visits
  <2>2. /\ Start.kind = kind /\ Start.kids = kids /\ Start.cur = cur /\ Start.ok
        /\ cur # NoIno
    BY StartIs, Constants
  <2> QED
    BY <2>1, <2>2
<1>3. ASSUME NEW j \in 0 .. n - 1, j \in T PROVE j + 1 \in T
  <2>1. j + 1 \in 1 .. n /\ j + 1 - 1 = j /\ j + 1 \in 0 .. n /\ j \in 0 .. n
    OBVIOUS
  <2>2. PICK a, b, e : a = f[j] /\ b = f[j + 1] /\ e = p[j + 1]
    OBVIOUS
  <2>3. /\ b = NavigatePart(a, e) /\ Sound(a) /\ e \in Typed \cup {".", ".."}
        /\ e \in Names \cup {".", ".."}
    BY <1>1, <2>1, <2>2, Constants DEF Navigates
  <2>4. a.kind = kind /\ a.kids = kids /\ (a.ok <=> g[j] # NoIno) /\ (a.ok => a.cur = g[j])
    BY <1>3, <2>2
  <2>5. g[j + 1] = IF g[j] = NoIno THEN NoIno ELSE Subdir(g[j], e)
    BY <2>1, <2>2 DEF Visits
  <2>6. /\ b.kind = kind /\ b.kids = kids
        /\ b.ok <=> a.ok /\ Kid(a, e) # NoIno /\ a.kind[Kid(a, e)] = "dir"
        /\ b.ok => b.cur = Kid(a, e)
    BY <2>3, <2>4, NavigatePartDoes DEF SameTree
  <2>7. Subdir(a.cur, e) = IF Kid(a, e) # NoIno /\ a.kind[Kid(a, e)] = "dir"
                           THEN Kid(a, e) ELSE NoIno
    BY <2>3, <2>4, SubdirIs
  <2>8. (b.ok <=> g[j + 1] # NoIno) /\ (b.ok => b.cur = g[j + 1])
    BY <2>4, <2>5, <2>6, <2>7
  <2> QED
    BY <2>1, <2>2, <2>6, <2>8
<1>4. k \in T
  <2> HIDE DEF T
  <2>1. 0 .. n \subseteq T
    BY <1>2, <1>3, Rise
  <2> QED
    BY <2>1
<1> QED
  BY <1>4

\* Without going above where it began, the walk knows the way back: it is as far away as
\* its path has gone down and not up again.
LEMMA NavigateAway ==
  ASSUME IInv, Unnamed \notin Typed, NEW p \in PathsOf(CdParts), ~Climbs(p),
         NEW n \in Nat, n = Len(p), NEW f, Navigates(p, n, f), NEW k \in 0 .. n
  PROVE  Away(f[k], cur, prompt)
<1>1. \A j \in 1 .. n : p[j] \in Typed \cup {".", ".."}
  BY PathTyped, Constants
<1>2. \A j \in 1 .. n : ~(Downs(p, j) < Ups(p, j))
  <2>1. DOMAIN p = 1 .. n
    BY PathTyped
  <2> QED
    BY <2>1 DEF Climbs
<1> DEFINE T == {j \in 0 .. n : /\ Away(f[j], cur, prompt)
                                /\ f[j].ok => f[j].depth = Downs(p, j) - Ups(p, j)}
<1>3. 0 \in T
  <2>1. f[0] = Start /\ Downs(p, 0) = 0 /\ Ups(p, 0) = 0
    BY Counts DEF Navigates
  <2> QED
    BY <2>1, StartIs
<1>4. ASSUME NEW j \in 0 .. n - 1, j \in T PROVE j + 1 \in T
  <2>1. j + 1 \in 1 .. n /\ j + 1 - 1 = j /\ j + 1 \in 0 .. n /\ j \in 0 .. n /\ j \in Nat
    OBVIOUS
  <2>2. PICK a, b, e : a = f[j] /\ b = f[j + 1] /\ e = p[j + 1]
    OBVIOUS
  <2>3. b = NavigatePart(a, e) /\ Sound(a) /\ e \in Typed \cup {".", ".."}
    BY <1>1, <2>1, <2>2 DEF Navigates
  <2>4. Away(a, cur, prompt) /\ (a.ok => a.depth = Downs(p, j) - Ups(p, j))
    BY <1>4, <2>2
  <2>5. PICK u, d, v, w : /\ u = Ups(p, j) /\ d = Downs(p, j)
                          /\ v = Ups(p, j + 1) /\ w = Downs(p, j + 1)
    OBVIOUS
  <2>6. /\ u \in Nat /\ d \in Nat
        /\ v = u + (IF e = ".." THEN 1 ELSE 0)
        /\ w = d + (IF e \notin {".", ".."} THEN 1 ELSE 0)
    BY <2>1, <2>2, <2>5, Counts
  <2>7. ~(w < v)
    BY <1>2, <2>1, <2>5
  <2>8. a.ok /\ e = ".." => a.depth > 0
    BY <2>4, <2>5, <2>6, <2>7
  <2>9. Away(b, cur, prompt)
    BY <2>3, <2>4, <2>8, NavigatePartDoes
  <2>10. /\ b.ok => a.ok
         /\ b.ok => /\ e = ".." /\ a.depth > 0 => b.depth = a.depth - 1
                    /\ e = "." => b.depth = a.depth
                    /\ e \in Typed => b.depth = a.depth + 1
    BY <2>3, NavigatePartDoes
  <2>11. ASSUME b.ok PROVE b.depth = w - v
    <3>1. a.ok /\ a.depth = d - u
      BY <2>4, <2>5, <2>10, <2>11
    <3>2. CASE e = ".."
      <4>1. b.depth = a.depth - 1 /\ v = u + 1 /\ w = d
        BY <2>6, <2>8, <2>10, <2>11, <3>1, <3>2
      <4> QED
        BY <2>6, <3>1, <4>1
    <3>3. CASE e = "."
      <4>1. b.depth = a.depth /\ v = u /\ w = d
        BY <2>6, <2>10, <2>11, <3>3
      <4> QED
        BY <3>1, <4>1
    <3>4. CASE e \in Typed
      <4>1. b.depth = a.depth + 1 /\ v = u /\ w = d + 1
        BY <2>6, <2>10, <2>11, <3>4 DEF Typed
      <4> QED
        BY <2>6, <3>1, <4>1
    <3> QED
      BY <2>3, <3>2, <3>3, <3>4
  <2> QED
    BY <2>1, <2>2, <2>5, <2>9, <2>11
<1>5. k \in T
  <2> HIDE DEF T
  <2>1. 0 .. n \subseteq T
    BY <1>3, <1>4, Rise
  <2> QED
    BY <2>1
<1> QED
  BY <1>5

\* So a cd goes where its path leads, or is back.
LEMMA CdGoes ==
  ASSUME IInv, Unnamed \notin Typed
  PROVE  CdFollows
<1> SUFFICES ASSUME NEW p \in PathsOf(CdParts)
             PROVE  IF Destination(p) # NoIno THEN Navigate(p).cur = Destination(p)
                    ELSE ~Climbs(p) => Stays(Navigate(p))
  BY DEF CdFollows
<1>1. PICK n \in Nat : n = Len(p)
  BY PathTyped
<1>2. PICK s : s = Start /\ Sound(s)
  BY DEF IInv
<1>3. PICK f : Navigates(p, n, f)
  BY <1>1, <1>2, NavigateValue
<1>4. PICK g : Visits(p, n, g)
  BY <1>1, DestinationValue
<1>5. PICK t : t = Navigate(p) /\ t = f[n] /\ Sound(t) /\ Destination(p) = g[n] /\ n \in 0 .. n
  BY <1>3, <1>4 DEF Navigates, Visits
<1>6. (t.ok <=> g[n] # NoIno) /\ (t.ok => t.cur = g[n])
  BY <1>1, <1>3, <1>4, <1>5, NavigateGoes
<1>7. ASSUME Destination(p) = NoIno, ~Climbs(p) PROVE Stays(t)
  <2>1. Away(t, cur, prompt)
    BY <1>1, <1>3, <1>5, <1>7, NavigateAway
  <2>2. Steps(t) = 0
    BY <1>5, <1>6, <1>7 DEF Steps
  <2>3. Unwind(t, Steps(t)) = t
    <3>1. ~(0 > 0)
      OBVIOUS
    <3> QED
      BY <2>2, <3>1 DEF Unwind
  <2>4. t.cur = cur /\ t.prompt = prompt
    BY <1>5, <2>1, <2>3, BackAgain
  <2> QED
    BY <2>4 DEF Stays
<1> QED
  BY <1>5, <1>6, <1>7

LEMMA CdHomeDoes ==
  ASSUME IInv, CdHome
  PROVE  IInv' /\ PromptTrue'
<1>1. PICK t : t = [Start EXCEPT !.cur = Root, !.prompt = << >>]
  OBVIOUS
<1>2. Sound(Start)
  BY DEF IInv
<1>3. /\ t \in States /\ SameTree(Start, t) /\ t.cur = Root /\ t.prompt = << >>
  <2>1. PICK s \in States : s = Start
    BY <1>2 DEF Sound
  <2>2. PICK e \in Seq(Typed) : e = << >>
    <3>1. << >> \in Seq(Typed)
      OBVIOUS
    <3> QED
      BY <3>1
  <2>3. t = [s EXCEPT !.cur = Root, !.prompt = e]
    BY <1>1, <2>1, <2>2
  <2>4. t \in States /\ SameTree(s, t) /\ t.cur = Root /\ t.prompt = e
    BY <2>3, Constants DEF States, SameTree
  <2> QED
    BY <2>1, <2>2, <2>4
<1>4. Sound(t)
  BY <1>2, <1>3 DEF Sound, SameTree, Tree
<1>5. Becomes(t)
  BY <1>3, StartIs DEF Becomes, CdHome, SameTree, tree
<1>6. Leads(kids, Root, << >>) = Root
  BY StartIs, LeadsStep, Constants DEF Ino
<1>7. PromptTrue'
  BY <1>6 DEF CdHome, PromptTrue, tree
<1> QED
  BY <1>4, <1>5, <1>7, BecomesSound

-----------------------------------------------------------------------------
(***************************************************************************)
(* Where creat makes its file.                                             *)
(***************************************************************************)

Pre(p, k) == SubSeq(p, 1, k)

LEMMA PreStep ==
  ASSUME NEW p \in Seq(Names)
  PROVE  /\ Pre(p, 0) = << >> /\ Pre(p, Len(p)) = p
         /\ \A k \in 0 .. Len(p) : Pre(p, k) \in Seq(Names)
         /\ \A k \in 0 .. Len(p) - 1 :
              p[k + 1] \in Names /\ Pre(p, k + 1) = Append(Pre(p, k), p[k + 1])
<1>1. PICK n \in Nat : n = Len(p)
  OBVIOUS
<1>2. Pre(p, 0) = << >>
  BY DEF Pre
<1>3. \A k \in 0 .. n : /\ Pre(p, k) \in Seq(Names) /\ Len(Pre(p, k)) = k
                        /\ \A i \in 1 .. k : Pre(p, k)[i] = p[i]
  BY <1>1 DEF Pre
<1>4. Pre(p, n) = p
  <2>1. PICK t : t = Pre(p, n)
    OBVIOUS
  <2>2. t \in Seq(Names) /\ Len(t) = n /\ \A i \in 1 .. n : t[i] = p[i]
    BY <1>1, <1>3, <2>1
  <2>3. t = p
    BY <1>1, <2>2, SeqEqual
  <2> QED
    BY <2>1, <2>3
<1>5. ASSUME NEW k \in 0 .. n - 1
      PROVE  p[k + 1] \in Names /\ Pre(p, k + 1) = Append(Pre(p, k), p[k + 1])
  <2>1. k \in 0 .. n /\ k + 1 \in 0 .. n /\ p[k + 1] \in Names
    BY <1>1
  <2>2. PICK s, t, u, e : s = Pre(p, k) /\ t = Pre(p, k + 1) /\ e = p[k + 1] /\ u = Append(s, e)
    OBVIOUS
  <2>3. /\ s \in Seq(Names) /\ Len(s) = k /\ \A i \in 1 .. k : s[i] = p[i]
        /\ t \in Seq(Names) /\ Len(t) = k + 1 /\ \A i \in 1 .. k + 1 : t[i] = p[i]
    BY <1>3, <2>1, <2>2
  <2>4. /\ u \in Seq(Names) /\ Len(u) = k + 1 /\ u[k + 1] = e /\ \A i \in 1 .. k : u[i] = s[i]
    BY <2>1, <2>2, <2>3
  <2>5. ASSUME NEW i \in 1 .. k + 1 PROVE t[i] = u[i]
    <3>1. i = k + 1 \/ i \in 1 .. k
      OBVIOUS
    <3> QED
      BY <2>2, <2>3, <2>4, <3>1
  <2>6. t = u
    BY <2>3, <2>4, <2>5, SeqEqual
  <2> QED
    BY <2>1, <2>2, <2>6
<1> QED
  BY <1>1, <1>2, <1>3, <1>4, <1>5

\* Every inode that is used otherwise than before the command is on its path.
Changed(st, p, k) ==
  \A i \in Inodes : st.kind[i] # kind[i] =>
    \E j \in 1 .. k : Leads(st.kids, cur, Pre(p, j)) = i

\* The component that is missing is made where the walk is.
LEMMA MadeOnWay ==
  ASSUME IInv, NEW st, Sound(st), Free(st) # {}, NEW p \in Seq(Names),
         NEW k \in 0 .. Len(p) - 1, Way(st, cur, Pre(p, k)), Changed(st, p, k),
         NEW n, n = p[k + 1], Kid(st, n) = NoIno,
         NEW what \in {"file", "dir"}, NEW u, u = Make(st, n, what)
  PROVE  /\ Sound(u) /\ SameWalk(st, u) /\ Way(u, cur, Pre(p, k)) /\ Changed(u, p, k + 1)
         /\ \E i \in Inodes : /\ u.kids[u.cur][n] = i /\ u.kind[i] = what
                              /\ \A m \in Names : u.kids[i][m] = NoIno
                              /\ Leads(u.kids, cur, Pre(p, k + 1)) = i
<1>1. PICK len \in Nat : len = Len(p)
  OBVIOUS
<1>2. n \in Names /\ Pre(p, k + 1) = Append(Pre(p, k), n) /\ Pre(p, k) \in Seq(Names)
  BY <1>1, PreStep
<1>3. Sound(u) /\ SameWalk(st, u) /\ u.cur = st.cur /\ Way(u, cur, Pre(p, k))
  <2>1. n \in Names \cup {".", ".."}
    BY <1>2
  <2>2. Sound(u) /\ SameWalk(st, u) /\ u.cur = st.cur
    BY <2>1, MadeOne
  <2>3. \A d, q : Way(st, d, q) => Way(u, d, q)
    BY <2>1, MadeOne
  <2> QED
    BY <2>2, <2>3
<1>4. PICK i : Adds(st, u, n, what, i)
  BY <1>2, MakeDoes
<1>5. i \in Inodes /\ i # NoIno /\ st.kind[i] = "free" /\ i # st.cur
  BY <1>4, SoundTypes, Constants DEF Adds, Free
<1>6. /\ u.kids[u.cur][n] = i /\ u.kind[i] = what
      /\ \A j \in Inodes : j # i => u.kind[j] = st.kind[j]
  BY <1>2, <1>3, <1>4, <1>5, SoundTypes DEF Adds, Tables
<1>7. \A m \in Names : u.kids[i][m] = NoIno
  <2>1. \A m \in Names : st.kids[i][m] = NoIno
    BY <1>5, SoundTypes DEF Tree
  <2>2. u.kids[i] = st.kids[i]
    BY <1>4, <1>5, SoundTypes DEF Adds, Tables
  <2> QED
    BY <2>1, <2>2
<1>8. Leads(u.kids, cur, Pre(p, k + 1)) = i
  <2>1. Leads(u.kids, cur, Pre(p, k)) = u.cur /\ cur \in Ino /\ u.kids \in Tables /\ u.cur # NoIno
    BY <1>3, SoundTypes, Constants DEF Way, Ino
  <2>2. Leads(u.kids, cur, Append(Pre(p, k), n)) = u.kids[u.cur][n]
    BY <1>2, <2>1, LeadsStep
  <2> QED
    BY <1>2, <1>6, <2>2
<1>9. ASSUME NEW x \in Inodes, u.kind[x] # kind[x]
      PROVE  \E j \in 1 .. k + 1 : Leads(u.kids, cur, Pre(p, j)) = x
  <2>1. CASE x = i
    <3>1. k + 1 \in 1 .. k + 1
      BY <1>1
    <3> QED
      BY <1>8, <2>1, <3>1
  <2>2. CASE x # i
    <3>1. PICK j \in 1 .. k : Leads(st.kids, cur, Pre(p, j)) = x
      BY <1>6, <1>9, <2>2 DEF Changed
    <3>2. j \in 1 .. k + 1 /\ j \in 0 .. len
      BY <1>1
    <3>3. Pre(p, j) \in Seq(Names) /\ cur \in Ino /\ x # NoIno
      BY <1>1, <3>2, PreStep, StartIs, Constants DEF Ino
    <3>4. Leads(u.kids, cur, Pre(p, j)) = x
      BY <1>2, <3>1, <3>3, MakeKeeps
    <3> QED
      BY <3>2, <3>4
  <2> QED
    BY <2>1, <2>2
<1>10. Changed(u, p, k + 1)
  BY <1>9 DEF Changed
<1> QED
  BY <1>3, <1>5, <1>6, <1>7, <1>8, <1>10

\* Where p leads before the command, as far as resolve_path() walks.
Was(p, k) == Leads(kids, cur, Pre(p, k))

\* The walk of creat after k components: on the tree as it was, or in a directory that
\* it has just made.
OnWay(st, p, k) ==
  /\ st.ok /\ Way(st, cur, Pre(p, k)) /\ Changed(st, p, k)
  /\ \/ Was(p, k) # NoIno /\ st.kind = kind /\ st.kids = kids
     \/ Was(p, k) = NoIno /\ \A m \in Names : st.kids[st.cur][m] = NoIno

\* What the next component leads to, before the command and on the walk.
LEMMA NextOnWay ==
  ASSUME IInv, NEW st, Sound(st), NEW p \in Seq(Names), NEW k \in 0 .. Len(p) - 1,
         OnWay(st, p, k), NEW n, n = p[k + 1]
  PROVE  /\ n \in Names /\ Kid(st, n) = st.kids[st.cur][n]
         /\ Was(p, k + 1) = Kid(st, n)
         /\ Kid(st, n) # NoIno => st.kind = kind /\ st.kids = kids
<1>1. PICK len \in Nat : len = Len(p)
  OBVIOUS
<1>2. n \in Names /\ Pre(p, k + 1) = Append(Pre(p, k), n) /\ Pre(p, k) \in Seq(Names)
  BY <1>1, PreStep
<1>3. Kid(st, n) = st.kids[st.cur][n]
  BY <1>2, KidFound
<1>4. kids \in Tables /\ cur \in Ino
  BY StartIs DEF Ino
<1>5. Was(p, k + 1) = IF Was(p, k) = NoIno THEN NoIno ELSE kids[Was(p, k)][n]
  <2>1. PICK q \in Seq(Names) : q = Pre(p, k)
    BY <1>2
  <2>2. Leads(kids, cur, Append(q, n)) =
          IF Leads(kids, cur, q) = NoIno THEN NoIno ELSE kids[Leads(kids, cur, q)][n]
    BY <1>2, <1>4, LeadsStep
  <2> QED
    BY <1>2, <2>1, <2>2 DEF Was
<1>6. CASE Was(p, k) # NoIno /\ st.kind = kind /\ st.kids = kids
  <2>1. Was(p, k) = st.cur
    BY <1>6 DEF OnWay, Way, Was
  <2> QED
    BY <1>2, <1>3, <1>5, <1>6, <2>1
<1>7. CASE Was(p, k) = NoIno /\ \A m \in Names : st.kids[st.cur][m] = NoIno
  BY <1>2, <1>3, <1>5, <1>7
<1> QED
  BY <1>6, <1>7 DEF OnWay

\* One more component that is a directory or is missing.
LEMMA OnWayStep ==
  ASSUME IInv, NEW st, Sound(st), Free(st) # {}, NEW p \in Seq(Names),
         NEW k \in 0 .. Len(p) - 1, p[k + 1] \in Typed, OnWay(st, p, k),
         Was(p, k + 1) = NoIno \/ kind[Was(p, k + 1)] = "dir",
         NEW t, t = ResolvePart(st, p[k + 1])
  PROVE  OnWay(t, p, k + 1)
<1>1. PICK len \in Nat : len = Len(p)
  OBVIOUS
<1>2. PICK n : n = p[k + 1]
  OBVIOUS
<1>3. /\ n \in Names /\ Kid(st, n) = st.kids[st.cur][n] /\ Was(p, k + 1) = Kid(st, n)
      /\ Kid(st, n) # NoIno => st.kind = kind /\ st.kids = kids
  BY <1>2, NextOnWay
<1>4. Pre(p, k + 1) = Append(Pre(p, k), n) /\ n # "." /\ n # ".."
  BY <1>1, <1>2, <1>3, PreStep, Constants
<1>5. st.ok /\ Way(st, cur, Pre(p, k)) /\ Changed(st, p, k)
  BY DEF OnWay
<1>6. CASE Kid(st, n) # NoIno
  <2>1. t = Down(st, n)
    BY <1>2, <1>3, <1>4, <1>5, <1>6 DEF ResolvePart
  <2>2. st.kids[st.cur][n] # NoIno /\ st.kind[st.kids[st.cur][n]] = "dir"
    BY <1>3, <1>6
  <2>3. SameTree(st, t) /\ t.ok = st.ok
    BY <1>2, <2>1, DownDoes
  <2>4. \A d, q : Way(st, d, q) => Way(t, d, Append(q, n))
    BY <1>2, <2>1, <2>2, DownDoes
  <2>5. Way(t, cur, Pre(p, k + 1))
    BY <1>4, <1>5, <2>4
  <2>6. t.kind = kind /\ t.kids = kids
    BY <1>3, <1>6, <2>3 DEF SameTree
  <2>7. Changed(t, p, k + 1)
    BY <2>6 DEF Changed
  <2> QED
    BY <1>3, <1>5, <1>6, <2>3, <2>5, <2>6, <2>7 DEF OnWay
<1>7. CASE Kid(st, n) = NoIno
  <2>1. PICK u : u = Make(st, n, "dir")
    OBVIOUS
  <2>2. /\ Sound(u) /\ SameWalk(st, u) /\ Way(u, cur, Pre(p, k)) /\ Changed(u, p, k + 1)
        /\ \E i \in Inodes : /\ u.kids[u.cur][n] = i /\ u.kind[i] = "dir"
                             /\ \A m \in Names : u.kids[i][m] = NoIno
                             /\ Leads(u.kids, cur, Pre(p, k + 1)) = i
    BY <1>2, <1>5, <1>7, <2>1, MadeOnWay
  <2>3. PICK i \in Inodes : /\ u.kids[u.cur][n] = i /\ u.kind[i] = "dir"
                            /\ \A m \in Names : u.kids[i][m] = NoIno
                            /\ Leads(u.kids, cur, Pre(p, k + 1)) = i
    BY <2>2
  <2>4. t = Down(u, n)
    BY <1>2, <1>4, <1>5, <1>7, <2>1 DEF ResolvePart
  <2>5. u.kids[u.cur][n] # NoIno /\ u.kind[u.kids[u.cur][n]] = "dir"
    BY <2>3, Constants
  <2>6. SameTree(u, t) /\ t.ok = u.ok
    BY <1>2, <2>2, <2>4, DownDoes
  <2>7. t.cur = i
    <3>1. Sound(u) /\ n \in Typed
      BY <1>2, <2>2
    <3>2. t.cur = u.kids[u.cur][n]
      BY <2>4, <2>5, <3>1, DownDoes
    <3> QED
      BY <2>3, <3>2
  <2>8. t.ok
    BY <1>5, <2>2, <2>6 DEF SameWalk
  <2>9. Way(t, cur, Pre(p, k + 1)) /\ Changed(t, p, k + 1)
    <3>1. Pre(p, k + 1) \in Seq(Names) /\ cur \in Inodes
      BY <1>1, PreStep, StartIs
    <3> QED
      BY <2>2, <2>3, <2>6, <2>7, <3>1 DEF Way, Changed, SameTree
  <2>10. \A m \in Names : t.kids[t.cur][m] = NoIno
    BY <2>3, <2>6, <2>7 DEF SameTree
  <2> QED
    BY <1>3, <1>7, <2>8, <2>9, <2>10 DEF OnWay
<1> QED
  BY <1>6, <1>7

LEMMA CreatDoes ==
  ASSUME IInv, ~MkdirFails, Parts \cap {".", ".."} = {}, NEW p \in PathsOf(Parts), Creat(p),
         \A k \in 1 .. Len(p) - 1 : Was(p, k) = NoIno \/ kind[Was(p, k)] = "dir"
  PROVE  /\ Leads(kids', cur, Pre(p, Len(p))) # NoIno
         /\ Was(p, Len(p)) = NoIno => kind'[Leads(kids', cur, Pre(p, Len(p)))] = "file"
         /\ \A i \in Inodes : kind'[i] # kind[i] =>
              \E k \in 1 .. Len(p) : Leads(kids', cur, Pre(p, k)) = i
<1>1. PICK n \in Nat : n = Len(p) - 1 /\ n + 1 = Len(p)
  BY PathTyped
<1>2. p \in Seq(Typed) /\ p \in Seq(Names)
  <2>1. Parts \subseteq Typed /\ Typed \subseteq Names
    BY Constants DEF Typed
  <2>2. p \in Seq(Parts)
    BY PathTyped
  <2> QED
    BY <2>1, <2>2
<1>3. PICK s : s = Start /\ Sound(s)
  BY DEF IInv
<1>4. PICK f : Resolves(p, n, f)
  BY <1>1, <1>3, ResolveValue
<1>5. PICK st : st = Resolve(p) /\ st = f[n]
  BY <1>4 DEF Resolves
<1>6. Room(p)
  BY DEF Creat
<1>7. Sound(st) /\ Free(st) # {}
  BY <1>5, <1>6, Resolved
<1>8. Cardinality(Free(s)) >= n + 1
  BY <1>1, <1>3, <1>6 DEF Room
<1> DEFINE T == {k \in 0 .. n : Cardinality(Free(f[k])) + k >= n + 1 /\ OnWay(f[k], p, k)}
<1>9. 0 \in T
  <2>1. f[0] = s
    BY <1>3, <1>4 DEF Resolves
  <2>2. Pre(p, 0) = << >> /\ << >> \in Seq(Names)
    BY <1>2, PreStep
  <2>3. Was(p, 0) = cur /\ cur # NoIno
    <3>1. kids \in Tables /\ cur \in Ino /\ cur # NoIno
      BY StartIs, Constants DEF Ino
    <3>2. Leads(kids, cur, << >>) = cur
      BY <2>2, <3>1, LeadsStep, Constants
    <3> QED
      BY <2>2, <3>1, <3>2 DEF Was
  <2>4. Way(s, cur, Pre(p, 0))
    BY <1>3, <2>2, <2>3, StartIs DEF Way, Was
  <2>5. Changed(s, p, 0)
    BY <1>3, StartIs DEF Changed
  <2>6. OnWay(s, p, 0)
    BY <1>3, <2>3, <2>4, <2>5, StartIs DEF OnWay
  <2> QED
    BY <1>8, <2>1, <2>6, FreeCounts
<1>10. ASSUME NEW k \in 0 .. n - 1, k \in T PROVE k + 1 \in T
  <2>1. PICK a : a = f[k] /\ Sound(a)
    BY <1>4 DEF Resolves
  <2>2. k + 1 \in 1 .. n /\ k + 1 - 1 = k /\ k + 1 \in 0 .. n /\ k \in 0 .. Len(p) - 1
    BY <1>1
  <2>3. PICK b : b = f[k + 1] /\ b = ResolvePart(a, p[k + 1])
    BY <1>4, <2>1, <2>2 DEF Resolves
  <2>4. Cardinality(Free(a)) + k >= n + 1 /\ OnWay(a, p, k)
    BY <1>10, <2>1
  <2>5. Cardinality(Free(a)) \in Nat /\ Cardinality(Free(b)) \in Nat /\ Free(a) # {}
    BY <2>2, <2>4, FreeCounts
  <2>6. Was(p, k + 1) = NoIno \/ kind[Was(p, k + 1)] = "dir"
    BY <1>1, <2>2
  <2>7. p[k + 1] \in Typed
    BY <1>2, <2>2
  <2>8. OnWay(b, p, k + 1)
    BY <1>2, <2>1, <2>2, <2>3, <2>4, <2>5, <2>6, <2>7, OnWayStep
  <2>9. Cardinality(Free(b)) + 1 >= Cardinality(Free(a))
    BY <2>1, <2>3, <2>7, ResolvePartDoes
  <2>10. Cardinality(Free(b)) + (k + 1) >= n + 1
    BY <2>2, <2>4, <2>5, <2>9
  <2> QED
    BY <2>2, <2>3, <2>8, <2>10
<1>11. OnWay(st, p, n)
  <2>1. n \in T
    <3> HIDE DEF T
    <3>1. 0 .. n \subseteq T
      BY <1>9, <1>10, Rise
    <3> QED
      BY <3>1
  <2> QED
    BY <1>5, <2>1
<1>12. PICK e : e = p[n + 1]
  OBVIOUS
<1>13. n \in 0 .. Len(p) - 1
  BY <1>1
<1>14. /\ e \in Names /\ Kid(st, e) = st.kids[st.cur][e] /\ Was(p, n + 1) = Kid(st, e)
       /\ Kid(st, e) # NoIno => st.kind = kind /\ st.kids = kids
  BY <1>2, <1>7, <1>11, <1>12, <1>13, NextOnWay
<1>15. PICK u, t : u = Make(st, e, "file") /\ t = Unwind(u, Depth(st))
  OBVIOUS
<1>16. Becomes(t)
  <2>1. Last(st, p) = e
    BY <1>1, <1>11, <1>12 DEF Last, OnWay
  <2> QED
    BY <1>5, <1>15, <2>1 DEF Creat
<1>17. Sound(u) /\ SameTree(u, t)
  <2>1. Sound(u)
    BY <1>7, <1>14, <1>15, MadeOne
  <2>2. Depth(st) \in Int
    BY <1>7, SoundTypes DEF Depth
  <2> QED
    BY <1>15, <2>1, <2>2, UnwindDoes
<1>18. kind' = u.kind /\ kids' = u.kids
  BY <1>16, <1>17 DEF Becomes, SameTree
<1>19. CASE Kid(st, e) # NoIno
  <2>1. u = st
    BY <1>7, <1>14, <1>15, <1>19, MakeDoes
  <2>2. kids' = kids /\ kind' = kind
    BY <1>14, <1>18, <1>19, <2>1
  <2> QED
    BY <1>1, <1>14, <1>19, <2>2 DEF Was
<1>20. CASE Kid(st, e) = NoIno
  <2>1. /\ Changed(u, p, n + 1)
        /\ \E i \in Inodes : /\ u.kids[u.cur][e] = i /\ u.kind[i] = "file"
                             /\ \A m \in Names : u.kids[i][m] = NoIno
                             /\ Leads(u.kids, cur, Pre(p, n + 1)) = i
    BY <1>2, <1>7, <1>11, <1>12, <1>13, <1>15, <1>20, MadeOnWay DEF OnWay
  <2> QED
    BY <1>1, <1>18, <2>1, Constants DEF Changed
<1> QED
  BY <1>19, <1>20

-----------------------------------------------------------------------------
(***************************************************************************)
(* The theorems.                                                           *)
(***************************************************************************)

LEMMA InitInv == Init => IInv /\ PromptTrue
<1> SUFFICES ASSUME Init PROVE IInv /\ PromptTrue
  OBVIOUS
<1>1. /\ kind = [i \in Inodes |-> IF i = Root THEN "dir" ELSE "free"]
      /\ kids = [i \in Inodes |-> [n \in Names |-> NoIno]]
      /\ cur = Root /\ prompt = << >>
  BY DEF Init
<1>2. kind \in [Inodes -> Kinds] /\ kids \in Tables
  BY <1>1, Constants DEF Kinds, Tables, Ino
<1>3. Leads(kids, Root, << >>) = Root /\ << >> \in Seq(Names) /\ << >> \in Seq(Typed)
  <2>1. << >> \in Seq(Names) /\ << >> \in Seq(Typed)
    OBVIOUS
  <2>2. Leads(kids, Root, << >>) = Root
    BY <1>2, <2>1, LeadsStep, Constants DEF Ino
  <2> QED
    BY <2>1, <2>2
<1>4. Rooted(kind, kids)
  BY <1>1, <1>3, Constants DEF Rooted
<1>5. Tree(kind, kids) /\ kind[cur] = "dir"
  BY <1>1, <1>2, <1>4, Constants DEF Tree
<1>6. Start \in States
  BY <1>1, <1>2, <1>3, Constants DEF Start, States
<1>7. IInv
  BY <1>5, <1>6 DEF IInv, Sound, Start
<1> QED
  BY <1>1, <1>3, <1>7 DEF PromptTrue

LEMMA NextInv ==
  ASSUME IInv, [Next]_vars
  PROVE  IInv' /\ (~MkdirFails /\ Unnamed \notin Typed /\ PromptTrue => PromptTrue')
<1>1. CASE UNCHANGED vars
  <2>1. kind' = kind /\ kids' = kids /\ cur' = cur /\ prompt' = prompt
    BY <1>1 DEF vars
  <2>2. Start' = Start
    BY <2>1 DEF Start
  <2> QED
    BY <2>1, <2>2 DEF IInv, PromptTrue
<1>2. CASE PathCommand
  BY <1>2, CommandDoes
<1>3. CASE \E p \in PathsOf(CdParts) : Cd(p)
  BY <1>3, CdDoes
<1>4. CASE CdHome
  BY <1>4, CdHomeDoes
<1> QED
  BY <1>1, <1>2, <1>3, <1>4 DEF Next

\* The tree stays typed and the shell stays in a directory, whatever fails on the
\* way of a path: chdir() goes nowhere else.
THEOREM TypeCorrect == Spec => []TypeOK
<1>1. IInv => TypeOK
  BY StartIs DEF TypeOK, Kinds, Tables, Ino
<1> QED
  BY <1>1, InitInv, NextInv, PTL DEF Spec

\* No component of a path is empty: none begins with "/" or has "//" in it.
LEMMA NoneEmpty ==
  ASSUME Unnamed \notin Parts \cup CdParts
  PROVE  Unnamed \notin Typed
BY DEF Typed

\* s_cwd names the directory that commands work in, also after "..", after walks that
\* fail and after rm, as long as no path has an empty component and inodes do not run
\* out on the way.
THEOREM PromptRight ==
  ASSUME ~MkdirFails, Unnamed \notin Parts \cup CdParts
  PROVE  Spec => []PromptTrue
<1>1. IInv /\ PromptTrue /\ [Next]_vars => (IInv /\ PromptTrue)'
  BY NextInv, NoneEmpty
<1> QED
  BY <1>1, InitInv, PTL DEF Spec

\* A command leaves the shell where it was, when its path has no ".." and no empty
\* component and inodes do not run out on the way: unwind_path() goes up as often as
\* the walk went down.
THEOREM ComesBack ==
  ASSUME ~MkdirFails, ".." \notin Parts, Unnamed \notin Parts \cup CdParts
  PROVE  Spec => Restored
<1>1. IInv /\ [Next]_vars => [PathCommand => cur' = cur /\ prompt' = prompt]_vars
  BY CommandDoes, NoneEmpty
<1>2. IInv /\ [Next]_vars => IInv'
  BY NextInv
<1> QED
  BY <1>1, <1>2, InitInv, PTL DEF Spec, Restored

\* A cd goes where its path leads.  If that is nowhere it stays, with its prompt, when
\* the path does not climb above where it began and has no empty component, whether
\* inodes run out or not.
THEOREM CdGoesThere ==
  ASSUME Unnamed \notin Parts \cup CdParts
  PROVE  Spec => []CdFollows
<1>1. IInv => CdFollows
  BY CdGoes, NoneEmpty
<1> QED
  BY <1>1, InitInv, NextInv, PTL DEF Spec

\* creat makes its file at the end of its path, and changes nothing that is not on the
\* path, when the components before are directories or missing and inodes do not run
\* out.
THEOREM CreatesThere ==
  ASSUME ~MkdirFails, Parts \cap {".", ".."} = {}
  PROVE  Spec => CreatesWhereNamed
<1>1. IInv /\ [Next]_vars =>
        [\A p \in PathsOf(Parts) :
           LET before(k) == Leads(kids, cur, SubSeq(p, 1, k))
               after(k) == Leads(kids', cur, SubSeq(p, 1, k))
           IN  /\ Creat(p)
               /\ \A k \in 1 .. Len(p) - 1 : before(k) = NoIno \/ kind[before(k)] = "dir"
               => /\ after(Len(p)) # NoIno
                  /\ before(Len(p)) = NoIno => kind'[after(Len(p))] = "file"
                  /\ \A i \in Inodes : kind'[i] # kind[i] =>
                       \E k \in 1 .. Len(p) : after(k) = i]_vars
  BY CreatDoes DEF Was, Pre
<1>2. IInv /\ [Next]_vars => IInv'
  BY NextInv
<1> QED
  BY <1>1, <1>2, InitInv, PTL DEF Spec, CreatesWhereNamed

-----------------------------------------------------------------------------
(***************************************************************************)
(* What find lists.                                                        *)
(***************************************************************************)

\* A path goes on from where its first part leads.
LEMMA LeadsOn ==
  ASSUME NEW ks \in Tables, NEW d \in Ino, NEW p \in Seq(Names), NEW q \in Seq(Names)
  PROVE  /\ p \o q \in Seq(Names) /\ Leads(ks, d, p) \in Ino
         /\ Leads(ks, d, p \o q) = Leads(ks, Leads(ks, d, p), q)
<1>1. PICK m \in Nat, n \in Nat : m = Len(p) /\ n = Len(q)
  OBVIOUS
<1>2. PICK r : r = p \o q
  OBVIOUS
<1>3. /\ r \in Seq(Names) /\ Len(r) = m + n
      /\ \A i \in 1 .. m : r[i] = p[i]
      /\ \A i \in 1 .. n : r[m + i] = q[i]
  BY <1>1, <1>2
<1>4. SubSeq(r, 1, m) = p
  <2>1. PICK t : t = SubSeq(r, 1, m)
    OBVIOUS
  <2>2. t \in Seq(Names) /\ Len(t) = m /\ \A i \in 1 .. m : t[i] = r[i]
    BY <1>3, <2>1
  <2> QED
    BY <1>1, <1>3, <2>1, <2>2, SeqEqual
<1>5. PICK f : Along(ks, d, r, f) /\ Leads(ks, d, r) = f[m + n]
  BY <1>3, LeadsValue
<1>6. f[m] \in Ino /\ Leads(ks, d, p) = f[m]
  <2>1. m \in 0 .. Len(r)
    BY <1>3
  <2>2. f[m] \in Ino
    BY <1>5, <2>1 DEF Along
  <2>3. Leads(ks, d, SubSeq(r, 1, m)) = f[m]
    BY <1>3, <1>5, <2>1, AlongPart
  <2> QED
    BY <1>4, <2>2, <2>3
<1>7. PICK g : g = [i \in 0 .. n |-> f[m + i]]
  OBVIOUS
<1>8. g \in [0 .. n -> Ino] /\ g[0] = f[m] /\ g[n] = f[m + n]
  <2>1. f \in [0 .. m + n -> Ino]
    BY <1>3, <1>5 DEF Along
  <2>2. \A i \in 0 .. n : m + i \in 0 .. m + n
    OBVIOUS
  <2> QED
    BY <1>7, <2>1, <2>2
<1>9. ASSUME NEW i \in 1 .. n
      PROVE  g[i] = IF g[i - 1] = NoIno THEN NoIno ELSE ks[g[i - 1]][q[i]]
  <2>1. PICK k \in 1 .. m + n : k = m + i /\ k - 1 = m + (i - 1)
    OBVIOUS
  <2>2. f[k] = IF f[k - 1] = NoIno THEN NoIno ELSE ks[f[k - 1]][r[k]]
    BY <1>3, <1>5, <2>1 DEF Along
  <2>3. g[i] = f[k] /\ g[i - 1] = f[k - 1] /\ r[k] = q[i]
    BY <1>3, <1>7, <2>1
  <2> QED
    BY <2>2, <2>3
<1>10. Along(ks, f[m], q, g)
  BY <1>1, <1>8, <1>9 DEF Along
<1>11. Leads(ks, f[m], q) = g[n]
  BY <1>1, <1>6, <1>10, AlongOnly
<1> QED
  BY <1>2, <1>3, <1>5, <1>6, <1>8, <1>11

\* A path that begins with a name.
LEMMA LeadsFirst ==
  ASSUME NEW ks \in Tables, NEW d \in Inodes, NEW n \in Names, NEW q \in Seq(Names)
  PROVE  /\ <<n>> \in Seq(Names) /\ <<n>> \o q \in Seq(Names) /\ ks[d][n] \in Ino
         /\ Leads(ks, d, <<n>>) = ks[d][n]
         /\ Leads(ks, d, <<n>> \o q) = Leads(ks, ks[d][n], q)
<1>1. d \in Ino /\ d # NoIno /\ ks[d][n] \in Ino
  BY Constants DEF Ino, Tables
<1>2. PICK e, s : e = << >> /\ s = <<n>>
  OBVIOUS
<1>3. e \in Seq(Names) /\ s \in Seq(Names) /\ Append(e, n) = s
  BY <1>2
<1>4. Leads(ks, d, e) = d
  BY <1>1, <1>2, <1>3, LeadsStep
<1>5. Leads(ks, d, s) = ks[d][n]
  <2>0. e \in Seq(Names)
    BY <1>3
  <2>1. Leads(ks, d, Append(e, n)) =
          IF Leads(ks, d, e) = NoIno THEN NoIno ELSE ks[Leads(ks, d, e)][n]
    BY <1>1, <2>0, LeadsStep
  <2> QED
    BY <1>1, <1>3, <1>4, <2>1
<1>6. s \o q \in Seq(Names) /\ Leads(ks, d, s \o q) = Leads(ks, ks[d][n], q)
  BY <1>1, <1>3, <1>5, LeadsOn
<1> QED
  BY <1>1, <1>2, <1>3, <1>5, <1>6

\* Nothing is found where there is nothing.
LEMMA LeadsNowhere ==
  ASSUME NEW ks \in Tables, NEW q \in Seq(Names)
  PROVE  Leads(ks, NoIno, q) = NoIno
<1>1. PICK n \in Nat : n = Len(q)
  OBVIOUS
<1>2. PICK f : f = [i \in 0 .. n |-> NoIno]
  OBVIOUS
<1>3. Along(ks, NoIno, q, f) /\ f[n] = NoIno
  <2>1. \A i \in 1 .. n : i - 1 \in 0 .. n /\ i \in 0 .. n
    OBVIOUS
  <2> QED
    BY <1>1, <1>2, <2>1 DEF Along, Ino
<1> QED
  BY <1>1, <1>3, AlongOnly DEF Ino

\* No way down comes back.
Loops(ks) == {d \in Inodes : \E w \in Seq(Names) : w # << >> /\ Leads(ks, d, w) = d}

LEMMA NoLoop ==
  ASSUME NEW st, Sound(st)
  PROVE  Loops(st.kids) = {}
<1>1. PICK ks, kd : ks = st.kids /\ kd = st.kind
  OBVIOUS
<1>2. ks \in Tables /\ Rooted(kd, ks) /\ Root \in Ino
  BY <1>1, SoundTypes, Constants DEF Tree, Ino
<1>3. ASSUME NEW d \in Loops(ks)
      PROVE  d \in Inodes /\ d # Root /\ kd[d] # "free" /\ d # NoIno /\ d \in Ino
  <2>1. PICK w \in Seq(Names) : w # << >> /\ Leads(ks, d, w) = d
    BY DEF Loops
  <2>2. d \in Inodes /\ d # NoIno /\ d \in Ino
    BY Constants DEF Loops, Ino
  <2>3. PICK e, n : e = Leads(ks, d, Shorter(w)) /\ n = w[Len(w)]
    OBVIOUS
  <2>4. e \in Inodes /\ n \in Names /\ ks[e][n] = d
    BY <1>2, <2>1, <2>2, <2>3, LeadsBack
  <2>5. d # Root /\ kd[d] # "free"
    BY <1>1, <2>2, <2>4, SoundTypes DEF Tree
  <2> QED
    BY <2>2, <2>5
<1> DEFINE P == {p \in Seq(Names) : Leads(ks, Root, p) \in Loops(ks)}
           L == {Len(p) : p \in P}
<1>4. SUFFICES ASSUME Loops(ks) # {} PROVE FALSE
  BY <1>1
<1>5. L # {} /\ L \in SUBSET Nat
  <2>1. PICK d \in Loops(ks) : TRUE
    BY <1>4
  <2>2. PICK p \in Seq(Names) : Leads(ks, Root, p) = d
    BY <1>2, <1>3 DEF Rooted
  <2>3. p \in P
    BY <2>2
  <2>4. \A x \in P : Len(x) \in Nat
    OBVIOUS
  <2> QED
    BY <2>3, <2>4
<1>6. PICK p \in P : \A x \in P : Len(p) <= Len(x)
  <2>1. First(L) \in L /\ \A y \in L : First(L) <= y
    <3> HIDE DEF L
    <3> QED
      BY <1>5, FirstIsLeast
  <2> QED
    BY <2>1
<1>7. PICK d \in Loops(ks) : Leads(ks, Root, p) = d /\ p \in Seq(Names)
  BY <1>6
<1>8. p # << >>
  <2>1. Leads(ks, Root, << >>) = Root
    <3>1. << >> \in Seq(Names)
      OBVIOUS
    <3> QED
      BY <1>2, <3>1, LeadsStep, Constants
  <2> QED
    BY <1>3, <1>7, <2>1
<1>9. PICK e, n, q : e = Leads(ks, Root, q) /\ n = p[Len(p)] /\ q = Shorter(p)
  OBVIOUS
<1>10. q \in Seq(Names) /\ Len(q) = Len(p) - 1 /\ e \in Inodes /\ n \in Names /\ ks[e][n] = d
  BY <1>2, <1>3, <1>7, <1>8, <1>9, LeadsBack
<1>11. PICK w \in Seq(Names) : w # << >> /\ Leads(ks, d, w) = d
  BY DEF Loops
<1>12. PICK a, m, r : a = Leads(ks, d, r) /\ m = w[Len(w)] /\ r = Shorter(w)
  OBVIOUS
<1>13. r \in Seq(Names) /\ a \in Inodes /\ m \in Names /\ ks[a][m] = d
  BY <1>2, <1>3, <1>11, <1>12, LeadsBack
<1>14. a = e
  BY <1>1, <1>3, <1>10, <1>13, OneEntry
<1>15. Leads(ks, e, <<n>> \o r) = e /\ <<n>> \o r \in Seq(Names)
  <2>1. /\ <<n>> \o r \in Seq(Names)
        /\ Leads(ks, e, <<n>> \o r) = Leads(ks, ks[e][n], r)
    BY <1>2, <1>10, <1>13, LeadsFirst
  <2> QED
    BY <1>10, <1>12, <1>14, <2>1
<1>16. <<n>> \o r # << >>
  <2>1. Len(<<n>> \o r) = 1 + Len(r) /\ Len(r) \in Nat
    BY <1>13
  <2>2. Len(<< >>) = 0
    OBVIOUS
  <2> QED
    BY <2>1, <2>2
<1>17. e \in Loops(ks)
  BY <1>10, <1>15, <1>16 DEF Loops
<1>18. q \in P
  BY <1>9, <1>10, <1>17
<1> QED
  BY <1>6, <1>7, <1>10, <1>18

\* So no way down is longer than there are inodes.
LEMMA WayShort ==
  ASSUME NEW st, Sound(st), NEW d \in Inodes, NEW p \in Seq(Names),
         Leads(st.kids, d, p) # NoIno
  PROVE  Len(p) + 1 <= Cardinality(Inodes) /\ Cardinality(Inodes) \in Nat
<1>1. PICK n \in Nat : n = Len(p)
  OBVIOUS
<1>2. PICK ks \in Tables : ks = st.kids
  BY SoundTypes
<1>3. d \in Ino
  BY DEF Ino
<1>4. PICK f : Along(ks, d, p, f) /\ Leads(ks, d, p) = f[n]
  BY <1>1, <1>3, LeadsValue
<1>5. ASSUME NEW i \in 0 .. n, NEW j \in 0 .. n, i <= j
      PROVE  /\ SubSeq(p, i + 1, j) \in Seq(Names) /\ Len(SubSeq(p, i + 1, j)) = j - i
             /\ f[i] \in Ino
             /\ f[j] = Leads(ks, f[i], SubSeq(p, i + 1, j))
  <2>1. PICK a, b, c : a = SubSeq(p, 1, i) /\ b = SubSeq(p, i + 1, j) /\ c = SubSeq(p, 1, j)
    OBVIOUS
  <2>2. a \in Seq(Names) /\ Leads(ks, d, a) = f[i] /\ c \in Seq(Names) /\ Leads(ks, d, c) = f[j]
    BY <1>1, <1>3, <1>4, <2>1, AlongPart
  <2>3. b \in Seq(Names) /\ Len(b) = j - i
    <3>1. \A x \in i + 1 .. j : p[x] \in Names
      BY <1>1
    <3> QED
      BY <1>1, <1>5, <2>1, <3>1, SubSeqProperties
  <2>4. c = a \o b
    <3>1. Len(a) = i /\ Len(c) = j /\ \A x \in 1 .. i : a[x] = p[x]
      BY <1>1, <2>1
    <3>2. \A x \in 1 .. j - i : b[x] = p[i + x]
      BY <1>1, <1>5, <2>1
    <3>3. \A x \in 1 .. j : c[x] = p[x]
      BY <1>1, <2>1
    <3>4. PICK t : t = a \o b
      OBVIOUS
    <3>5. t \in Seq(Names) /\ Len(t) = j
      BY <1>5, <2>2, <2>3, <3>1, <3>4
    <3>6. \A x \in 1 .. j : t[x] = c[x]
      <4> TAKE x \in 1 .. j
      <4>1. CASE x <= i
        <5>1. x \in 1 .. i
          BY <4>1
        <5>2. t[x] = a[x]
          BY <2>2, <2>3, <3>1, <3>4, <5>1
        <5> QED
          BY <3>1, <3>3, <5>1, <5>2
      <4>2. CASE ~(x <= i)
        <5>1. PICK y \in 1 .. j - i : x = i + y
          BY <4>2
        <5>2. t[i + y] = b[y]
          BY <2>2, <2>3, <3>1, <3>4
        <5> QED
          BY <3>2, <3>3, <5>1, <5>2
      <4> QED
        BY <4>1, <4>2
    <3> QED
      BY <2>2, <3>1, <3>4, <3>5, <3>6, SeqEqual
  <2>5. Leads(ks, d, a) \in Ino /\ Leads(ks, d, a \o b) = Leads(ks, Leads(ks, d, a), b)
    BY <1>3, <2>2, <2>3, LeadsOn
  <2>6. f[i] \in Ino /\ f[j] = Leads(ks, f[i], b)
    BY <2>2, <2>4, <2>5
  <2> QED
    BY <2>1, <2>3, <2>6
<1>6. \A i \in 0 .. n : f[i] \in Inodes
  <2> TAKE i \in 0 .. n
  <2>1. n \in 0 .. n
    OBVIOUS
  <2>2. f[i] \in Ino /\ f[n] = Leads(ks, f[i], SubSeq(p, i + 1, n))
        /\ SubSeq(p, i + 1, n) \in Seq(Names)
    BY <1>5, <2>1
  <2>3. f[i] # NoIno
    BY <1>2, <1>4, <2>2, LeadsNowhere
  <2> QED
    BY <2>2, <2>3 DEF Ino
<1>7. ASSUME NEW i \in 0 .. n, NEW j \in 0 .. n, i < j, f[i] = f[j] PROVE FALSE
  <2>1. PICK b : b = SubSeq(p, i + 1, j)
    OBVIOUS
  <2>2. b \in Seq(Names) /\ Len(b) = j - i /\ Leads(ks, f[i], b) = f[i]
    BY <1>5, <1>7, <2>1
  <2>3. b # << >>
    BY <1>7, <2>2
  <2>4. f[i] \in Loops(ks)
    BY <1>6, <2>2, <2>3 DEF Loops
  <2> QED
    BY <1>2, <2>4, NoLoop
<1>8. f \in [0 .. n -> Inodes]
  <2>1. f \in [0 .. n -> Ino]
    BY <1>1, <1>4 DEF Along
  <2> QED
    BY <1>6, <2>1
<1>9. \A i, j \in 0 .. n : f[i] = f[j] => i = j
  <2> TAKE i, j \in 0 .. n
  <2>1. i < j \/ j < i \/ i = j
    OBVIOUS
  <2> QED
    BY <1>7, <2>1
<1>10. f \in Injection(0 .. n, Inodes)
  BY <1>8, <1>9 DEF Injection, IsInjective
<1>11. IsFiniteSet(0 .. n) /\ Cardinality(0 .. n) = n + 1
  BY FS_Interval
<1>12. Cardinality(0 .. n) <= Cardinality(Inodes)
  BY <1>10, Constants, FS_Injection
<1>13. Cardinality(Inodes) \in Nat
  BY Constants, FS_CardinalityType
<1> QED
  BY <1>1, <1>11, <1>12, <1>13

\* The paths of at most k components from d to a file of that name.
Hits(d, k, name) ==
  {q \in Seq(Names) : /\ Len(q) \in 1 .. k /\ q[Len(q)] = name
                      /\ Leads(kids, d, q) # NoIno /\ kind[Leads(kids, d, q)] = "file"}

LEMMA HitsNone ==
  ASSUME NEW d, NEW name
  PROVE  Hits(d, 0, name) = {}
BY DEF Hits

\* Such a path is the name itself or begins with the name of a subdirectory.
HitFrom(d, k, name, q) ==
  \/ q = <<name>> /\ kids[d][name] # NoIno /\ kind[kids[d][name]] = "file"
  \/ \E n \in Names : \E w \in Hits(kids[d][n], k, name) :
       kids[d][n] \in Dirs /\ q = <<n>> \o w

LEMMA HitsStep ==
  ASSUME IInv, NEW d \in Inodes, NEW k \in Nat, NEW name \in Names, NEW q,
         NEW h, h = k + 1
  PROVE  q \in Hits(d, h, name) <=> HitFrom(d, k, name, q)
<1>1. /\ kids \in Tables /\ Tree(kind, kids) /\ Sound(Start)
      /\ \A e \in Inodes, n \in Names : kids[e][n] \in Ino
  BY StartIs, SoundTypes DEF IInv, Tables, Start
<1>2. ASSUME q = <<name>>, kids[d][name] # NoIno, kind[kids[d][name]] = "file"
      PROVE  q \in Hits(d, k + 1, name)
  <2>1. q \in Seq(Names) /\ Len(q) = 1 /\ q[1] = name
    BY <1>2
  <2>2. Leads(kids, d, <<name>>) = kids[d][name]
    BY <1>1, <2>1, LeadsFirst
  <2>3. Leads(kids, d, q) # NoIno /\ kind[Leads(kids, d, q)] = "file"
    BY <1>2, <2>2
  <2>4. Len(q) \in 1 .. k + 1
    BY <2>1
  <2> QED
    BY <2>1, <2>3, <2>4 DEF Hits
<1>3. ASSUME NEW n \in Names, NEW w \in Hits(kids[d][n], k, name), kids[d][n] \in Dirs,
             q = <<n>> \o w
      PROVE  q \in Hits(d, k + 1, name)
  <2>1. /\ w \in Seq(Names) /\ Len(w) \in 1 .. k /\ w[Len(w)] = name
        /\ Leads(kids, kids[d][n], w) # NoIno /\ kind[Leads(kids, kids[d][n], w)] = "file"
    BY DEF Hits
  <2>2. q \in Seq(Names) /\ Leads(kids, d, q) = Leads(kids, kids[d][n], w)
    BY <1>1, <1>3, <2>1, LeadsFirst
  <2>3. PICK m \in 1 .. k : m = Len(w)
    BY <2>1
  <2>4. Len(q) = 1 + m /\ q[1 + m] = w[m] /\ 1 + m \in 1 .. k + 1
    BY <1>3, <2>1, <2>3
  <2> QED
    BY <2>1, <2>2, <2>3, <2>4 DEF Hits
<1>4. ASSUME q \in Hits(d, k + 1, name)
      PROVE  \/ q = <<name>> /\ kids[d][name] # NoIno /\ kind[kids[d][name]] = "file"
             \/ \E n \in Names : \E w \in Hits(kids[d][n], k, name) :
                  kids[d][n] \in Dirs /\ q = <<n>> \o w
  <2>1. /\ q \in Seq(Names) /\ Len(q) \in 1 .. k + 1 /\ q[Len(q)] = name
        /\ Leads(kids, d, q) # NoIno /\ kind[Leads(kids, d, q)] = "file"
    BY <1>4 DEF Hits
  <2>2. PICK m \in 0 .. k : Len(q) = m + 1
    <3>1. Len(q) - 1 \in 0 .. k /\ Len(q) = Len(q) - 1 + 1
      BY <2>1
    <3> QED
      BY <3>1
  <2>3. PICK n \in Names : n = q[1]
    BY <2>1, <2>2
  <2>4. PICK w : w = [i \in 1 .. m |-> q[i + 1]]
    OBVIOUS
  <2>5. w \in Seq(Names) /\ Len(w) = m /\ \A i \in 1 .. m : w[i] = q[i + 1]
    <3>1. \A i \in 1 .. m : q[i + 1] \in Names
      BY <2>1, <2>2
    <3> QED
      BY <2>4, <3>1
  <2>6. q = <<n>> \o w
    <3>1. PICK t : t = <<n>> \o w
      OBVIOUS
    <3>2. t \in Seq(Names) /\ Len(t) = m + 1 /\ t[1] = n /\ \A i \in 1 .. m : t[i + 1] = w[i]
      BY <2>5, <3>1
    <3>3. \A i \in 1 .. m + 1 : t[i] = q[i]
      <4> TAKE i \in 1 .. m + 1
      <4>1. CASE i = 1
        BY <2>3, <3>2, <4>1
      <4>2. CASE i # 1
        <5>1. PICK j \in 1 .. m : i = j + 1
          <6>1. i - 1 \in 1 .. m /\ i = i - 1 + 1
            BY <4>2
          <6> QED
            BY <6>1
        <5> QED
          BY <2>5, <3>2, <5>1
      <4> QED
        BY <4>1, <4>2
    <3> QED
      BY <2>1, <2>2, <3>1, <3>2, <3>3, SeqEqual
  <2>7. PICK e : e = kids[d][n]
    OBVIOUS
  <2>8. e \in Ino /\ Leads(kids, d, q) = Leads(kids, e, w) /\ Leads(kids, d, <<n>>) = e
    BY <1>1, <2>5, <2>6, <2>7, LeadsFirst
  <2>9. e \in Inodes
    BY <1>1, <2>1, <2>5, <2>8, LeadsNowhere DEF Ino
  <2>10. CASE m = 0
    <3>1. n = name /\ q = <<name>>
      <4>1. PICK t : t = <<name>>
        OBVIOUS
      <4>2. t \in Seq(Names) /\ Len(t) = 1 /\ t[1] = name
        BY <4>1
      <4>3. \A i \in 1 .. 1 : t[i] = q[i]
        BY <2>1, <2>2, <2>10, <4>2
      <4>4. t = q
        BY <2>1, <2>2, <2>10, <4>2, <4>3, SeqEqual
      <4> QED
        BY <2>3, <4>1, <4>2, <4>4
    <3>2. Leads(kids, d, q) = e
      BY <2>3, <2>8, <3>1
    <3> QED
      BY <2>1, <2>7, <3>1, <3>2
  <2>11. CASE m # 0
    <3>1. e \in Dirs
      <4>1. w # << >> /\ Leads(kids, e, w) # NoIno
        BY <2>1, <2>5, <2>8, <2>11
      <4>2. PICK a \in Names, r \in Seq(Names) : w = <<a>> \o r
        <5>1. Head(w) \in Names /\ Tail(w) \in Seq(Names) /\ w = <<Head(w)>> \o Tail(w)
          BY <2>5, <4>1, HeadTailProperties
        <5> QED
          BY <5>1
      <4>3. Leads(kids, e, w) = Leads(kids, kids[e][a], r) /\ kids[e][a] \in Ino
        BY <1>1, <2>9, <4>2, LeadsFirst
      <4>4. kids[e][a] # NoIno
        BY <1>1, <4>1, <4>2, <4>3, LeadsNowhere
      <4>5. kind[e] = "dir"
        BY <1>1, <2>9, <4>4 DEF Tree
      <4> QED
        BY <2>9, <4>5 DEF Dirs
    <3>2. w \in Hits(e, k, name)
      <4>1. w[m] = name /\ m \in 1 .. k
        BY <2>1, <2>2, <2>5, <2>11
      <4> QED
        BY <2>1, <2>5, <2>8, <4>1 DEF Hits
    <3> QED
      BY <2>6, <2>7, <3>1, <3>2
  <2> QED
    BY <2>10, <2>11
<1> QED
  BY <1>2, <1>3, <1>4 DEF HitFrom

\* What search() of depth k finds from d, which is where it stops.
Result(d, k, prefix, name) ==
  [cur |-> d, out |-> {prefix \o q : q \in Hits(d, k, name)}]

\* search is the search of depth k.
Searches(search, k, name) ==
  \A e \in Dirs, r \in Seq(Names) : search[e][r] = Result(e, k, r, name)

\* A subdirectory entered by its name is left for the directory that has it.
LEMMA InAndOut ==
  ASSUME IInv, NEW d \in Dirs, NEW i \in Subdirs(d)
  PROVE  /\ NameOf(d, i) \in Names /\ kids[d][NameOf(d, i)] = i
         /\ \A n \in Names : kids[d][n] = i => n = NameOf(d, i)
         /\ i \in Dirs /\ To(d, NameOf(d, i)) = i /\ To(i, "..") = d
<1>1. /\ kids \in Tables /\ Tree(kind, kids) /\ Sound(Start)
      /\ \A e \in Dirs : e \in Inodes /\ kind[e] = "dir"
  BY StartIs DEF IInv, Dirs
<1>2. i \in Dirs /\ i # NoIno /\ \E n \in Names : kids[d][n] = i
  BY Constants DEF Subdirs, Dirs
<1>3. PICK n \in Names : n = NameOf(d, i) /\ kids[d][n] = i
  <2>1. NameOf(d, i) = CHOOSE n \in Names : kids[d][n] = i
    BY <1>2, Zenon DEF NameOf
  <2> QED
    BY <1>2, <2>1, Zenon
<1>4. ASSUME NEW m \in Names, kids[d][m] = i PROVE m = n
  BY <1>1, <1>2, <1>3, <1>4 DEF Tree
<1>5. ASSUME NEW e \in Dirs
      PROVE  Sound(In(e)) /\ In(e).cur = e /\ In(e).kids = kids /\ In(e).kind = kind
  BY InThere
<1>6. To(d, n) = i
  <2>1. PICK s : s = In(d)
    OBVIOUS
  <2>2. Sound(s) /\ s.cur = d /\ s.kids = kids /\ s.kind = kind
    BY <1>5, <2>1
  <2>3. Kid(s, n) = i
    BY <1>3, <2>2, KidFound
  <2>4. Chdir(s, n).cur = i
    BY <1>1, <1>2, <2>2, <2>3, ChdirDoes
  <2> QED
    BY <2>1, <2>4 DEF To
<1>7. To(i, "..") = d
  <2>1. PICK s : s = In(i)
    OBVIOUS
  <2>2. Sound(s) /\ s.cur = i /\ s.kids = kids /\ s.kind = kind
    BY <1>2, <1>5, <2>1
  <2>3. i # Root
    BY <1>1, <1>2, <1>3 DEF Tree
  <2>4. PICK e : e = Kid(s, "..")
    OBVIOUS
  <2>5. e \in Inodes /\ kind[e] = "dir" /\ \E m \in Names : kids[e][m] = i
    BY <2>2, <2>3, <2>4, KidFound
  <2>6. e = d
    BY <1>1, <1>2, <1>3, <2>5 DEF Tree
  <2>7. Chdir(s, "..").cur = e
    BY <2>2, <2>4, <2>5, ChdirDoes, Constants
  <2> QED
    BY <2>1, <2>6, <2>7 DEF To
<1> QED
  BY <1>2, <1>3, <1>4, <1>6, <1>7

\* The subdirectories one by one.
LEMMA ListingDoes ==
  ASSUME NEW S, IsFiniteSet(S)
  PROVE  /\ Cardinality(S) \in Nat /\ Listing(S) \in [1 .. Cardinality(S) -> S]
         /\ \A i \in S : \E k \in 1 .. Cardinality(S) : Listing(S)[k] = i
<1>1. PICK c \in Nat : c = Cardinality(S)
  BY FS_CardinalityType
<1>2. PICK f : f \in Bijection(1 .. c, S)
  BY <1>1, FS_CardinalityType DEF ExistsBijection
<1>3. f \in [1 .. c -> S] /\ \A i \in S : \E k \in DOMAIN f : f[k] = i
  BY <1>2 DEF Bijection, Surjection, IsInjective
<1>4. PICK s : s = Listing(S)
  OBVIOUS
<1>5. s = CHOOSE g \in [1 .. c -> S] : \A i \in S : \E k \in DOMAIN g : g[k] = i
  BY <1>1, <1>4 DEF Listing
<1>6. s \in [1 .. c -> S] /\ \A i \in S : \E k \in DOMAIN s : s[k] = i
  BY <1>3, <1>5, Zenon
<1> QED
  BY <1>1, <1>4, <1>6

\* What is found below d by way of its subdirectory i.
Below(d, i, k, prefix, name) ==
  {prefix \o (<<NameOf(d, i)>> \o w) : w \in Hits(i, k, name)}

LEMMA SearchBelowDoes ==
  ASSUME IInv, NEW name \in Names, NEW k \in Nat, NEW search, Searches(search, k, name),
         NEW d \in Dirs, NEW prefix \in Seq(Names), NEW i \in Subdirs(d), NEW found, found.cur = d
  PROVE  SearchBelow(search, found, i, prefix) =
           [cur |-> d, out |-> found.out \cup Below(d, i, k, prefix, name)]
<1>1. PICK n \in Names : n = NameOf(d, i)
  BY InAndOut
<1>2. i \in Dirs /\ To(d, n) = i /\ To(i, "..") = d
  BY <1>1, InAndOut
<1>3. PICK r : r = Append(prefix, n) /\ r \in Seq(Names)
  <2>1. Append(prefix, n) \in Seq(Names)
    OBVIOUS
  <2> QED
    BY <2>1
<1>4. PICK below : below = search[i][r]
  OBVIOUS
<1>5. below = Result(i, k, r, name)
  BY <1>2, <1>3, <1>4 DEF Searches
<1>6. below.cur = i /\ below.out = {r \o q : q \in Hits(i, k, name)}
  BY <1>5 DEF Result
<1>7. ASSUME NEW w \in Hits(i, k, name) PROVE r \o w = prefix \o (<<n>> \o w)
  <2>1. w \in Seq(Names)
    BY DEF Hits
  <2>2. r = prefix \o <<n>>
    BY <1>3, AppendIsConcat
  <2>3. (prefix \o <<n>>) \o w = prefix \o (<<n>> \o w)
    BY <2>1, ConcatAssociative
  <2> QED
    BY <2>2, <2>3
<1>8. below.out = Below(d, i, k, prefix, name)
  <2>1. PICK H : H = Hits(i, k, name) /\ \A w \in H : r \o w = prefix \o (<<n>> \o w)
    BY <1>7
  <2>2. PICK F, G : F = [w \in H |-> r \o w] /\ G = [w \in H |-> prefix \o (<<n>> \o w)]
    OBVIOUS
  <2>3. \A w \in H : F[w] = r \o w /\ G[w] = prefix \o (<<n>> \o w)
    BY <2>2
  <2>4. \A w \in H : F[w] = G[w]
    BY <2>1, <2>3
  <2>5. \A x : x \in below.out <=> \E w \in H : x = F[w]
    <3>1. \A x : x \in below.out <=> \E w \in H : x = r \o w
      BY <1>6, <2>1
    <3>2. \A w \in H : F[w] = r \o w
      BY <2>3
    <3> QED
      BY <3>1, <3>2, Zenon
  <2>6. \A x : x \in Below(d, i, k, prefix, name) <=> \E w \in H : x = G[w]
    <3>1. \A x : x \in Below(d, i, k, prefix, name) <=> \E w \in H : x = prefix \o (<<n>> \o w)
      BY <1>1, <2>1 DEF Below
    <3>2. \A w \in H : G[w] = prefix \o (<<n>> \o w)
      BY <2>3
    <3> QED
      BY <3>1, <3>2, Zenon
  <2>7. \A x : x \in below.out <=> x \in Below(d, i, k, prefix, name)
    BY <2>4, <2>5, <2>6
  <2> QED
    BY <2>7
<1>9. SearchBelow(search, found, i, prefix) =
        [cur |-> To(below.cur, ".."), out |-> found.out \cup below.out]
  BY <1>1, <1>2, <1>3, <1>4 DEF SearchBelow
<1> QED
  BY <1>2, <1>6, <1>8, <1>9

\* All that is found from d is there, or below one of its subdirectories.
LEMMA ResultParts ==
  ASSUME IInv, NEW name \in Names, NEW k \in Nat, NEW d \in Dirs, NEW prefix \in Seq(Names)
  PROVE  Result(d, k + 1, prefix, name) =
           [cur |-> d, out |-> Here(d, prefix, name) \cup
                               UNION {Below(d, i, k, prefix, name) : i \in Subdirs(d)}]
<1>1. d \in Inodes
  BY DEF Dirs
<1>2. PICK out, h : out = {prefix \o q : q \in Hits(d, h, name)} /\ h = k + 1
  OBVIOUS
<1>3. prefix \o <<name>> = Append(prefix, name)
  BY AppendIsConcat
<1>4. ASSUME NEW x \in out
      PROVE  \/ x \in Here(d, prefix, name)
             \/ \E i \in Subdirs(d) : x \in Below(d, i, k, prefix, name)
  <2>1. PICK q \in Hits(d, h, name) : x = prefix \o q
    BY <1>2
  <2>2. CASE q = <<name>> /\ kids[d][name] # NoIno /\ kind[kids[d][name]] = "file"
    BY <1>3, <2>1, <2>2 DEF Here
  <2>3. CASE \E n \in Names : \E w \in Hits(kids[d][n], k, name) :
               kids[d][n] \in Dirs /\ q = <<n>> \o w
    <3>1. PICK n \in Names : \E w \in Hits(kids[d][n], k, name) :
                                kids[d][n] \in Dirs /\ q = <<n>> \o w
      BY <2>3
    <3>2. PICK i : i = kids[d][n] /\ i \in Dirs
      BY <3>1
    <3>3. i \in Subdirs(d)
      BY <3>2 DEF Subdirs
    <3>4. n = NameOf(d, i)
      BY <3>2, <3>3, InAndOut
    <3>5. x \in Below(d, i, k, prefix, name)
      BY <2>1, <3>1, <3>2, <3>4 DEF Below
    <3> QED
      BY <3>3, <3>5
  <2>4. HitFrom(d, k, name, q)
    BY <1>1, <1>2, <2>1, HitsStep
  <2> QED
    BY <2>2, <2>3, <2>4 DEF HitFrom
<1>5. Here(d, prefix, name) \subseteq out
  <2>1. SUFFICES ASSUME kids[d][name] # NoIno, kind[kids[d][name]] = "file"
                 PROVE  Append(prefix, name) \in out
    BY DEF Here
  <2>2. HitFrom(d, k, name, <<name>>)
    BY <2>1 DEF HitFrom
  <2>3. <<name>> \in Hits(d, h, name)
    BY <1>1, <1>2, <2>2, HitsStep
  <2> QED
    BY <1>2, <1>3, <2>3
<1>6. ASSUME NEW i \in Subdirs(d) PROVE Below(d, i, k, prefix, name) \subseteq out
  <2>1. PICK n \in Names : n = NameOf(d, i) /\ kids[d][n] = i /\ i \in Dirs
    BY InAndOut
  <2>2. ASSUME NEW w \in Hits(i, k, name) PROVE prefix \o (<<n>> \o w) \in out
    <3>1. HitFrom(d, k, name, <<n>> \o w)
      BY <2>1, <2>2 DEF HitFrom
    <3>2. <<n>> \o w \in Hits(d, h, name)
      BY <1>1, <1>2, <3>1, HitsStep
    <3> QED
      BY <1>2, <3>2
  <2> QED
    BY <2>1, <2>2 DEF Below
<1>7. out = Here(d, prefix, name) \cup
            UNION {Below(d, i, k, prefix, name) : i \in Subdirs(d)}
  BY <1>4, <1>5, <1>6
<1> QED
  BY <1>2, <1>7 DEF Result

LEMMA SearchFromDoes ==
  ASSUME IInv, NEW name \in Names, NEW k \in Nat, NEW search, Searches(search, k, name),
         NEW d \in Dirs, NEW prefix \in Seq(Names)
  PROVE  SearchFrom(search, d, prefix, name) = Result(d, k + 1, prefix, name)
<1>1. PICK c, s : c = Cardinality(Subdirs(d)) /\ s = Listing(Subdirs(d))
  OBVIOUS
<1>2. /\ c \in Nat /\ s \in [1 .. c -> Subdirs(d)]
      /\ \A i \in Subdirs(d) : \E j \in 1 .. c : s[j] = i
  <2>1. Subdirs(d) \subseteq Inodes
    BY DEF Subdirs, Dirs
  <2>2. IsFiniteSet(Subdirs(d))
    BY <2>1, Constants, FS_Subset
  <2> QED
    BY <1>1, <2>2, ListingDoes
<1>3. PICK here : here = Here(d, prefix, name)
  OBVIOUS
<1>4. PICK B : B = [i \in Subdirs(d) |-> Below(d, i, k, prefix, name)]
  OBVIOUS
<1>5. ASSUME NEW i \in Subdirs(d), NEW found, found.cur = d
      PROVE  SearchBelow(search, found, i, prefix) = [cur |-> d, out |-> found.out \cup B[i]]
  BY <1>4, <1>5, SearchBelowDoes
<1>6. PICK G : G = [j \in 0 .. c |-> [cur |-> d, out |-> here \cup UNION {B[s[x]] : x \in 1 .. j}]]
  OBVIOUS
<1>7. ASSUME NEW j \in 1 .. c PROVE G[j] = SearchBelow(search, G[j - 1], s[j], prefix)
  <2>1. j - 1 \in 0 .. c /\ j \in 0 .. c /\ s[j] \in Subdirs(d)
    BY <1>2
  <2>2. \A x : x \in 1 .. j <=> x \in 1 .. j - 1 \/ x = j
    BY <1>2
  <2>3. UNION {B[s[x]] : x \in 1 .. j} = (UNION {B[s[x]] : x \in 1 .. j - 1}) \cup B[s[j]]
    <3>1. ASSUME NEW y PROVE y \in {B[s[x]] : x \in 1 .. j} <=>
                              y \in {B[s[x]] : x \in 1 .. j - 1} \cup {B[s[j]]}
      <4>1. ASSUME NEW x \in 1 .. j, y = B[s[x]]
            PROVE  y \in {B[s[z]] : z \in 1 .. j - 1} \/ y = B[s[j]]
        BY <2>2, <4>1
      <4>2. \A x \in 1 .. j - 1 : x \in 1 .. j
        BY <2>2
      <4>3. j \in 1 .. j
        OBVIOUS
      <4> QED
        BY <4>1, <4>2, <4>3
    <3>2. {B[s[x]] : x \in 1 .. j} = {B[s[x]] : x \in 1 .. j - 1} \cup {B[s[j]]}
      BY <3>1
    <3>3. PICK X, Y, b : X = {B[s[x]] : x \in 1 .. j} /\ Y = {B[s[x]] : x \in 1 .. j - 1}
                         /\ b = B[s[j]]
      OBVIOUS
    <3>4. UNION X = (UNION Y) \cup b
      <4>1. X = Y \cup {b}
        BY <3>2, <3>3
      <4>2. \A z : z \in X <=> z \in Y \/ z = b
        BY <4>1
      <4>3. \A y : y \in UNION X <=> y \in UNION Y \/ y \in b
        BY <4>2, Zenon
      <4> QED
        BY <4>3
    <3> QED
      BY <3>3, <3>4
  <2>4. /\ G[j - 1].cur = d /\ G[j - 1].out = here \cup UNION {B[s[x]] : x \in 1 .. j - 1}
        /\ G[j] = [cur |-> d, out |-> here \cup UNION {B[s[x]] : x \in 1 .. j}]
    BY <1>6, <2>1
  <2>5. SearchBelow(search, G[j - 1], s[j], prefix) =
          [cur |-> d, out |-> G[j - 1].out \cup B[s[j]]]
    BY <1>5, <2>1, <2>4
  <2>6. G[j - 1].out \cup B[s[j]] = here \cup UNION {B[s[x]] : x \in 1 .. j}
    BY <2>3, <2>4
  <2> QED
    BY <2>4, <2>5, <2>6
<1>8. G[0] = [cur |-> d, out |-> here]
  <2>1. 0 \in 0 .. c /\ 1 .. 0 = {}
    BY <1>2
  <2>2. UNION {B[s[x]] : x \in 1 .. 0} = {}
    BY <2>1
  <2> QED
    BY <1>6, <2>1, <2>2
<1>9. G = [j \in 0 .. c |-> IF j = 0 THEN [cur |-> d, out |-> here]
                            ELSE SearchBelow(search, G[j - 1], s[j], prefix)]
  <2>1. \A j \in 0 .. c : j = 0 \/ j \in 1 .. c
    BY <1>2
  <2>2. \A j \in 0 .. c : G[j] = IF j = 0 THEN [cur |-> d, out |-> here]
                                 ELSE SearchBelow(search, G[j - 1], s[j], prefix)
    BY <1>7, <1>8, <2>1
  <2>3. G = [j \in 0 .. c |-> G[j]]
    BY <1>6
  <2> QED
    BY <2>2, <2>3
<1> DEFINE subdirs == Listing(Subdirs(d))
           after[j \in 0 .. Cardinality(Subdirs(d))] ==
             IF j = 0 THEN [cur |-> d, out |-> Here(d, prefix, name)]
             ELSE SearchBelow(search, after[j - 1], subdirs[j], prefix)
<1>10. SearchFrom(search, d, prefix, name) = after[Cardinality(Subdirs(d))]
  BY DEF SearchFrom
<1>11. after = [j \in 0 .. c |-> IF j = 0 THEN [cur |-> d, out |-> here]
                                 ELSE SearchBelow(search, after[j - 1], s[j], prefix)]
  BY <1>1, <1>3, <1>9
<1> HIDE DEF after
<1>18. /\ after[0] = [cur |-> d, out |-> here]
       /\ \A j \in 1 .. c : after[j] = SearchBelow(search, after[j - 1], s[j], prefix)
  <2>1. 0 \in 0 .. c /\ \A j \in 1 .. c : j \in 0 .. c /\ j # 0
    BY <1>2
  <2> QED
    BY <1>11, <2>1
<1> DEFINE T == {j \in 0 .. c : after[j] = G[j]}
<1>12. 0 \in T
  BY <1>2, <1>8, <1>18
<1>13. ASSUME NEW j \in 0 .. c - 1, j \in T PROVE j + 1 \in T
  <2>1. j + 1 \in 1 .. c /\ j + 1 \in 0 .. c /\ j + 1 # 0 /\ j + 1 - 1 = j
    BY <1>2
  <2>2. after[j] = G[j]
    BY <1>13
  <2>3. after[j + 1] = SearchBelow(search, after[j], s[j + 1], prefix)
    BY <1>18, <2>1
  <2>4. G[j + 1] = SearchBelow(search, G[j], s[j + 1], prefix)
    BY <1>7, <2>1
  <2> QED
    BY <2>1, <2>2, <2>3, <2>4
<1>14. after[c] = G[c]
  <2> HIDE DEF T
  <2>1. 0 .. c \subseteq T
    BY <1>2, <1>12, <1>13, Rise
  <2>2. c \in T
    BY <1>2, <2>1
  <2> QED
    BY <2>2 DEF T
<1>15. UNION {B[s[x]] : x \in 1 .. c} = UNION {B[i] : i \in Subdirs(d)}
  BY <1>2
<1>16. {B[i] : i \in Subdirs(d)} = {Below(d, i, k, prefix, name) : i \in Subdirs(d)}
  BY <1>4
<1>17. G[c] = [cur |-> d, out |-> here \cup
                                  UNION {Below(d, i, k, prefix, name) : i \in Subdirs(d)}]
  <2>1. c \in 0 .. c
    BY <1>2
  <2>2. G[c] = [cur |-> d, out |-> here \cup UNION {B[s[x]] : x \in 1 .. c}]
    BY <1>6, <2>1
  <2> QED
    BY <1>15, <1>16, <2>2
<1> QED
  BY <1>1, <1>3, <1>10, <1>14, <1>17, ResultParts

\* The recursion of search(): as deep as it goes, it finds what is that deep.
LEMMA FindDoes ==
  ASSUME IInv, NEW name \in Names
  PROVE  FindCommand(name) = Result(cur, Levels, prompt, name)
<1>1. PICK n \in Nat : n = Levels
  BY Constants, FS_CardinalityType DEF Levels
<1>2. PICK row : row = [k \in 0 .. n |->
                         [d \in Dirs |-> [prefix \in Seq(Names) |-> Result(d, k, prefix, name)]]]
  OBVIOUS
<1>3. \A k \in 0 .. n : Searches(row[k], k, name)
  BY <1>2 DEF Searches
<1>4. ASSUME NEW k \in 0 .. n, NEW d \in Dirs, NEW prefix \in Seq(Names)
      PROVE  Result(d, k, prefix, name) =
               IF k = 0 THEN [cur |-> d, out |-> {}]
               ELSE SearchFrom(row[k - 1], d, prefix, name)
  <2>1. CASE k = 0
    BY <2>1, HitsNone DEF Result
  <2>2. CASE k # 0
    <3>1. PICK j \in Nat : j = k - 1 /\ j + 1 = k /\ j \in 0 .. n
      BY <2>2
    <3>2. Searches(row[j], j, name)
      BY <1>3, <3>1
    <3>3. SearchFrom(row[j], d, prefix, name) = Result(d, j + 1, prefix, name)
      BY <3>2, SearchFromDoes
    <3> QED
      BY <2>2, <3>1, <3>3
  <2> QED
    BY <2>1, <2>2
<1>5. row = [k \in 0 .. Levels |-> [d \in Dirs |-> [prefix \in Seq(Names) |->
               IF k = 0 THEN [cur |-> d, out |-> {}]
               ELSE SearchFrom(row[k - 1], d, prefix, name)]]]
  <2>1. row = [k \in 0 .. n |-> [d \in Dirs |-> [prefix \in Seq(Names) |->
                 IF k = 0 THEN [cur |-> d, out |-> {}]
                 ELSE SearchFrom(row[k - 1], d, prefix, name)]]]
    BY <1>2, <1>4
  <2> QED
    BY <1>1, <2>1
<1> DEFINE search[k \in 0 .. Levels] ==
             [d \in Dirs |-> [prefix \in Seq(Names) |->
                IF k = 0 THEN [cur |-> d, out |-> {}]
                ELSE SearchFrom(search[k - 1], d, prefix, name)]]
<1>6. FindCommand(name) = search[Levels][cur][prompt]
  BY DEF FindCommand
<1>7. search = [k \in 0 .. Levels |-> [d \in Dirs |-> [prefix \in Seq(Names) |->
                  IF k = 0 THEN [cur |-> d, out |-> {}]
                  ELSE SearchFrom(search[k - 1], d, prefix, name)]]]
  BY <1>5, Zenon
<1> HIDE DEF search
<1> DEFINE T == {k \in 0 .. n : search[k] = row[k]}
<1>8. 0 \in T
  BY <1>1, <1>5, <1>7
<1>9. ASSUME NEW k \in 0 .. n - 1, k \in T PROVE k + 1 \in T
  <2>1. k + 1 \in 0 .. n /\ k + 1 # 0 /\ k + 1 - 1 = k /\ search[k] = row[k]
    BY <1>9
  <2>2. search[k + 1] = [d \in Dirs |-> [prefix \in Seq(Names) |->
           SearchFrom(search[k], d, prefix, name)]]
    <3>1. PICK m \in 0 .. n : m = k + 1 /\ m - 1 = k /\ m # 0
      BY <2>1
    <3>2. search[m] = [d \in Dirs |-> [prefix \in Seq(Names) |->
                     IF m = 0 THEN [cur |-> d, out |-> {}]
                     ELSE SearchFrom(search[m - 1], d, prefix, name)]]
      BY <1>1, <1>7
    <3> QED
      BY <3>1, <3>2
  <2>3. row[k + 1] = [d \in Dirs |-> [prefix \in Seq(Names) |->
           SearchFrom(row[k], d, prefix, name)]]
    <3>1. PICK m \in 0 .. n : m = k + 1 /\ m - 1 = k /\ m # 0
      BY <2>1
    <3>2. row[m] = [d \in Dirs |-> [prefix \in Seq(Names) |->
                     IF m = 0 THEN [cur |-> d, out |-> {}]
                     ELSE SearchFrom(row[m - 1], d, prefix, name)]]
      BY <1>1, <1>5
    <3> QED
      BY <3>1, <3>2
  <2> QED
    BY <2>1, <2>2, <2>3
<1>10. search[n] = row[n]
  <2> HIDE DEF T
  <2>1. 0 .. n \subseteq T
    BY <1>8, <1>9, Rise
  <2>2. n \in T
    BY <2>1
  <2> QED
    BY <2>2 DEF T
<1>11. cur \in Dirs /\ prompt \in Seq(Names) /\ n \in 0 .. n
  BY StartIs DEF Dirs
<1> QED
  BY <1>1, <1>2, <1>6, <1>10, <1>11

\* No path to a file is deeper than the search.
LEMMA AllHits ==
  ASSUME IInv, NEW name \in Names
  PROVE  Hits(cur, Levels, name) =
           {q \in PathsBelow : /\ q[Len(q)] = name
                               /\ Leads(kids, cur, q) # NoIno
                               /\ kind[Leads(kids, cur, q)] = "file"}
<1>1. Start.kids = kids /\ Sound(Start) /\ cur \in Inodes
  BY StartIs DEF IInv
<1>2. PICK n \in Nat : n = Cardinality(Inodes)
  BY Constants, FS_CardinalityType
<1>3. ASSUME NEW q \in Seq(Names), Leads(kids, cur, q) # NoIno, Len(q) \in 1 .. n
      PROVE  q \in PathsBelow
  <2>1. Len(q) + 1 <= n
    BY <1>1, <1>2, <1>3, WayShort
  <2>2. PICK k \in 1 .. n - 1 : k = Len(q)
    BY <1>3, <2>1
  <2>3. q \in [1 .. k -> Names]
    BY <2>2
  <2> QED
    BY <1>2, <2>2, <2>3 DEF PathsBelow
<1>4. ASSUME NEW q \in PathsBelow PROVE q \in Seq(Names) /\ Len(q) \in 1 .. n
  <2>1. PICK k \in 1 .. n - 1 : q \in [1 .. k -> Names]
    BY <1>2 DEF PathsBelow
  <2>2. q \in Seq(Names) /\ Len(q) = k
    BY <2>1
  <2> QED
    BY <2>2
<1> QED
  BY <1>2, <1>3, <1>4 DEF Hits, Levels

\* find lists each file of that name in and below the current directory under its path,
\* and nothing else, and comes back to where it began: what search() enters by a name it
\* leaves by "..", and it goes deep enough, because no way down comes back.
THEOREM FindsAll == Spec => []FindTrue
<1>1. IInv => FindTrue
  <2> SUFFICES ASSUME IInv, NEW name \in Names
               PROVE  /\ FindCommand(name).out =
                           {prompt \o p : p \in
                             {q \in PathsBelow : /\ q[Len(q)] = name
                                                 /\ Leads(kids, cur, q) # NoIno
                                                 /\ kind[Leads(kids, cur, q)] = "file"}}
                      /\ FindCommand(name).cur = cur
    BY DEF FindTrue
  <2> QED
    BY FindDoes, AllHits DEF Result
<1> QED
  BY <1>1, InitInv, NextInv, PTL DEF Spec
===============================================================================
