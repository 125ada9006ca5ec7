-------------------------- MODULE DirectoriesProofs --------------------------
(***************************************************************************)
(* For every number of names and inodes: the copies of the entries that    *)
(* Directories keeps act as one tree, which implements NameTree, as long   *)
(* as a directory with all the names fits in its block and no directory    *)
(* with contents is removed.                                               *)
(***************************************************************************)
EXTENDS Directories, TLAPS, FiniteSetTheorems, SequenceTheorems, WellFoundedInduction

-----------------------------------------------------------------------------
(***************************************************************************)
(* The inductive invariant.                                                *)
(***************************************************************************)

Most == Cardinality(Names) + 2

\* The hypothesis of the theorems.
Fits ==
  /\ IsFiniteSet(Names) /\ Most <= DIRENTS /\ Most <= DIRNUM
  /\ "full" \notin Removed

DirRecord == [name : Names \cup {".", ".."}, ino : Inodes \cup {NoIno}]

\* The list of directory d: live entries have different names, and one entry at
\* most is empty.
ListOK(d, s) ==
  /\ s \in Seq(DirRecord) /\ Len(s) \in 2 .. Most
  /\ s[1] = Entry(".", d) /\ s[2].name = ".." /\ s[2].ino # NoIno
  /\ \A x \in 3 .. Len(s) : s[x].name \in Names
  /\ \A x, y \in 3 .. Len(s) : s[x].ino = NoIno /\ s[y].ino = NoIno => x = y
  /\ \A x, y \in 3 .. Len(s) :
       s[x].ino # NoIno /\ s[y].ino # NoIno /\ s[x].name = s[y].name => x = y

\* The copies: a directory other than the current one is whole in its block, and
\* not different in m_dir_cache.
CopiesInv ==
  /\ kind \in [Inodes -> {"free", "file", "dir"}]
  /\ cur \in Dirs /\ Root \in Dirs
  /\ cache \in [Inodes -> Seq(DirRecord)] /\ block \in [Inodes -> Seq(DirRecord)]
  /\ \A i \in Inodes : Len(cache[i]) <= Most /\ Len(block[i]) <= Most
  /\ ListOK(cur, ents)
  /\ \A d \in Dirs \ {cur} : ListOK(d, block[d]) /\ cache[d] \in {Uncached, block[d]}

\* What is listed in each inode, E, is a tree of directories D in which U gives the
\* parent of each: everything but the root is listed once.
Links == [name : Names, ino : Inodes]

TreeOK(k, D, E, U) ==
  /\ Root \in D
  /\ \A d \in Inodes : E[d] \in SUBSET Links /\ (d \notin D => E[d] = {})
  /\ \A d, f \in Inodes : \A e \in E[d], g \in E[f] : e.ino = g.ino => d = f /\ e = g
  /\ \A i \in Inodes : k[i] # "free" /\ i # Root <=> \E d \in D : \E e \in E[d] : e.ino = i
  /\ U[Root] = Root /\ \A d \in D : U[d] \in D
  /\ \A d \in D : \A e \in E[d] : e.ino \in D => U[e.ino] = d

\* The directories on the way from d to the root, A[d], are one more than on the
\* way from its parent; each of them but d has a child on the way.
Ways(D, U, A) ==
  /\ A \in [D -> SUBSET D] /\ A[Root] = {Root}
  /\ \A d \in D \ {Root} : A[d] = A[U[d]] \cup {d} /\ d \notin A[U[d]]
  /\ \A d \in D : \A e \in A[d] \ {d} : \E c \in A[d] \ {Root} : U[c] = e

Entries == [d \in Inodes |-> IF kind[d] = "dir" THEN Listing(d) ELSE {}]
Ups == [d \in Dirs |-> Seen(d)[2].ino]

TreeInv ==
  /\ TreeOK(kind, Dirs, Entries, Ups)
  /\ \E A : Ways(Dirs, Ups, A)

IInv == CopiesInv /\ TreeInv

-----------------------------------------------------------------------------
(***************************************************************************)
(* Lists of entries.                                                       *)
(***************************************************************************)

\* A set of numbers that is not empty has a least element: what First chooses.
LEMMA FirstIsLeast ==
  ASSUME NEW S \in SUBSET Nat, S # {}
  PROVE  First(S) \in S /\ \A y \in S : First(S) <= y
<1>1. IsWellFoundedOn(OpToRel(<, Nat), Nat)
  BY NatLessThanWellFounded
<1>2. PICK x \in S : \A y \in S : ~(<<y, x>> \in OpToRel(<, Nat))
  BY <1>1, WFMin
<1>3. \A y \in S : ~(y < x)
  BY <1>2 DEF OpToRel
<1>4. \A y \in S : x <= y
  BY <1>3
<1> QED
  BY <1>4, Zenon DEF First

LEMMA Constants ==
  /\ Root \in Inodes /\ NoIno \notin Inodes /\ IsFiniteSet(Inodes)
  /\ "." \notin Names /\ ".." \notin Names /\ "." # ".."
  /\ DIRENTS \in Nat /\ DIRNUM \in Nat /\ DIRENTS >= 2 /\ DIRNUM >= 2
  /\ Fits => Most \in Nat /\ Most >= 2 /\ Most <= DIRENTS /\ Most <= DIRNUM
<1>1. Fits => Cardinality(Names) \in Nat
  BY FS_CardinalityType DEF Fits
<1> QED
  BY <1>1, DirectoriesAssumption DEF Fits, Most

LEMMA ListTyped ==
  ASSUME NEW d, NEW s, ListOK(d, s), Fits
  PROVE  /\ s \in Seq(DirRecord) /\ Len(s) \in Nat /\ Len(s) >= 2 /\ Len(s) <= Most
         /\ DOMAIN s = 1 .. Len(s) /\ s # Uncached
         /\ \A x \in 1 .. Len(s) : s[x] \in DirRecord
<1>1. s \in Seq(DirRecord) /\ Len(s) \in 2 .. Most
  BY DEF ListOK
<1>2. Len(s) \in Nat /\ Len(s) >= 2 /\ Len(s) <= Most
  BY <1>1, Constants
<1>3. s # << >>
  BY <1>2
<1> QED
  BY <1>1, <1>2, <1>3, LenProperties, ElementOfSeq DEF Uncached

\* A list that fits is stored whole.
LEMMA StoredWhole ==
  ASSUME Fits, NEW d, NEW s, ListOK(d, s)
  PROVE  Stored(s) = s
<1>1. /\ s \in Seq(DirRecord) /\ Len(s) \in Nat /\ Len(s) >= 2 /\ Len(s) <= DIRENTS
      /\ DIRENTS \in Nat
      /\ \A x \in 1 .. Len(s) : s[x] \in DirRecord
  BY ListTyped, Constants
<1>2. Stored(s) = SubSeq(s, 1, Len(s))
  <2>1. (IF Len(s) < DIRENTS THEN Len(s) ELSE DIRENTS) = Len(s)
    BY <1>1
  <2> QED
    BY <2>1 DEF Stored
<1>3. PICK q : q = SubSeq(s, 1, Len(s))
  OBVIOUS
<1>4. /\ q \in Seq(DirRecord)
      /\ Len(q) = IF 1 <= Len(s) THEN Len(s) - 1 + 1 ELSE 0
      /\ \A y \in 1 .. Len(s) - 1 + 1 : q[y] = s[1 + y - 1]
  <2>1. 1 \in Int /\ Len(s) \in Int /\ \A x \in 1 .. Len(s) : s[x] \in DirRecord
    BY <1>1
  <2> QED
    BY <1>3, <2>1, SubSeqProperties
<1>5. Len(q) = Len(s) /\ \A y \in 1 .. Len(s) : q[y] = s[y]
  BY <1>1, <1>4
<1>6. q = s
  BY <1>1, <1>4, <1>5, SeqEqual
<1> QED
  BY <1>2, <1>3, <1>6

\* The lists mkdir() and format() make.
LEMMA DotsOK ==
  ASSUME Fits, NEW i \in Inodes, NEW j \in Inodes
  PROVE  /\ ListOK(i, Dots(i, j)) /\ Dots(i, j)[2].ino = j
         /\ Len(Dots(i, j)) = 2
<1>1. PICK s : s = Dots(i, j)
  OBVIOUS
<1>2. s = <<Entry(".", i), Entry("..", j)>>
  BY <1>1 DEF Dots
<1>3. Entry(".", i) \in DirRecord /\ Entry("..", j) \in DirRecord
  BY DEF Entry, DirRecord
<1>4. /\ s \in Seq(DirRecord) /\ Len(s) = 2
      /\ s[1] = Entry(".", i) /\ s[2] = Entry("..", j)
  BY <1>2, <1>3
<1>5. /\ Len(s) \in 2 .. Most
      /\ 3 .. Len(s) = {}
  BY <1>4, Constants
<1>6. s[2].name = ".." /\ s[2].ino = j /\ j # NoIno
  BY <1>4, Constants DEF Entry
<1>7. ListOK(i, s)
  BY <1>4, <1>5, <1>6 DEF ListOK
<1> QED
  BY <1>1, <1>4, <1>6, <1>7

\* The place iname() chooses and what it leaves there.
LEMMA NamedEffect ==
  ASSUME Fits, NEW d, ListOK(d, ents), NEW n \in Names, NEW p, p = Iname + 1
  PROVE  /\ Iname = 0 =>
              /\ p = 1 /\ Named(n) = ents
              /\ Len(ents) = DIRNUM
              /\ \A x \in 3 .. Len(ents) : ents[x].ino # NoIno
         /\ Iname # 0 =>
              /\ p \in 3 .. DIRNUM
              /\ Named(n) \in Seq(DirRecord)
              /\ Len(Named(n)) \in 2 .. DIRNUM
              /\ p \in 3 .. Len(Named(n))
              /\ Named(n)[p] = Entry(n, NoIno)
              /\ \A x \in 1 .. Len(ents) : x # p => Named(n)[x] = ents[x]
              /\ \/ Len(Named(n)) = Len(ents) /\ p \in 3 .. Len(ents) /\ ents[p].ino = NoIno
                 \/ /\ Len(Named(n)) = Len(ents) + 1 /\ p = Len(ents) + 1
                    /\ \A x \in 3 .. Len(ents) : ents[x].ino # NoIno
<1> DEFINE places == {s \in 2 .. DIRNUM - 1 : s >= Len(ents) \/ ents[s + 1].ino = NoIno}
<1>1. Iname = IF places = {} THEN 0 ELSE First(places)
  BY DEF Iname
<1>2. places \in SUBSET Nat
  BY Constants
<1>3. /\ ents \in Seq(DirRecord) /\ Len(ents) \in Nat /\ Len(ents) >= 2 /\ Len(ents) <= DIRNUM
      /\ DIRNUM \in Nat
      /\ \A x \in 1 .. Len(ents) : ents[x] \in DirRecord
  BY ListTyped, Constants
<1>4. ASSUME Iname = 0
      PROVE  /\ p = 1 /\ Named(n) = ents /\ Len(ents) = DIRNUM
             /\ \A x \in 3 .. Len(ents) : ents[x].ino # NoIno
  <2>1. places = {}
    <3>1. ASSUME places # {} PROVE FALSE
      <4>1. First(places) \in places
        BY <1>2, <3>1, FirstIsLeast
      <4> QED
        BY <1>1, <1>4, <3>1, <4>1
    <3> QED
      BY <3>1
  <2>2. \A s \in 2 .. DIRNUM - 1 : ~(s >= Len(ents) \/ ents[s + 1].ino = NoIno)
    BY <2>1
  <2>3. Len(ents) = DIRNUM
    <3>1. ASSUME Len(ents) # DIRNUM PROVE FALSE
      <4>1. Len(ents) \in 2 .. DIRNUM - 1 /\ Len(ents) >= Len(ents)
        BY <1>3, <3>1
      <4> QED
        BY <2>2, <4>1
    <3> QED
      BY <3>1
  <2>4. \A x \in 3 .. Len(ents) : ents[x].ino # NoIno
    <3>1. ASSUME NEW x \in 3 .. Len(ents) PROVE ents[x].ino # NoIno
      <4>1. x - 1 \in 2 .. DIRNUM - 1 /\ x - 1 + 1 = x
        BY <1>3
      <4> QED
        BY <2>2, <4>1
    <3> QED
      BY <3>1
  <2> QED
    BY <1>4, <2>3, <2>4 DEF Named
<1>5. ASSUME Iname # 0
      PROVE  /\ p \in 3 .. DIRNUM
             /\ Named(n) \in Seq(DirRecord)
             /\ Len(Named(n)) \in 2 .. DIRNUM
             /\ p \in 3 .. Len(Named(n))
             /\ Named(n)[p] = Entry(n, NoIno)
             /\ \A x \in 1 .. Len(ents) : x # p => Named(n)[x] = ents[x]
             /\ \/ Len(Named(n)) = Len(ents) /\ p \in 3 .. Len(ents) /\ ents[p].ino = NoIno
                \/ /\ Len(Named(n)) = Len(ents) + 1 /\ p = Len(ents) + 1
                   /\ \A x \in 3 .. Len(ents) : ents[x].ino # NoIno
  <2>1. Iname \in places /\ \A y \in places : Iname <= y
    BY <1>1, <1>2, <1>5, FirstIsLeast
  <2>2. Iname \in 2 .. DIRNUM - 1 /\ (Iname >= Len(ents) \/ ents[p].ino = NoIno)
    BY <2>1
  <2>3. p \in 3 .. DIRNUM /\ p - 1 = Iname
    BY <1>3, <2>2
  <2>4. Iname <= Len(ents)
    <3>1. CASE Len(ents) = DIRNUM
      BY <1>3, <2>2, <3>1
    <3>2. CASE Len(ents) # DIRNUM
      <4>1. Len(ents) \in 2 .. DIRNUM - 1 /\ Len(ents) >= Len(ents)
        BY <1>3, <3>2
      <4> QED
        BY <2>1, <4>1
    <3> QED
      BY <3>1, <3>2
  <2>5. PICK e : e = Entry(n, NoIno)
    OBVIOUS
  <2>6. e \in DirRecord
    BY <2>5 DEF Entry, DirRecord
  <2>7. CASE Iname >= Len(ents)
    <3>1. Named(n) = Append(ents, e) /\ Iname = Len(ents)
      BY <1>3, <1>5, <2>2, <2>4, <2>5, <2>7 DEF Named
    <3>2. \A x \in 3 .. Len(ents) : ents[x].ino # NoIno
      <4>1. ASSUME NEW x \in 3 .. Len(ents), ents[x].ino = NoIno PROVE FALSE
        <5>1. x - 1 \in 2 .. DIRNUM - 1 /\ x - 1 + 1 = x
          BY <1>3
        <5>2. x - 1 \in places
          BY <4>1, <5>1
        <5>3. Iname <= x - 1
          BY <2>1, <5>2
        <5>4. x \in Int /\ x <= Len(ents)
          BY <1>3
        <5> HIDE DEF places
        <5> QED
          BY <1>3, <3>1, <5>3, <5>4
      <4> QED
        BY <4>1
    <3>3. /\ Named(n) \in Seq(DirRecord) /\ Len(Named(n)) = Len(ents) + 1
          /\ \A x \in 1 .. Len(ents) : Named(n)[x] = ents[x]
          /\ Named(n)[Len(ents) + 1] = e
      BY <1>3, <2>6, <3>1, AppendProperties
    <3>4. p = Len(ents) + 1 /\ Len(ents) + 1 \in 3 .. DIRNUM
      BY <1>3, <2>3, <3>1
    <3>5. Len(Named(n)) \in 2 .. DIRNUM /\ p \in 3 .. Len(Named(n)) /\ Named(n)[p] = e
      BY <1>3, <3>3, <3>4
    <3> QED
      BY <2>3, <2>5, <3>2, <3>3, <3>4, <3>5
  <2>8. CASE ~(Iname >= Len(ents))
    <3>1. Named(n) = [ents EXCEPT ![p].name = n] /\ ents[p].ino = NoIno
      BY <1>5, <2>2, <2>8 DEF Named
    <3>2. p \in 3 .. Len(ents) /\ p \in 1 .. Len(ents)
      BY <1>3, <2>2, <2>3, <2>8
    <3>3. [ents[p] EXCEPT !.name = n] = e
      BY <1>3, <2>5, <3>1, <3>2 DEF Entry, DirRecord
    <3>4. Named(n) = [ents EXCEPT ![p] = e]
      BY <3>1, <3>3
    <3>5. /\ Named(n) \in Seq(DirRecord) /\ Len(Named(n)) = Len(ents)
          /\ \A x \in 1 .. Len(ents) : Named(n)[x] = IF x = p THEN e ELSE ents[x]
      BY <1>3, <2>6, <3>2, <3>4, ExceptSeq
    <3>6. Named(n)[p] = e /\ Len(Named(n)) \in 2 .. DIRNUM /\ p \in 3 .. Len(Named(n))
      BY <1>3, <3>2, <3>5
    <3>7. \A x \in 1 .. Len(ents) : x # p => Named(n)[x] = ents[x]
      BY <3>5
    <3> QED
      BY <2>3, <2>5, <3>1, <3>2, <3>5, <3>6, <3>7
  <2> QED
    BY <2>7, <2>8
<1> QED
  BY <1>4, <1>5

\* While all places are taken and a name is missing, the list is not full.
LEMMA SpaceForNew ==
  ASSUME Fits, NEW d, ListOK(d, ents), NEW n \in Names, ~Exists(n),
         \A x \in 3 .. Len(ents) : ents[x].ino # NoIno
  PROVE  Len(ents) < Most
<1>1. PICK m : m = Len(ents)
  OBVIOUS
<1>2. m \in Nat /\ m >= 2 /\ DOMAIN ents = 1 .. m
  BY <1>1, ListTyped
<1>3. PICK f : f = [x \in 3 .. m |-> ents[x].name]
  OBVIOUS
<1>4. \A x \in 3 .. m : ents[x].name \in Names \ {n}
  <2>1. ASSUME NEW x \in 3 .. m, ents[x].name = n PROVE FALSE
    <3>1. x \in DOMAIN ents
      BY <1>2
    <3>2. x \in Matches(n)
      BY <1>1, <2>1, <3>1 DEF Matches
    <3> QED
      BY <3>2 DEF Exists
  <2> QED
    BY <1>1, <2>1 DEF ListOK
<1>5. f \in [3 .. m -> Names \ {n}]
  BY <1>3, <1>4
<1>6. /\ IsFiniteSet(Names \ {n}) /\ Cardinality(Names \ {n}) = Cardinality(Names) - 1
      /\ Cardinality(Names) \in Nat
  BY FS_RemoveElement, FS_CardinalityType DEF Fits
<1>7. IsFiniteSet(3 .. m) /\ Cardinality(3 .. m) = m - 2
  <2>1. 3 \in Int /\ m \in Int
    BY <1>2
  <2>2. IsFiniteSet(3 .. m) /\ Cardinality(3 .. m) = IF 3 > m THEN 0 ELSE m - 3 + 1
    BY <2>1, FS_Interval
  <2> QED
    BY <1>2, <2>2
<1>8. SUFFICES ASSUME ~(m < Most) PROVE FALSE
  BY <1>1
<1>9. Cardinality(Names \ {n}) < Cardinality(3 .. m)
  BY <1>2, <1>6, <1>7, <1>8 DEF Most
<1>10. PICK x, y \in 3 .. m : x # y /\ f[x] = f[y]
  <2>1. PICK S, T : S = 3 .. m /\ T = Names \ {n}
    OBVIOUS
  <2>2. IsFiniteSet(S) /\ IsFiniteSet(T) /\ Cardinality(T) < Cardinality(S) /\ f \in [S -> T]
    BY <1>5, <1>6, <1>7, <1>9, <2>1
  <2>3. \E x, y \in S : x # y /\ f[x] = f[y]
    BY <2>2, FS_PigeonHole
  <2> QED
    BY <2>1, <2>3
<1>11. ents[x].name = ents[y].name
  BY <1>3, <1>10
<1> QED
  BY <1>1, <1>10, <1>11 DEF ListOK

\* So there is a place for a new name, in the list and in its block.
LEMMA PlaceForNew ==
  ASSUME Fits, NEW d, ListOK(d, ents), NEW n \in Names, ~Exists(n)
  PROVE  Iname # 0 /\ Named(n) \in Seq(DirRecord) /\ Len(Named(n)) \in 2 .. Most
<1>1. PICK p : p = Iname + 1
  OBVIOUS
<1>2. Most \in Nat /\ Most >= 2 /\ Most <= DIRNUM /\ DIRNUM \in Nat
      /\ Len(ents) \in Nat /\ Len(ents) >= 2 /\ Len(ents) <= Most
  BY Constants, ListTyped
<1>3. Iname # 0
  <2>1. ASSUME Iname = 0 PROVE FALSE
    <3>1. Len(ents) = DIRNUM /\ \A x \in 3 .. Len(ents) : ents[x].ino # NoIno
      BY <1>1, <2>1, NamedEffect
    <3>2. Len(ents) < Most
      BY <3>1, SpaceForNew
    <3> QED
      BY <1>2, <3>1, <3>2
  <2> QED
    BY <2>1
<1>4. /\ Named(n) \in Seq(DirRecord) /\ Len(Named(n)) \in 2 .. DIRNUM
      /\ \/ Len(Named(n)) = Len(ents)
         \/ Len(Named(n)) = Len(ents) + 1 /\ \A x \in 3 .. Len(ents) : ents[x].ino # NoIno
  BY <1>1, <1>3, NamedEffect
<1>5. CASE Len(Named(n)) = Len(ents)
  BY <1>2, <1>3, <1>4, <1>5
<1>6. CASE Len(Named(n)) = Len(ents) + 1 /\ \A x \in 3 .. Len(ents) : ents[x].ino # NoIno
  <2>1. Len(ents) < Most
    BY <1>6, SpaceForNew
  <2> QED
    BY <1>2, <1>3, <1>4, <1>6, <2>1
<1> QED
  BY <1>4, <1>5, <1>6

\* What a list shows of the tree: its live entries after "." and "..".
ListingOf(s) == {e \in Live(s) : e.name \notin {".", ".."}}

LEMMA ListingParts ==
  ASSUME Fits, NEW d, NEW s, ListOK(d, s)
  PROVE  /\ ListingOf(s) \in SUBSET Links
         /\ \A x \in 3 .. Len(s) : s[x].ino # NoIno => s[x] \in ListingOf(s)
         /\ \A e \in ListingOf(s) : \E x \in 3 .. Len(s) : s[x].ino # NoIno /\ e = s[x]
         /\ \A e, g \in ListingOf(s) : e.name = g.name => e = g
<1>1. /\ Len(s) \in Nat /\ Len(s) >= 2 /\ DOMAIN s = 1 .. Len(s)
      /\ \A x \in 1 .. Len(s) : s[x] \in DirRecord
  BY ListTyped
<1>2. \A e : e \in ListingOf(s) <=>
        /\ \E x \in 1 .. Len(s) : s[x].ino # NoIno /\ e = s[x]
        /\ e.name # "." /\ e.name # ".."
  BY <1>1 DEF ListingOf, Live
<1>3. /\ s[1].name = "." /\ s[2].name = ".."
      /\ \A x \in 3 .. Len(s) : s[x].name \in Names
  BY DEF ListOK, Entry
<1>4. \A x \in 3 .. Len(s) : s[x].name # "." /\ s[x].name # ".." /\ x \in 1 .. Len(s)
  BY <1>1, <1>3, Constants
<1>5. \A x \in 3 .. Len(s) : s[x].ino # NoIno => s[x] \in ListingOf(s)
  BY <1>2, <1>4
<1>6. ASSUME NEW e \in ListingOf(s)
      PROVE  \E x \in 3 .. Len(s) : s[x].ino # NoIno /\ e = s[x]
  <2>1. PICK x \in 1 .. Len(s) : s[x].ino # NoIno /\ e = s[x]
    BY <1>2
  <2>2. x # 1 /\ x # 2
    BY <1>2, <1>3, <2>1
  <2>3. x \in 3 .. Len(s)
    BY <1>1, <2>2
  <2> QED
    BY <2>1, <2>3
<1>7. ASSUME NEW e \in ListingOf(s) PROVE e \in Links
  <2>1. PICK x \in 3 .. Len(s) : s[x].ino # NoIno /\ e = s[x]
    BY <1>6
  <2>2. s[x] \in DirRecord /\ s[x].name \in Names
    BY <1>1, <1>3, <1>4
  <2> QED
    BY <2>1, <2>2 DEF DirRecord, Links
<1>8. ASSUME NEW e \in ListingOf(s), NEW g \in ListingOf(s), e.name = g.name
      PROVE  e = g
  <2>1. PICK x \in 3 .. Len(s) : s[x].ino # NoIno /\ e = s[x]
    BY <1>6
  <2>2. PICK y \in 3 .. Len(s) : s[y].ino # NoIno /\ g = s[y]
    BY <1>6
  <2>3. x = y
    BY <1>8, <2>1, <2>2 DEF ListOK
  <2> QED
    BY <2>1, <2>2, <2>3
<1> QED
  BY <1>5, <1>6, <1>7, <1>8

\* namei() finds a name when it is listed.
LEMMA FoundListed ==
  ASSUME Fits, NEW d, ListOK(d, ents), NEW n \in Names
  PROVE  /\ Exists(n) => /\ First(Matches(n)) \in 3 .. Len(ents)
                         /\ ents[First(Matches(n))].ino # NoIno
                         /\ ents[First(Matches(n))] = Entry(n, Found(n))
                         /\ Entry(n, Found(n)) \in ListingOf(ents)
                         /\ Found(n) \in Inodes
         /\ ~Exists(n) => \A e \in ListingOf(ents) : e.name # n
<1>1. /\ Len(ents) \in Nat /\ Len(ents) >= 2 /\ DOMAIN ents = 1 .. Len(ents)
      /\ \A x \in 1 .. Len(ents) : ents[x] \in DirRecord
  BY ListTyped
<1>2. ASSUME Exists(n)
      PROVE  /\ First(Matches(n)) \in 3 .. Len(ents)
             /\ ents[First(Matches(n))].ino # NoIno
             /\ ents[First(Matches(n))] = Entry(n, Found(n))
             /\ Entry(n, Found(n)) \in ListingOf(ents)
             /\ Found(n) \in Inodes
  <2>1. Matches(n) \in SUBSET Nat /\ Matches(n) # {}
    BY <1>1, <1>2 DEF Matches, Exists
  <2>2. PICK x : x = First(Matches(n))
    OBVIOUS
  <2>3. x \in 1 .. Len(ents) /\ ents[x].name = n /\ ents[x].ino # NoIno
    BY <1>1, <2>1, <2>2, FirstIsLeast DEF Matches
  <2>4. x # 1 /\ x # 2
    BY <2>3, Constants DEF ListOK, Entry
  <2>5. x \in 3 .. Len(ents)
    BY <1>1, <2>3, <2>4
  <2>6. ents[x] \in DirRecord
    BY <1>1, <2>3
  <2>7. ents[x] = Entry(n, Found(n)) /\ Found(n) \in Inodes
    BY <2>2, <2>3, <2>6 DEF Found, Entry, DirRecord
  <2>8. ents[x] \in ListingOf(ents)
    BY <2>3, <2>5, ListingParts
  <2> QED
    BY <2>2, <2>3, <2>5, <2>7, <2>8
<1>3. ASSUME ~Exists(n), NEW e \in ListingOf(ents) PROVE e.name # n
  <2>1. PICK x \in 3 .. Len(ents) : ents[x].ino # NoIno /\ e = ents[x]
    BY ListingParts
  <2>2. x \in DOMAIN ents
    BY <1>1
  <2> QED
    BY <1>3, <2>1, <2>2 DEF Matches, Exists
<1> QED
  BY <1>2, <1>3

\* The entries "." and ".." are found where they are.
LEMMA FoundDots ==
  ASSUME Fits, NEW d \in Inodes, ListOK(d, ents)
  PROVE  /\ Exists(".") /\ Found(".") = d
         /\ Exists("..") /\ Found("..") = ents[2].ino
<1>1. /\ Len(ents) \in Nat /\ Len(ents) >= 2 /\ DOMAIN ents = 1 .. Len(ents)
      /\ 1 \in DOMAIN ents /\ 2 \in DOMAIN ents
  BY ListTyped
<1>2. /\ ents[1].name = "." /\ ents[1].ino = d /\ d # NoIno
      /\ ents[2].name = ".." /\ ents[2].ino # NoIno
      /\ \A x \in 3 .. Len(ents) : ents[x].name \in Names
  BY Constants DEF ListOK, Entry
<1>3. \A x \in 3 .. Len(ents) : ents[x].name # "." /\ ents[x].name # ".."
  BY <1>2, Constants
<1>4. Matches(".") = {1} /\ Matches("..") = {2}
  BY <1>1, <1>2, <1>3, Constants DEF Matches
<1>5. First({1}) = 1 /\ First({2}) = 2
  BY FirstIsLeast
<1> QED
  BY <1>2, <1>4, <1>5 DEF Exists, Found

\* The place of a new name is filled with inode v, or left without one.
LEMMA EntryWritten ==
  ASSUME Fits, NEW d, ListOK(d, ents), NEW n \in Names, ~Exists(n),
         NEW v \in Inodes \cup {NoIno}, NEW s, NEW p, p = Iname + 1,
         s = [Named(n) EXCEPT ![p].ino = v] \/ (v = NoIno /\ s = Named(n))
  PROVE  /\ s \in Seq(DirRecord) /\ Len(s) \in 2 .. Most
         /\ p \in 3 .. Len(s) /\ s[p] = Entry(n, v)
         /\ Len(ents) <= Len(s)
         /\ p <= Len(ents) => ents[p].ino = NoIno
         /\ p > Len(ents) => \A x \in 3 .. Len(ents) : ents[x].ino # NoIno
         /\ \A x \in 1 .. Len(s) : x # p => x \in 1 .. Len(ents) /\ s[x] = ents[x]
<1>1. /\ Named(n) \in Seq(DirRecord) /\ Len(Named(n)) \in 2 .. Most
      /\ p \in 3 .. Len(Named(n))
      /\ Named(n)[p] = Entry(n, NoIno)
      /\ \A x \in 1 .. Len(ents) : x # p => Named(n)[x] = ents[x]
      /\ \/ Len(Named(n)) = Len(ents) /\ p \in 3 .. Len(ents) /\ ents[p].ino = NoIno
         \/ /\ Len(Named(n)) = Len(ents) + 1 /\ p = Len(ents) + 1
            /\ \A x \in 3 .. Len(ents) : ents[x].ino # NoIno
  BY PlaceForNew, NamedEffect
<1>2. PICK q : q = Named(n)
  OBVIOUS
<1>3. Len(ents) \in Nat /\ Len(q) \in Nat /\ DOMAIN q = 1 .. Len(q) /\ p \in 1 .. Len(q)
  BY <1>1, <1>2, ListTyped, LenProperties
<1>4. PICK e : e = Entry(n, v)
  OBVIOUS
<1>5. e \in DirRecord
  BY <1>4 DEF Entry, DirRecord
<1>6. s = [q EXCEPT ![p] = e]
  <2>1. [q[p] EXCEPT !.ino = v] = e
    BY <1>1, <1>2, <1>4 DEF Entry
  <2>2. CASE s = [q EXCEPT ![p].ino = v]
    BY <2>1, <2>2
  <2>3. CASE v = NoIno /\ s = q
    <3>1. q[p] = e
      BY <1>1, <1>2, <1>4, <2>3
    <3>2. q \in [1 .. Len(q) -> DirRecord]
      BY <1>1, <1>2, LenProperties
    <3> QED
      BY <1>3, <2>3, <3>1, <3>2
  <2> QED
    BY <1>2, <2>2, <2>3
<1>7. /\ s \in Seq(DirRecord) /\ Len(s) = Len(q)
      /\ \A x \in 1 .. Len(q) : s[x] = IF x = p THEN e ELSE q[x]
  <2>1. q \in Seq(DirRecord)
    BY <1>1, <1>2
  <2> QED
    BY <1>3, <1>5, <1>6, <2>1, ExceptSeq
<1>8. s[p] = e /\ p \in 3 .. Len(s) /\ Len(s) \in 2 .. Most
  BY <1>1, <1>2, <1>3, <1>7
<1>a. \/ Len(q) = Len(ents) /\ p \in 3 .. Len(ents) /\ ents[p].ino = NoIno
      \/ Len(q) = Len(ents) + 1 /\ p = Len(ents) + 1
  BY <1>1, <1>2
<1>b. Len(ents) <= Len(q) /\ (p <= Len(ents) => ents[p].ino = NoIno)
      /\ \A x \in 1 .. Len(q) : x # p => x \in 1 .. Len(ents)
  <2>1. PICK k, m, r : k = Len(q) /\ m = Len(ents) /\ r = p
    OBVIOUS
  <2>2. k \in Nat /\ m \in Nat /\ r \in 1 .. k /\ (k = m \/ (k = m + 1 /\ r = m + 1))
    BY <1>3, <1>a, <2>1
  <2>3. m <= k /\ (\A x \in 1 .. k : x # r => x \in 1 .. m) /\ (k # m => ~(r <= m))
    BY <2>2
  <2> QED
    BY <1>a, <2>1, <2>3
<1>9. \A x \in 1 .. Len(s) : x # p => x \in 1 .. Len(ents) /\ s[x] = ents[x]
  <2>1. \A x \in 1 .. Len(ents) : x # p => q[x] = ents[x]
    BY <1>1, <1>2
  <2> QED
    BY <1>7, <1>b, <2>1
<1>10. Len(ents) <= Len(s) /\ (p <= Len(ents) => ents[p].ino = NoIno)
  BY <1>7, <1>b
<1>11. p > Len(ents) => \A x \in 3 .. Len(ents) : ents[x].ino # NoIno
  BY <1>1, <1>3
<1> QED
  BY <1>4, <1>7, <1>8, <1>9, <1>10, <1>11

\* The list stays in order, and shows the new entry if it got an inode.
LEMMA EntryMade ==
  ASSUME Fits, NEW d, ListOK(d, ents), NEW n \in Names, ~Exists(n),
         NEW v \in Inodes \cup {NoIno}, NEW s,
         s = [Named(n) EXCEPT ![Iname + 1].ino = v] \/ (v = NoIno /\ s = Named(n))
  PROVE  /\ ListOK(d, s) /\ s[2] = ents[2]
         /\ ListingOf(s) = ListingOf(ents) \cup (IF v = NoIno THEN {} ELSE {Entry(n, v)})
<1>1. PICK p : p = Iname + 1
  OBVIOUS
<1>2. /\ s \in Seq(DirRecord) /\ Len(s) \in 2 .. Most
      /\ p \in 3 .. Len(s) /\ s[p] = Entry(n, v)
      /\ Len(ents) <= Len(s)
      /\ p <= Len(ents) => ents[p].ino = NoIno
      /\ p > Len(ents) => \A x \in 3 .. Len(ents) : ents[x].ino # NoIno
      /\ \A x \in 1 .. Len(s) : x # p => x \in 1 .. Len(ents) /\ s[x] = ents[x]
  BY <1>1, EntryWritten
<1>3. /\ Len(ents) \in Nat /\ Len(ents) >= 2 /\ Len(s) \in Nat /\ Len(s) >= 2
      /\ p \in Nat /\ p >= 3
  BY <1>2, ListTyped, LenProperties
<1>4. s[p].name = n /\ s[p].ino = v
  BY <1>2 DEF Entry
<1>5. s[1] = ents[1] /\ s[2] = ents[2]
  BY <1>2, <1>3
<1>6. \A x \in 3 .. Len(s) : x # p => x \in 3 .. Len(ents) /\ s[x] = ents[x]
  BY <1>2, <1>3
<1>7. ASSUME NEW x \in 3 .. Len(s), x # p, s[x].ino = NoIno PROVE FALSE
  <2>1. x \in 3 .. Len(ents) /\ ents[x].ino = NoIno
    BY <1>6, <1>7
  <2>2. p \in 3 .. Len(ents) /\ ents[p].ino = NoIno
    BY <1>2, <1>3, <2>1
  <2>3. x = p
    BY <2>1, <2>2 DEF ListOK
  <2> QED
    BY <1>7, <2>3
<1>8. ASSUME NEW x \in 3 .. Len(s), x # p, s[x].name = n PROVE FALSE
  <2>1. x \in 3 .. Len(ents) /\ ents[x].name = n /\ ents[x].ino # NoIno
    BY <1>6, <1>7, <1>8
  <2>2. ents[x] \in ListingOf(ents)
    BY <2>1, ListingParts
  <2> QED
    BY <2>1, <2>2, FoundListed
<1>9. ListOK(d, s)
  <2>1. \A x \in 3 .. Len(s) : s[x].name \in Names
    BY <1>4, <1>6 DEF ListOK
  <2>2. \A x, y \in 3 .. Len(s) : s[x].ino = NoIno /\ s[y].ino = NoIno => x = y
    BY <1>7
  <2>3. ASSUME NEW x \in 3 .. Len(s), NEW y \in 3 .. Len(s),
               s[x].ino # NoIno, s[y].ino # NoIno, s[x].name = s[y].name
        PROVE  x = y
    <3>1. CASE x = p
      BY <1>4, <1>8, <2>3, <3>1
    <3>2. CASE y = p
      BY <1>4, <1>8, <2>3, <3>2
    <3>3. CASE x # p /\ y # p
      BY <1>6, <2>3, <3>3 DEF ListOK
    <3> QED
      BY <3>1, <3>2, <3>3
  <2>4. s[1] = Entry(".", d) /\ s[2].name = ".." /\ s[2].ino # NoIno
    BY <1>5 DEF ListOK
  <2> QED
    BY <1>2, <2>1, <2>2, <2>3, <2>4 DEF ListOK
<1>10. ASSUME NEW e \in ListingOf(s)
       PROVE  e \in ListingOf(ents) \/ (v # NoIno /\ e = Entry(n, v))
  <2>1. PICK x \in 3 .. Len(s) : s[x].ino # NoIno /\ e = s[x]
    BY <1>9, <1>10, ListingParts
  <2>2. CASE x = p
    BY <1>2, <1>4, <2>1, <2>2
  <2>3. CASE x # p
    BY <1>6, <2>1, <2>3, ListingParts
  <2> QED
    BY <2>2, <2>3
<1>11. ASSUME NEW e \in ListingOf(ents) PROVE e \in ListingOf(s)
  <2>1. PICK x \in 3 .. Len(ents) : ents[x].ino # NoIno /\ e = ents[x]
    BY <1>11, ListingParts
  <2>2. x \in 3 .. Len(s) /\ x \in 1 .. Len(s) /\ x # p
    BY <1>2, <1>3, <2>1
  <2>3. s[x] = e
    BY <1>2, <2>1, <2>2
  <2> QED
    BY <1>9, <2>1, <2>2, <2>3, ListingParts
<1>12. v # NoIno => Entry(n, v) \in ListingOf(s)
  BY <1>2, <1>4, <1>9, ListingParts
<1> QED
  BY <1>5, <1>9, <1>10, <1>11, <1>12

\* The entries after the one that goes move up.
LEMMA WithoutEffect ==
  ASSUME Fits, NEW d, ListOK(d, ents), NEW x \in 3 .. Len(ents)
  PROVE  /\ Without(x) \in Seq(DirRecord) /\ Len(Without(x)) = Len(ents) - 1
         /\ \A y \in 1 .. Len(ents) - 1 :
              Without(x)[y] = IF y < x THEN ents[y] ELSE ents[y + 1]
<1>1. /\ ents \in Seq(DirRecord) /\ Len(ents) \in Nat
      /\ \A y \in 1 .. Len(ents) : ents[y] \in DirRecord
  BY ListTyped
<1>2. PICK s, t : s = SubSeq(ents, 1, x - 1) /\ t = SubSeq(ents, x + 1, Len(ents))
  OBVIOUS
<1>3. /\ s \in Seq(DirRecord) /\ Len(s) = x - 1
      /\ \A y \in 1 .. x - 1 : s[y] = ents[y]
  <2>1. \A y \in 1 .. x - 1 : ents[y] \in DirRecord
    BY <1>1
  <2>2. 1 \in Int /\ x - 1 \in Int /\ 1 <= x - 1
    BY <1>1
  <2>3. /\ SubSeq(ents, 1, x - 1) \in Seq(DirRecord)
        /\ Len(SubSeq(ents, 1, x - 1)) = IF 1 <= x - 1 THEN x - 1 - 1 + 1 ELSE 0
        /\ \A y \in 1 .. x - 1 - 1 + 1 : SubSeq(ents, 1, x - 1)[y] = ents[1 + y - 1]
    BY <2>1, <2>2, SubSeqProperties
  <2> QED
    BY <1>2, <2>2, <2>3
<1>4. /\ t \in Seq(DirRecord) /\ Len(t) = Len(ents) - x
      /\ \A y \in 1 .. Len(ents) - x : t[y] = ents[x + y]
  <2>1. \A y \in x + 1 .. Len(ents) : ents[y] \in DirRecord
    BY <1>1
  <2>2. x + 1 \in Int /\ Len(ents) \in Int /\ x <= Len(ents)
    BY <1>1
  <2>3. /\ SubSeq(ents, x + 1, Len(ents)) \in Seq(DirRecord)
        /\ Len(SubSeq(ents, x + 1, Len(ents))) =
             IF x + 1 <= Len(ents) THEN Len(ents) - (x + 1) + 1 ELSE 0
        /\ \A y \in 1 .. Len(ents) - (x + 1) + 1 :
             SubSeq(ents, x + 1, Len(ents))[y] = ents[x + 1 + y - 1]
    BY <2>1, <2>2, SubSeqProperties
  <2> QED
    BY <1>2, <2>2, <2>3
<1>5. Without(x) = s \o t
  BY <1>2 DEF Without
<1>6. /\ s \o t \in Seq(DirRecord) /\ Len(s \o t) = Len(s) + Len(t)
      /\ \A y \in 1 .. Len(s) + Len(t) :
           (s \o t)[y] = IF y <= Len(s) THEN s[y] ELSE t[y - Len(s)]
  BY <1>3, <1>4, ConcatProperties
<1>7. Len(s) + Len(t) = Len(ents) - 1
  BY <1>1, <1>3, <1>4
<1>8. ASSUME NEW y \in 1 .. Len(ents) - 1
      PROVE  (s \o t)[y] = IF y < x THEN ents[y] ELSE ents[y + 1]
  <2>1. (s \o t)[y] = IF y <= Len(s) THEN s[y] ELSE t[y - Len(s)]
    BY <1>6, <1>7
  <2>2. CASE y < x
    <3>1. y <= Len(s) /\ y \in 1 .. x - 1
      BY <1>3, <2>2
    <3> QED
      BY <1>3, <2>1, <2>2, <3>1
  <2>3. CASE ~(y < x)
    <3>1. ~(y <= Len(s)) /\ y - Len(s) \in 1 .. Len(ents) - x /\ x + (y - Len(s)) = y + 1
      BY <1>1, <1>3, <2>3
    <3> QED
      BY <1>4, <2>1, <2>3, <3>1
  <2> QED
    BY <2>2, <2>3
<1> QED
  BY <1>5, <1>6, <1>7, <1>8

\* The list stays in order, and shows the entry no more.
LEMMA EntryGone ==
  ASSUME Fits, NEW d, ListOK(d, ents), NEW n \in Names, Exists(n),
         NEW s, s = Without(First(Matches(n)))
  PROVE  /\ ListOK(d, s) /\ s[2] = ents[2]
         /\ ListingOf(s) = ListingOf(ents) \ {Entry(n, Found(n))}
<1>1. PICK x : x = First(Matches(n))
  OBVIOUS
<1>2. /\ x \in 3 .. Len(ents) /\ ents[x].ino # NoIno /\ ents[x] = Entry(n, Found(n))
  BY <1>1, FoundListed
<1>3. Len(ents) \in Nat /\ Len(ents) >= 2 /\ Len(ents) <= Most /\ x \in Nat /\ x >= 3
      /\ Most \in Nat
  BY <1>2, ListTyped, Constants
<1>4. /\ s \in Seq(DirRecord) /\ Len(s) = Len(ents) - 1
      /\ \A y \in 1 .. Len(ents) - 1 : s[y] = IF y < x THEN ents[y] ELSE ents[y + 1]
  BY <1>1, <1>2, WithoutEffect
<1>5. s[1] = ents[1] /\ s[2] = ents[2] /\ Len(s) \in 2 .. Most
  <2>1. 1 \in 1 .. Len(ents) - 1 /\ 2 \in 1 .. Len(ents) - 1 /\ 1 < x /\ 2 < x
    BY <1>2, <1>3
  <2> QED
    BY <1>3, <1>4, <2>1
<1> DEFINE old(y) == IF y < x THEN y ELSE y + 1
<1>6. ASSUME NEW y \in 3 .. Len(s)
      PROVE  old(y) \in 3 .. Len(ents) /\ old(y) # x /\ s[y] = ents[old(y)]
  BY <1>3, <1>4
<1>7. \A y, z \in 3 .. Len(s) : old(y) = old(z) => y = z
  BY <1>3, <1>4
<1> HIDE DEF old
<1>8. ListOK(d, s)
  <2>1. \A y \in 3 .. Len(s) : s[y].name \in Names
    BY <1>6 DEF ListOK
  <2>2. ASSUME NEW y \in 3 .. Len(s), NEW z \in 3 .. Len(s),
               \/ s[y].ino = NoIno /\ s[z].ino = NoIno
               \/ s[y].ino # NoIno /\ s[z].ino # NoIno /\ s[y].name = s[z].name
        PROVE  y = z
    <3>1. old(y) = old(z)
      BY <1>6, <2>2 DEF ListOK
    <3> QED
      BY <1>7, <3>1
  <2>3. s[1] = Entry(".", d) /\ s[2].name = ".." /\ s[2].ino # NoIno
    BY <1>5 DEF ListOK
  <2> QED
    BY <1>4, <1>5, <2>1, <2>2, <2>3 DEF ListOK
<1>9. ASSUME NEW e \in ListingOf(s)
      PROVE  e \in ListingOf(ents) /\ e # Entry(n, Found(n))
  <2>1. PICK y \in 3 .. Len(s) : s[y].ino # NoIno /\ e = s[y]
    BY <1>8, ListingParts
  <2>2. PICK z : z = old(y)
    OBVIOUS
  <2>3. z \in 3 .. Len(ents) /\ z # x /\ ents[z] = e /\ ents[z].ino # NoIno
    BY <1>6, <2>1, <2>2
  <2>4. ents[z].name # ents[x].name
    BY <1>2, <2>3 DEF ListOK
  <2>5. e # ents[x]
    BY <2>3, <2>4
  <2> QED
    BY <1>2, <2>3, <2>5, ListingParts
<1>10. ASSUME NEW e \in ListingOf(ents), e # Entry(n, Found(n)) PROVE e \in ListingOf(s)
  <2>1. PICK z \in 3 .. Len(ents) : ents[z].ino # NoIno /\ e = ents[z]
    BY ListingParts
  <2>2. z # x
    BY <1>2, <1>10, <2>1
  <2>3. PICK y : y = IF z < x THEN z ELSE z - 1
    OBVIOUS
  <2>4. y \in 3 .. Len(s) /\ y \in 1 .. Len(ents) - 1
        /\ (IF y < x THEN ents[y] ELSE ents[y + 1]) = ents[z]
    <3>1. z \in Nat /\ z >= 3 /\ z <= Len(ents) /\ x <= Len(ents)
      BY <1>2, <1>3, <2>1
    <3>2. CASE z < x
      BY <1>3, <1>4, <2>3, <3>1, <3>2
    <3>3. CASE ~(z < x)
      <4>1. y \in Nat /\ y >= 3 /\ y <= Len(ents) - 1 /\ ~(y < x) /\ y + 1 = z
        BY <1>3, <2>2, <2>3, <3>1, <3>3
      <4> QED
        BY <1>3, <1>4, <4>1
    <3> QED
      BY <3>2, <3>3
  <2>5. s[y] = ents[z]
    BY <1>4, <2>4
  <2> QED
    BY <1>8, <2>1, <2>4, <2>5, ListingParts
<1> QED
  BY <1>5, <1>8, <1>9, <1>10

-----------------------------------------------------------------------------
(***************************************************************************)
(* The tree, apart from the lists.                                         *)
(***************************************************************************)

\* D are the inodes in use that are directories; functions that agree on a set.
Kinds(k, D) == D \subseteq {i \in Inodes : k[i] # "free"}
Agree(S, f, g) == \A x \in S : g[x] = f[x]

\* The parent of a directory lists it.
LEMMA ListedInParent ==
  ASSUME NEW k, NEW D, NEW E, NEW U, TreeOK(k, D, E, U), Kinds(k, D), NEW d \in D, d # Root
  PROVE  U[d] \in D /\ \E e \in E[U[d]] : e.ino = d
<1>1. d \in Inodes /\ k[d] # "free"
  BY DEF Kinds
<1>2. PICK f \in D : \E e \in E[f] : e.ino = d
  BY <1>1 DEF TreeOK
<1>3. U[d] = f
  BY <1>2 DEF TreeOK
<1> QED
  BY <1>2, <1>3

\* An inode that was free is listed in directory c, as a directory or as a file.
Made(k, D, E, U, c, i, e, k2, D2, E2, U2) ==
  /\ TreeOK(k, D, E, U) /\ Kinds(k, D) /\ c \in D
  /\ i \in Inodes /\ k[i] = "free" /\ e \in Links /\ e.ino = i
  /\ Agree(Inodes \ {i}, k, k2) /\ k2[i] # "free"
  /\ D2 = D \/ D2 = D \cup {i}
  /\ Agree(Inodes \ {c}, E, E2) /\ E2[c] = E[c] \cup {e}
  /\ Agree(D, U, U2) /\ (i \in D2 => U2[i] = c)

LEMMA TreeMade ==
  ASSUME NEW k, NEW D, NEW E, NEW U, NEW c, NEW i, NEW e, NEW k2, NEW D2, NEW E2, NEW U2,
         Made(k, D, E, U, c, i, e, k2, D2, E2, U2)
  PROVE  TreeOK(k2, D2, E2, U2)
<1>0. /\ TreeOK(k, D, E, U) /\ Kinds(k, D) /\ c \in D
      /\ i \in Inodes /\ k[i] = "free" /\ e \in Links /\ e.ino = i
      /\ Agree(Inodes \ {i}, k, k2) /\ k2[i] # "free"
      /\ D2 = D \/ D2 = D \cup {i}
      /\ Agree(Inodes \ {c}, E, E2) /\ E2[c] = E[c] \cup {e}
      /\ Agree(D, U, U2) /\ (i \in D2 => U2[i] = c)
  BY DEF Made
<1>1. /\ D \subseteq Inodes /\ i \notin D /\ c # i /\ Root \in D /\ i # Root /\ c \in Inodes
      /\ D2 \subseteq Inodes /\ D \subseteq D2
  BY <1>0 DEF Kinds, TreeOK
<1>2. \A d \in Inodes : E[d] \in SUBSET Links /\ (d \notin D => E[d] = {})
  BY <1>0 DEF TreeOK
<1>3. \A d \in Inodes : \A g \in E[d] : g.ino # i
  <2>1. \A d \in D : \A g \in E[d] : g.ino # i
    BY <1>0 DEF TreeOK
  <2> QED
    BY <1>0, <1>2, <2>1
<1>4. \A d \in Inodes : \A g : g \in E2[d] <=> g \in E[d] \/ (d = c /\ g = e)
  BY <1>0 DEF Agree
<1>5. E[i] = {} /\ E2[i] = {}
  BY <1>0, <1>1, <1>2, <1>4
<1>6. ASSUME NEW d \in Inodes PROVE E2[d] \in SUBSET Links /\ (d \notin D2 => E2[d] = {})
  <2>1. E2[d] \in SUBSET Links
    BY <1>0, <1>2, <1>4
  <2>2. ASSUME d \notin D2 PROVE E2[d] = {}
    <3>1. d \notin D /\ d # c
      BY <1>0, <1>1, <2>2
    <3> QED
      BY <1>0, <1>2, <1>4, <3>1
  <2> QED
    BY <1>0, <2>1, <2>2
<1>7. ASSUME NEW d \in Inodes, NEW f \in Inodes, NEW g \in E2[d], NEW h \in E2[f],
             g.ino = h.ino
      PROVE  d = f /\ g = h
  <2>1. CASE g \in E[d] /\ h \in E[f]
    BY <1>0, <1>7, <2>1 DEF TreeOK
  <2>2. CASE ~(g \in E[d] /\ h \in E[f])
    BY <1>0, <1>3, <1>4, <1>7, <2>2
  <2> QED
    BY <1>0, <2>1, <2>2
<1>8. ASSUME NEW j \in Inodes
      PROVE  k2[j] # "free" /\ j # Root <=> \E d \in D2 : \E g \in E2[d] : g.ino = j
  <2>1. CASE j = i
    BY <1>0, <1>1, <1>4, <2>1
  <2>2. CASE j # i
    <3>1. k2[j] = k[j]
      BY <1>0, <2>2 DEF Agree
    <3>2. k[j] # "free" /\ j # Root <=> \E d \in D : \E g \in E[d] : g.ino = j
      BY <1>0 DEF TreeOK
    <3>3. ASSUME NEW d \in D2, NEW g \in E2[d], g.ino = j
          PROVE  d \in D /\ g \in E[d]
      <4>1. d \in Inodes /\ g \in E[d]
        BY <1>0, <1>1, <1>4, <2>2, <3>3
      <4> QED
        BY <1>0, <1>2, <4>1
    <3>4. ASSUME NEW d \in D, NEW g \in E[d] PROVE d \in D2 /\ g \in E2[d]
      BY <1>0, <1>1, <1>4, <3>4
    <3> QED
      BY <1>0, <3>1, <3>2, <3>3, <3>4
  <2> QED
    BY <1>0, <2>1, <2>2
<1>9. U2[Root] = Root /\ \A d \in D2 : U2[d] \in D2
  <2>1. \A d \in D : U2[d] = U[d] /\ U[d] \in D
    BY <1>0 DEF Agree, TreeOK
  <2>2. U[Root] = Root
    BY <1>0 DEF TreeOK
  <2> QED
    BY <1>0, <1>1, <2>1, <2>2
<1>10. ASSUME NEW d \in D2, NEW g \in E2[d], g.ino \in D2 PROVE U2[g.ino] = d
  <2>1. CASE g \in E[d]
    <3>1. g.ino # i /\ d \in D
      BY <1>0, <1>1, <1>2, <1>3, <2>1
    <3>2. g.ino \in D
      BY <1>0, <1>10, <3>1
    <3>3. U[g.ino] = d
      BY <1>0, <2>1, <3>1, <3>2 DEF TreeOK
    <3> QED
      BY <1>0, <3>2, <3>3 DEF Agree
  <2>2. CASE g \notin E[d]
    BY <1>0, <1>1, <1>4, <1>10, <2>2
  <2> QED
    BY <1>0, <2>1, <2>2
<1> QED
  BY <1>0, <1>1, <1>6, <1>7, <1>8, <1>9, <1>10 DEF TreeOK

\* An inode without entries is listed no more.
Cut(k, D, E, U, c, i, e, k2, D2, E2, U2) ==
  /\ TreeOK(k, D, E, U) /\ Kinds(k, D) /\ c \in D
  /\ i \in Inodes /\ e \in E[c] /\ e.ino = i /\ E[i] = {}
  /\ Agree(Inodes \ {i}, k, k2) /\ k2[i] = "free"
  /\ D2 = D \ {i}
  /\ Agree(Inodes \ {c}, E, E2) /\ E2[c] = E[c] \ {e}
  /\ Agree(D2, U, U2)

LEMMA TreeCut ==
  ASSUME NEW k, NEW D, NEW E, NEW U, NEW c, NEW i, NEW e, NEW k2, NEW D2, NEW E2, NEW U2,
         Cut(k, D, E, U, c, i, e, k2, D2, E2, U2)
  PROVE  /\ TreeOK(k2, D2, E2, U2)
         /\ i # Root /\ i # c /\ k[i] # "free" /\ \A d \in D : U[d] # i \/ d = Root
<1>0. /\ TreeOK(k, D, E, U) /\ Kinds(k, D) /\ c \in D
      /\ i \in Inodes /\ e \in E[c] /\ e.ino = i /\ E[i] = {}
      /\ Agree(Inodes \ {i}, k, k2) /\ k2[i] = "free"
      /\ D2 = D \ {i}
      /\ Agree(Inodes \ {c}, E, E2) /\ E2[c] = E[c] \ {e}
      /\ Agree(D2, U, U2)
  BY DEF Cut
<1>1. /\ D \subseteq Inodes /\ Root \in D /\ c \in Inodes /\ c # i
      /\ D2 \subseteq Inodes /\ D2 \subseteq D
  BY <1>0 DEF Kinds, TreeOK
<1>2. i # Root /\ k[i] # "free"
  BY <1>0 DEF TreeOK
<1>3. \A d \in Inodes : E[d] \in SUBSET Links /\ (d \notin D => E[d] = {})
  BY <1>0 DEF TreeOK
<1>4. \A d \in Inodes : \A g : g \in E2[d] <=> g \in E[d] /\ ~(d = c /\ g = e)
  BY <1>0 DEF Agree
<1>5. \A d \in Inodes : \A g \in E2[d] : g \in E[d] /\ g.ino # i
  BY <1>0, <1>1, <1>4 DEF TreeOK
<1>6. ASSUME NEW d \in D, d # Root PROVE U[d] # i /\ U[d] \in D
  BY <1>0, <1>6, ListedInParent
<1>7. \A d \in Inodes : E2[d] \in SUBSET Links /\ (d \notin D2 => E2[d] = {})
  BY <1>0, <1>3, <1>5
<1>8. \A d, f \in Inodes : \A g \in E2[d], h \in E2[f] : g.ino = h.ino => d = f /\ g = h
  BY <1>0, <1>5 DEF TreeOK
<1>9. ASSUME NEW j \in Inodes
      PROVE  k2[j] # "free" /\ j # Root <=> \E d \in D2 : \E g \in E2[d] : g.ino = j
  <2>1. CASE j = i
    BY <1>0, <1>1, <1>5, <2>1
  <2>2. CASE j # i
    <3>1. k2[j] = k[j]
      BY <1>0, <2>2 DEF Agree
    <3>2. k[j] # "free" /\ j # Root <=> \E d \in D : \E g \in E[d] : g.ino = j
      BY <1>0 DEF TreeOK
    <3>3. ASSUME NEW d \in D, NEW g \in E[d], g.ino = j PROVE d \in D2 /\ g \in E2[d]
      <4>1. d # i /\ g # e
        BY <1>0, <2>2, <3>3
      <4> QED
        BY <1>0, <1>1, <1>4, <4>1
    <3>4. \A d \in D2 : \A g \in E2[d] : d \in D /\ g \in E[d]
      BY <1>0, <1>1, <1>5
    <3> QED
      BY <1>0, <3>1, <3>2, <3>3, <3>4
  <2> QED
    BY <1>0, <2>1, <2>2
<1>10. U2[Root] = Root /\ \A d \in D2 : U2[d] \in D2
  <2>1. Root \in D2 /\ U[Root] = Root
    BY <1>0, <1>1, <1>2 DEF TreeOK
  <2>2. \A d \in D2 : U2[d] = U[d]
    BY <1>0 DEF Agree
  <2>3. ASSUME NEW d \in D2 PROVE U[d] \in D2
    <3>1. CASE d = Root
      BY <1>0, <2>1, <3>1
    <3>2. CASE d # Root
      BY <1>0, <1>1, <1>6, <3>2
    <3> QED
      BY <1>0, <3>1, <3>2
  <2> QED
    BY <1>0, <2>1, <2>2, <2>3
<1>11. ASSUME NEW d \in D2, NEW g \in E2[d], g.ino \in D2 PROVE U2[g.ino] = d
  <2>1. g \in E[d] /\ d \in D /\ g.ino \in D
    BY <1>0, <1>1, <1>5, <1>11
  <2>2. U[g.ino] = d
    BY <1>0, <2>1 DEF TreeOK
  <2> QED
    BY <1>0, <1>11, <2>2 DEF Agree
<1>12. TreeOK(k2, D2, E2, U2)
  BY <1>0, <1>1, <1>2, <1>7, <1>8, <1>9, <1>10, <1>11 DEF TreeOK
<1> QED
  BY <1>0, <1>1, <1>2, <1>6, <1>12

\* The ways to the root when nothing changes for the directories.
LEMMA WaysKept ==
  ASSUME NEW D, NEW U, NEW A, Ways(D, U, A), Root \in D,
         \A d \in D : U[d] \in D, NEW U2, Agree(D, U, U2)
  PROVE  Ways(D, U2, A)
<1>1. \A d \in D : U2[d] = U[d]
  BY DEF Agree
<1> QED
  BY <1>1 DEF Ways

\* The way of a new directory i is that of its parent c, and i.
LEMMA WaysMade ==
  ASSUME NEW D, NEW U, NEW A, Ways(D, U, A), Root \in D, \A d \in D : U[d] \in D,
         NEW c \in D, NEW i, i \notin D,
         NEW D2, D2 = D \cup {i}, NEW U2, Agree(D, U, U2), U2[i] = c
  PROVE  \E A2 : Ways(D2, U2, A2)
<1>1. PICK A2 : A2 = [d \in D2 |-> IF d = i THEN A[c] \cup {i} ELSE A[d]]
  OBVIOUS
<1>2. \A d \in D : A2[d] = A[d] /\ U2[d] = U[d] /\ A[d] \subseteq D /\ d # i /\ U[d] \in D
  BY <1>1 DEF Ways, Agree
<1>3. A2[i] = A[c] \cup {i}
  BY <1>1
<1>4. A2 \in [D2 -> SUBSET D2]
  BY <1>1, <1>2
<1>5. A2[Root] = {Root} /\ i # Root
  BY <1>2 DEF Ways
<1>6. ASSUME NEW d \in D2 \ {Root}
      PROVE  A2[d] = A2[U2[d]] \cup {d} /\ d \notin A2[U2[d]]
  <2>1. CASE d = i
    BY <1>2, <1>3, <2>1
  <2>2. CASE d # i
    <3>1. d \in D \ {Root}
      BY <2>2
    <3>2. A[d] = A[U[d]] \cup {d} /\ d \notin A[U[d]]
      BY <3>1 DEF Ways
    <3> QED
      BY <1>2, <3>1, <3>2
  <2> QED
    BY <2>1, <2>2
<1>7. ASSUME NEW d \in D2, NEW e \in A2[d] \ {d}
      PROVE  \E h \in A2[d] \ {Root} : U2[h] = e
  <2>1. CASE d = i /\ e = c
    <3>1. i \in A2[d] \ {Root} /\ U2[i] = e
      BY <1>3, <1>5, <2>1
    <3> QED
      BY <3>1
  <2>2. CASE d = i /\ e # c
    <3>1. e \in A[c] \ {c}
      BY <1>3, <1>7, <2>2
    <3>2. PICK h \in A[c] \ {Root} : U[h] = e
      BY <3>1 DEF Ways
    <3>3. h \in A2[d] \ {Root} /\ h \in D
      BY <1>2, <1>3, <2>2, <3>2
    <3> QED
      BY <1>2, <3>2, <3>3
  <2>3. CASE d # i
    <3>1. d \in D /\ e \in A[d] \ {d}
      BY <1>2, <1>7, <2>3
    <3>2. PICK h \in A[d] \ {Root} : U[h] = e
      BY <3>1 DEF Ways
    <3>3. h \in A2[d] \ {Root} /\ h \in D
      BY <1>2, <3>1, <3>2
    <3> QED
      BY <1>2, <3>2, <3>3
  <2> QED
    BY <2>1, <2>2, <2>3
<1>8. Ways(D2, U2, A2)
  BY <1>4, <1>5, <1>6, <1>7 DEF Ways
<1> QED
  BY <1>8

\* A directory without children is on no way but its own.
LEMMA WaysCut ==
  ASSUME NEW D, NEW U, NEW A, Ways(D, U, A), Root \in D, \A d \in D : U[d] \in D,
         NEW i, i # Root, \A d \in D : U[d] # i \/ d = Root, U[Root] = Root,
         NEW D2, D2 = D \ {i}, NEW U2, Agree(D2, U, U2)
  PROVE  \E A2 : Ways(D2, U2, A2)
<1>1. PICK A2 : A2 = [d \in D2 |-> A[d]]
  OBVIOUS
<1>2. \A d \in D2 : d \in D /\ d # i /\ A2[d] = A[d] /\ U2[d] = U[d] /\ A[d] \subseteq D
  BY <1>1 DEF Ways, Agree
<1>3. \A d \in D2 : i \notin A[d]
  <2>1. SUFFICES ASSUME NEW d \in D2, i \in A[d] PROVE FALSE
    OBVIOUS
  <2>2. i \in A[d] \ {d} /\ d \in D /\ A[d] \subseteq D
    BY <1>2, <2>1
  <2>3. \E h \in A[d] \ {Root} : U[h] = i
    BY <2>2 DEF Ways
  <2> QED
    BY <2>2, <2>3
<1>4. A2 \in [D2 -> SUBSET D2]
  BY <1>1, <1>2, <1>3
<1>5. Root \in D2 /\ A2[Root] = {Root}
  BY <1>2 DEF Ways
<1>6. \A d \in D2 : U[d] \in D2
  BY <1>2, <1>5
<1>7. ASSUME NEW d \in D2 \ {Root}
      PROVE  A2[d] = A2[U2[d]] \cup {d} /\ d \notin A2[U2[d]]
  <2>1. d \in D \ {Root} /\ d \in D2
    BY <1>2
  <2>2. A[d] = A[U[d]] \cup {d} /\ d \notin A[U[d]]
    BY <2>1 DEF Ways
  <2> QED
    BY <1>2, <1>6, <2>1, <2>2
<1>8. ASSUME NEW d \in D2, NEW e \in A2[d] \ {d}
      PROVE  \E h \in A2[d] \ {Root} : U2[h] = e
  <2>1. d \in D /\ e \in A[d] \ {d}
    BY <1>2, <1>8
  <2>2. PICK h \in A[d] \ {Root} : U[h] = e
    BY <2>1 DEF Ways
  <2>3. h \in A2[d] \ {Root} /\ h \in D2
    BY <1>2, <1>3, <2>2
  <2> QED
    BY <1>2, <2>2, <2>3
<1>9. Ways(D2, U2, A2)
  BY <1>4, <1>5, <1>7, <1>8 DEF Ways
<1> QED
  BY <1>9

-----------------------------------------------------------------------------
(***************************************************************************)
(* What is seen of the copies.                                             *)
(***************************************************************************)

\* A directory that has been left is seen as it is in its block.
LEMMA LoadedWhole ==
  ASSUME Fits, NEW d, NEW c, NEW b, ListOK(d, b[d]), c[d] \in {Uncached, b[d]}
  PROVE  Loaded(d, c, b) = b[d] /\ Stored(b[d]) = b[d]
<1>1. Stored(b[d]) = b[d]
  BY StoredWhole
<1> QED
  BY <1>1 DEF Loaded

LEMMA SeenValue ==
  ASSUME Fits, CopiesInv, NEW d \in Dirs
  PROVE  /\ Seen(d) = IF d = cur THEN ents ELSE block[d]
         /\ ListOK(d, Seen(d)) /\ Ups[d] = Seen(d)[2].ino /\ d \in Inodes
         /\ Entries[d] = ListingOf(Seen(d))
         /\ d # cur => Stored(block[d]) = block[d]
<1>1. ASSUME d = cur PROVE Seen(d) = ents /\ ListOK(d, Seen(d))
  BY <1>1 DEF Seen, CopiesInv
<1>2. ASSUME d # cur
      PROVE  Seen(d) = block[d] /\ ListOK(d, Seen(d)) /\ Stored(block[d]) = block[d]
  <2>1. ListOK(d, block[d]) /\ cache[d] \in {Uncached, block[d]}
    BY <1>2 DEF CopiesInv
  <2>2. Loaded(d, cache, block) = block[d] /\ Stored(block[d]) = block[d]
    BY <2>1, LoadedWhole
  <2> QED
    BY <1>2, <2>1, <2>2 DEF Seen
<1>3. d \in Inodes /\ kind[d] = "dir"
  BY DEF Dirs
<1>4. PICK s : s = Seen(d)
  OBVIOUS
<1>5. Ups[d] = s[2].ino
  BY <1>4 DEF Ups
<1>6. Entries[d] = ListingOf(s)
  BY <1>3, <1>4 DEF Entries, Listing, ListingOf
<1>7. ListOK(d, s) /\ s = (IF d = cur THEN ents ELSE block[d])
      /\ (d # cur => Stored(block[d]) = block[d])
  BY <1>1, <1>2, <1>4
<1> QED
  BY <1>3, <1>4, <1>5, <1>6, <1>7

\* The same after a step.
LEMMA SeenNext ==
  ASSUME Fits, CopiesInv', NEW d \in Dirs'
  PROVE  /\ Seen(d)' = IF d = cur' THEN ents' ELSE block'[d]
         /\ Ups'[d] = Seen(d)'[2].ino /\ d \in Inodes
         /\ Entries'[d] = ListingOf(Seen(d)')
<1>1. ASSUME d = cur' PROVE Seen(d)' = ents'
  BY <1>1 DEF Seen
<1>2. ASSUME d # cur' PROVE Seen(d)' = block'[d]
  <2>1. ListOK(d, block'[d]) /\ cache'[d] \in {Uncached, block'[d]}
    BY <1>2 DEF CopiesInv, ListOK
  <2>2. PICK b, c : b = block' /\ c = cache'
    OBVIOUS
  <2>3. Loaded(d, c, b) = b[d]
    BY <2>1, <2>2, LoadedWhole
  <2>4. Loaded(d, cache, block)' = Loaded(d, c, b)
    BY <2>2 DEF Loaded, Stored
  <2> QED
    BY <1>2, <2>2, <2>3, <2>4 DEF Seen
<1>3. d \in Inodes /\ kind'[d] = "dir"
  BY DEF Dirs
<1>4. PICK s : s = Seen(d)'
  OBVIOUS
<1>5. Ups'[d] = s[2].ino
  BY <1>4 DEF Ups
<1>6. Entries'[d] = ListingOf(s)
  <2>1. Entries'[d] = Listing(d)'
    BY <1>3 DEF Entries
  <2>2. Listing(d)' = ListingOf(s)
    BY <1>4 DEF Listing, ListingOf, Live
  <2> QED
    BY <2>1, <2>2
<1> QED
  BY <1>1, <1>2, <1>3, <1>4, <1>5, <1>6

LEMMA NoEntries ==
  ASSUME NEW d \in Inodes
  PROVE  /\ d \notin Dirs => Entries[d] = {}
         /\ d \notin Dirs' => Entries'[d] = {}
BY DEF Entries, Dirs

\* Nothing changes for the tree when the same lists are seen.
LEMMA ViewKept ==
  ASSUME Fits, IInv, CopiesInv', kind' = kind,
         \A d \in Dirs : Seen(d)' = Seen(d)
  PROVE  TreeInv' /\ Entries' = Entries
<1>1. Dirs' = Dirs /\ Dirs \subseteq Inodes
  BY DEF Dirs
<1>2. ASSUME NEW d \in Dirs PROVE Ups'[d] = Ups[d] /\ Entries'[d] = Entries[d]
  <2>1. PICK s : s = Seen(d)
    OBVIOUS
  <2>2. Ups[d] = s[2].ino /\ Entries[d] = ListingOf(s)
    BY <2>1, SeenValue DEF IInv
  <2>3. Ups'[d] = s[2].ino /\ Entries'[d] = ListingOf(s)
    BY <1>1, <2>1, SeenNext
  <2> QED
    BY <2>2, <2>3
<1>3. Ups' = Ups
  <2>1. Ups = [d \in Dirs |-> Ups[d]] /\ Ups' = [d \in Dirs |-> Ups'[d]]
    BY <1>1 DEF Ups
  <2> QED
    BY <1>2, <2>1
<1>4. Entries' = Entries
  <2>1. Entries = [d \in Inodes |-> Entries[d]] /\ Entries' = [d \in Inodes |-> Entries'[d]]
    BY DEF Entries
  <2>2. \A d \in Inodes : Entries'[d] = Entries[d]
    BY <1>1, <1>2, NoEntries
  <2> QED
    BY <2>1, <2>2
<1>5. TreeOK(kind, Dirs, Entries, Ups) /\ \E A : Ways(Dirs, Ups, A)
  BY DEF IInv, TreeInv
<1>6. TreeOK(kind', Dirs', Entries', Ups') /\ \E A : Ways(Dirs', Ups', A)
  BY <1>1, <1>3, <1>4, <1>5
<1> QED
  BY <1>4, <1>6 DEF TreeInv, TreeOK, Ways

-----------------------------------------------------------------------------
(***************************************************************************)
(* The operations.                                                         *)
(***************************************************************************)

LEMMA DirsBasic ==
  ASSUME CopiesInv
  PROVE  /\ cur \in Dirs /\ cur \in Inodes /\ Root \in Dirs /\ kind[cur] = "dir"
         /\ Dirs \subseteq Inodes /\ Kinds(kind, Dirs)
         /\ \A d \in Inodes : d \in Dirs <=> kind[d] = "dir"
BY DEF CopiesInv, Dirs, Kinds

LEMMA UpsKnown ==
  ASSUME IInv
  PROVE  Ups[Root] = Root /\ Root \in Dirs /\ \A d \in Dirs : Ups[d] \in Dirs
BY DEF IInv, TreeInv, TreeOK

\* mkdir() or creat() makes an entry for inode i, which was free.
LEMMA MadeStep ==
  ASSUME Fits, IInv, CopiesInv', cur' = cur,
         NEW i \in Inodes, kind[i] = "free", NEW k \in {"file", "dir"},
         kind' = [kind EXCEPT ![i] = k],
         NEW n \in Names, ~Exists(n),
         ListingOf(ents') = ListingOf(ents) \cup {Entry(n, i)}, ents'[2] = ents[2],
         \A d \in Dirs \ {cur} : block'[d] = block[d],
         k = "dir" => block'[i] = Dots(i, cur)
  PROVE  TreeInv' /\ Tree!Make
<1>1. /\ cur \in Dirs /\ cur \in Inodes /\ Root \in Dirs /\ kind[cur] = "dir"
      /\ Dirs \subseteq Inodes /\ Kinds(kind, Dirs)
      /\ kind \in [Inodes -> {"free", "file", "dir"}]
  BY DirsBasic DEF IInv, CopiesInv
<1>2. /\ kind' \in [Inodes -> {"free", "file", "dir"}] /\ kind'[i] = k
      /\ \A j \in Inodes \ {i} : kind'[j] = kind[j]
  BY <1>1
<1>3. i \notin Dirs /\ i # cur /\ Dirs' = IF k = "dir" THEN Dirs \cup {i} ELSE Dirs
  BY <1>1, <1>2 DEF Dirs
<1>4. PICK e : e = Entry(n, i)
  OBVIOUS
<1>5. e \in Links /\ e.ino = i /\ e = [name |-> n, ino |-> i]
  BY <1>4 DEF Entry, Links
<1>6. ASSUME NEW d \in Dirs
      PROVE  /\ Ups'[d] = Ups[d]
             /\ Entries'[d] = IF d = cur THEN Entries[d] \cup {e} ELSE Entries[d]
  <2>1. d \in Dirs'
    BY <1>3
  <2>2. PICK s, t : s = Seen(d) /\ t = Seen(d)'
    OBVIOUS
  <2>3. /\ s = (IF d = cur THEN ents ELSE block[d])
        /\ Ups[d] = s[2].ino /\ Entries[d] = ListingOf(s)
    BY <2>2, SeenValue DEF IInv
  <2>4. /\ t = (IF d = cur THEN ents' ELSE block'[d])
        /\ Ups'[d] = t[2].ino /\ Entries'[d] = ListingOf(t)
    BY <2>1, <2>2, SeenNext
  <2>5. CASE d = cur
    BY <1>4, <2>3, <2>4, <2>5
  <2>6. CASE d # cur
    BY <2>3, <2>4, <2>6
  <2> QED
    BY <2>5, <2>6
<1>7. ASSUME i \in Dirs' PROVE Ups'[i] = cur /\ Entries'[i] = {}
  <2>1. k = "dir" /\ block'[i] = Dots(i, cur)
    BY <1>3, <1>7
  <2>2. PICK t : t = Seen(i)'
    OBVIOUS
  <2>3. t = Dots(i, cur) /\ Ups'[i] = t[2].ino /\ Entries'[i] = ListingOf(t)
    BY <1>3, <1>7, <2>1, <2>2, SeenNext
  <2>4. ListOK(i, t) /\ t[2].ino = cur /\ Len(t) = 2
    BY <1>1, <2>3, DotsOK
  <2>5. ListingOf(t) = {}
    BY <2>4, ListingParts
  <2> QED
    BY <2>3, <2>4, <2>5
<1>8. ASSUME NEW d \in Inodes \ {cur} PROVE Entries'[d] = Entries[d]
  <2>1. CASE d \in Dirs
    BY <1>6, <2>1
  <2>2. CASE d \notin Dirs /\ d \in Dirs'
    BY <1>3, <1>7, <2>2, NoEntries
  <2>3. CASE d \notin Dirs /\ d \notin Dirs'
    BY <2>3, NoEntries
  <2> QED
    BY <2>1, <2>2, <2>3
<1>9. Entries'[cur] = Entries[cur] \cup {e}
  BY <1>1, <1>6
<1>10. PICK K2, D2, E2, U2 : K2 = kind' /\ D2 = Dirs' /\ E2 = Entries' /\ U2 = Ups'
  OBVIOUS
<1>11. PICK A : TreeOK(kind, Dirs, Entries, Ups) /\ Ways(Dirs, Ups, A)
  BY DEF IInv, TreeInv
<1>12. /\ Agree(Inodes \ {i}, kind, K2) /\ K2[i] # "free"
       /\ Agree(Inodes \ {cur}, Entries, E2) /\ E2[cur] = Entries[cur] \cup {e}
       /\ Agree(Dirs, Ups, U2) /\ (i \in D2 => U2[i] = cur)
       /\ (D2 = Dirs \/ D2 = Dirs \cup {i})
  BY <1>2, <1>3, <1>6, <1>7, <1>8, <1>9, <1>10 DEF Agree
<1>13. TreeOK(K2, D2, E2, U2)
  <2>1. Made(kind, Dirs, Entries, Ups, cur, i, e, K2, D2, E2, U2)
    BY <1>1, <1>5, <1>11, <1>12 DEF Made
  <2> QED
    BY <2>1, TreeMade
<1>14. \E A2 : Ways(D2, U2, A2)
  <2>1. CASE D2 = Dirs
    BY <1>11, <1>12, <2>1, UpsKnown, WaysKept
  <2>2. CASE D2 # Dirs
    <3>1. D2 = Dirs \cup {i} /\ i \in D2 /\ U2[i] = cur
      BY <1>12, <2>2
    <3>2. Root \in Dirs /\ \A d \in Dirs : Ups[d] \in Dirs
      BY UpsKnown
    <3> QED
      BY <1>1, <1>3, <1>11, <1>12, <3>1, <3>2, WaysMade
  <2> QED
    BY <2>1, <2>2
<1>15. TreeInv'
  BY <1>10, <1>13, <1>14 DEF TreeInv, TreeOK, Ways
<1>16. Entries' = [Entries EXCEPT ![cur] = @ \cup {[name |-> n, ino |-> i]}]
  <2>1. Entries = [d \in Inodes |-> Entries[d]] /\ Entries' = [d \in Inodes |-> Entries'[d]]
    BY DEF Entries
  <2>2. \A d \in Inodes : Entries'[d] = IF d = cur THEN Entries[d] \cup {e} ELSE Entries[d]
    BY <1>8, <1>9
  <2>3. PICK F : F = Entries
    OBVIOUS
  <2>4. DOMAIN F = Inodes
    BY <2>3 DEF Entries
  <2>5. Entries' = [d \in Inodes |-> IF d = cur THEN F[d] \cup {e} ELSE F[d]]
    BY <2>1, <2>2, <2>3
  <2>6. [F EXCEPT ![cur] = @ \cup {e}] = [d \in Inodes |-> IF d = cur THEN F[d] \cup {e} ELSE F[d]]
    BY <1>1, <2>1, <2>3, <2>4
  <2> QED
    BY <1>5, <2>3, <2>5, <2>6
<1>17. \A g \in Entries[cur] : g.name # n
  <2>1. Entries[cur] = ListingOf(ents)
    BY <1>1, SeenValue DEF IInv
  <2> QED
    BY <1>1, <2>1, FoundListed DEF IInv, CopiesInv
<1>18. Tree!Make
  BY <1>16, <1>17 DEF Tree!Make, Entries
<1> QED
  BY <1>15, <1>18

LEMMA MkdirInv ==
  ASSUME Fits, IInv, NEW n \in Names, Mkdir(n)
  PROVE  IInv' /\ Tree!Make
<1>1. PICK i \in Inodes :
        /\ kind[i] = "free"
        /\ kind' = [kind EXCEPT ![i] = "dir"]
        /\ ents' = [Named(n) EXCEPT ![Iname + 1].ino = i]
        /\ block' = [block EXCEPT ![i] = Stored(BirthEntries(i))]
        /\ cache' = [cache EXCEPT ![i] = BirthEntries(i)]
        /\ cur' = cur /\ ~Exists(n)
  BY DEF Mkdir
<1>2. /\ cur \in Dirs /\ cur \in Inodes /\ Root \in Dirs /\ Dirs \subseteq Inodes
      /\ kind[cur] = "dir" /\ ListOK(cur, ents)
      /\ kind \in [Inodes -> {"free", "file", "dir"}]
  BY DirsBasic DEF IInv, CopiesInv
<1>3. PICK s, b : s = ents' /\ b = Dots(i, cur)
  OBVIOUS
<1>4. ListOK(cur, s) /\ s[2] = ents[2] /\ ListingOf(s) = ListingOf(ents) \cup {Entry(n, i)}
  BY <1>1, <1>2, <1>3, EntryMade, Constants, ZenonT(60)
<1>5. ListOK(i, b) /\ Stored(b) = b
  BY <1>2, <1>3, DotsOK, StoredWhole
<1>6. /\ b \in Seq(DirRecord) /\ Len(b) <= Most
  BY <1>5, ListTyped
<1>7. block' = [block EXCEPT ![i] = b] /\ cache' = [cache EXCEPT ![i] = b]
  BY <1>1, <1>3, <1>5 DEF BirthEntries
<1>8. /\ cache \in [Inodes -> Seq(DirRecord)] /\ block \in [Inodes -> Seq(DirRecord)]
      /\ \A j \in Inodes : Len(cache[j]) <= Most /\ Len(block[j]) <= Most
      /\ \A d \in Dirs \ {cur} : ListOK(d, block[d]) /\ cache[d] \in {Uncached, block[d]}
  BY DEF IInv, CopiesInv
<1>9. i \notin Dirs /\ i # cur /\ Dirs' = Dirs \cup {i}
      /\ kind' \in [Inodes -> {"free", "file", "dir"}]
  BY <1>1, <1>2 DEF Dirs
<1>10. /\ cache' \in [Inodes -> Seq(DirRecord)] /\ block' \in [Inodes -> Seq(DirRecord)]
       /\ block'[i] = b /\ cache'[i] = b
       /\ \A j \in Inodes \ {i} : block'[j] = block[j] /\ cache'[j] = cache[j]
  BY <1>6, <1>7, <1>8
<1>11. \A j \in Inodes : Len(cache'[j]) <= Most /\ Len(block'[j]) <= Most
  BY <1>6, <1>8, <1>10
<1>12. \A d \in Dirs' \ {cur} : ListOK(d, block'[d]) /\ cache'[d] \in {Uncached, block'[d]}
  BY <1>2, <1>5, <1>8, <1>9, <1>10
<1>13. CopiesInv'
  BY <1>1, <1>2, <1>3, <1>4, <1>9, <1>10, <1>11, <1>12, SMTT(30) DEF CopiesInv, ListOK
<1>14. \A d \in Dirs \ {cur} : block'[d] = block[d]
  BY <1>2, <1>9, <1>10
<1>15. TreeInv' /\ Tree!Make
  <2>1. /\ ListingOf(ents') = ListingOf(ents) \cup {Entry(n, i)} /\ ents'[2] = ents[2]
        /\ block'[i] = Dots(i, cur)
    BY <1>3, <1>4, <1>10
  <2> QED
    BY <1>1, <1>13, <1>14, <2>1, MadeStep
<1> QED
  BY <1>13, <1>15 DEF IInv

\* The copies stay in order while only the current list changes, and no directory
\* is made.
LEMMA CopiesEdited ==
  ASSUME Fits, CopiesInv, cur' = cur, cache' = cache, block' = block,
         kind' \in [Inodes -> {"free", "file", "dir"}], Dirs' = Dirs,
         NEW s, s = ents', ListOK(cur, s)
  PROVE  CopiesInv'
<1>1. ListOK(cur', ents')
  BY DEF ListOK
<1> QED
  BY <1>1 DEF CopiesInv, ListOK

LEMMA CreatInv ==
  ASSUME Fits, IInv, NEW n \in Names, Creat(n)
  PROVE  IInv' /\ Tree!Make
<1>1. PICK i \in Inodes :
        /\ kind[i] = "free"
        /\ kind' = [kind EXCEPT ![i] = "file"]
        /\ ents' = [Named(n) EXCEPT ![Iname + 1].ino = i]
        /\ UNCHANGED <<cur, cache, block>> /\ ~Exists(n)
  BY DEF Creat
<1>2. /\ cur \in Dirs /\ ListOK(cur, ents) /\ CopiesInv
      /\ kind \in [Inodes -> {"free", "file", "dir"}]
  BY DEF IInv, CopiesInv
<1>3. PICK s : s = ents'
  OBVIOUS
<1>4. ListOK(cur, s) /\ s[2] = ents[2] /\ ListingOf(s) = ListingOf(ents) \cup {Entry(n, i)}
  BY <1>1, <1>2, <1>3, EntryMade, Constants
<1>5. Dirs' = Dirs /\ kind' \in [Inodes -> {"free", "file", "dir"}]
  BY <1>1, <1>2 DEF Dirs
<1>6. CopiesInv'
  BY <1>1, <1>2, <1>3, <1>4, <1>5, CopiesEdited
<1>7. TreeInv' /\ Tree!Make
  <2>1. /\ ListingOf(ents') = ListingOf(ents) \cup {Entry(n, i)} /\ ents'[2] = ents[2]
        /\ \A d \in Dirs \ {cur} : block'[d] = block[d]
        /\ cur' = cur /\ "file" # "dir" /\ "file" \in {"file", "dir"}
    BY <1>1, <1>3, <1>4
  <2> QED
    BY <1>1, <1>6, <2>1, MadeStep
<1> QED
  BY <1>6, <1>7 DEF IInv

LEMMA NoSpaceInv ==
  ASSUME Fits, IInv, NEW n \in Names, NoSpace(n)
  PROVE  IInv' /\ UNCHANGED <<kind, Entries, cur>>
<1>1. ~Exists(n) /\ ents' = Named(n) /\ UNCHANGED <<kind, cur, cache, block>>
  BY DEF NoSpace
<1>2. /\ cur \in Dirs /\ ListOK(cur, ents) /\ CopiesInv
      /\ kind \in [Inodes -> {"free", "file", "dir"}]
  BY DEF IInv, CopiesInv
<1>3. PICK s : s = ents'
  OBVIOUS
<1>4. ListOK(cur, s) /\ s[2] = ents[2] /\ ListingOf(s) = ListingOf(ents)
  BY <1>1, <1>2, <1>3, EntryMade
<1>5. Dirs' = Dirs
  BY <1>1 DEF Dirs
<1>6. CopiesInv'
  BY <1>1, <1>2, <1>3, <1>4, <1>5, CopiesEdited
<1>7. ASSUME NEW d \in Dirs PROVE Ups'[d] = Ups[d] /\ Entries'[d] = Entries[d]
  <2>1. PICK v, w : v = Seen(d) /\ w = Seen(d)'
    OBVIOUS
  <2>2. v = (IF d = cur THEN ents ELSE block[d]) /\ Ups[d] = v[2].ino
        /\ Entries[d] = ListingOf(v)
    BY <1>2, <2>1, SeenValue
  <2>3. w = (IF d = cur THEN ents' ELSE block[d]) /\ Ups'[d] = w[2].ino
        /\ Entries'[d] = ListingOf(w)
    BY <1>1, <1>5, <1>6, <2>1, SeenNext
  <2> QED
    BY <1>3, <1>4, <2>2, <2>3
<1>8. Ups' = Ups
  <2>1. Ups = [d \in Dirs |-> Ups[d]] /\ Ups' = [d \in Dirs |-> Ups'[d]]
    BY <1>5 DEF Ups
  <2> QED
    BY <1>7, <2>1
<1>9. Entries' = Entries
  <2>1. Entries = [d \in Inodes |-> Entries[d]] /\ Entries' = [d \in Inodes |-> Entries'[d]]
    BY DEF Entries
  <2>2. \A d \in Inodes : Entries'[d] = Entries[d]
    BY <1>5, <1>7, NoEntries
  <2> QED
    BY <2>1, <2>2
<1>10. TreeInv'
  BY <1>1, <1>5, <1>8, <1>9 DEF IInv, TreeInv, TreeOK, Ways
<1> QED
  BY <1>1, <1>6, <1>9, <1>10 DEF IInv

\* No directory lists itself.
LEMMA NotOwnChild ==
  ASSUME IInv, NEW e \in Entries[cur]
  PROVE  e \in Links /\ e.ino \in Inodes /\ e.ino # cur
<1>1. PICK A : TreeOK(kind, Dirs, Entries, Ups) /\ Ways(Dirs, Ups, A)
  BY DEF IInv, TreeInv
<1>2. cur \in Dirs /\ cur \in Inodes
  BY DirsBasic DEF IInv
<1>3. e \in Links /\ e.ino \in Inodes
  BY <1>1, <1>2 DEF TreeOK, Links
<1>4. e.ino # Root
  BY <1>1, <1>2, <1>3 DEF TreeOK
<1>5. SUFFICES ASSUME e.ino = cur PROVE FALSE
  BY <1>3
<1>6. Ups[cur] = cur
  BY <1>1, <1>2, <1>5 DEF TreeOK
<1>7. A[cur] = A[cur] \cup {cur} /\ cur \notin A[cur]
  BY <1>1, <1>2, <1>4, <1>5, <1>6 DEF Ways
<1> QED
  BY <1>7

\* What rm deletes has no entries.
LEMMA NothingInside ==
  ASSUME Fits, IInv, NEW n \in Names, Exists(n), Class(Found(n)) \in Removed
  PROVE  Entries[Found(n)] = {}
<1>1. PICK i : i = Found(n)
  OBVIOUS
<1>2. cur \in Dirs /\ ListOK(cur, ents)
  BY DEF IInv, CopiesInv
<1>3. Entry(n, i) \in Entries[cur] /\ i \in Inodes
  BY <1>1, <1>2, FoundListed, SeenValue DEF IInv
<1>4. i # cur
  BY <1>3, NotOwnChild DEF Entry
<1>5. CASE kind[i] # "dir"
  <2>1. i \notin Dirs
    BY <1>5 DEF Dirs
  <2> QED
    BY <1>1, <1>3, <2>1, NoEntries
<1>6. CASE kind[i] = "dir"
  <2>1. i \in Dirs
    BY <1>3, <1>6 DEF Dirs
  <2>2. PICK s : s = Loaded(i, cache, block)
    OBVIOUS
  <2>3. ~ \E x \in 3 .. Len(s) : s[x].ino # NoIno
    <3>1. Class(i) # "full"
      BY <1>1 DEF Fits
    <3> QED
      BY <1>6, <2>2, <3>1 DEF Class
  <2>4. Seen(i) = s
    BY <1>4, <2>2 DEF Seen
  <2>5. ListOK(i, s) /\ Entries[i] = ListingOf(s)
    BY <2>1, <2>4, SeenValue DEF IInv
  <2>6. ListingOf(s) = {}
    BY <2>3, <2>5, ListingParts
  <2> QED
    BY <1>1, <2>5, <2>6
<1> QED
  BY <1>5, <1>6

LEMMA RmInv ==
  ASSUME Fits, IInv, NEW n \in Names, Rm(n)
  PROVE  IInv' /\ Tree!Remove
<1>1. PICK i, s, e : i = Found(n) /\ s = ents' /\ e = Entry(n, i)
  OBVIOUS
<1>2. /\ Exists(n) /\ s = Without(First(Matches(n)))
      /\ cache' = [cache EXCEPT ![cur] = s]
      /\ kind' = [kind EXCEPT ![i] = "free"]
      /\ block' = [block EXCEPT ![i] = << >>]
      /\ cur' = cur
  BY <1>1 DEF Rm
<1>3. /\ cur \in Dirs /\ cur \in Inodes /\ Root \in Dirs /\ Dirs \subseteq Inodes
      /\ kind[cur] = "dir" /\ ListOK(cur, ents) /\ Kinds(kind, Dirs)
      /\ kind \in [Inodes -> {"free", "file", "dir"}]
      /\ cache \in [Inodes -> Seq(DirRecord)] /\ block \in [Inodes -> Seq(DirRecord)]
      /\ \A j \in Inodes : Len(cache[j]) <= Most /\ Len(block[j]) <= Most
      /\ \A d \in Dirs \ {cur} : ListOK(d, block[d]) /\ cache[d] \in {Uncached, block[d]}
  BY DirsBasic DEF IInv, CopiesInv
<1>4. Entries[cur] = ListingOf(ents)
  BY <1>3, SeenValue DEF IInv
<1>5. e \in Entries[cur] /\ i \in Inodes /\ e.ino = i
  BY <1>1, <1>2, <1>3, <1>4, FoundListed DEF Entry
<1>6. Entries[i] = {}
  BY <1>1, <1>2, NothingInside DEF Rm
<1>7. i # cur
  BY <1>5, NotOwnChild
<1>8. ListOK(cur, s) /\ s[2] = ents[2] /\ ListingOf(s) = ListingOf(ents) \ {e}
  BY <1>1, <1>2, <1>3, EntryGone
<1>9. s \in Seq(DirRecord) /\ Len(s) <= Most
  BY <1>8, ListTyped
<1>10. /\ kind' \in [Inodes -> {"free", "file", "dir"}] /\ kind'[i] = "free"
       /\ \A j \in Inodes \ {i} : kind'[j] = kind[j]
       /\ Dirs' = Dirs \ {i}
  BY <1>2, <1>3, <1>5 DEF Dirs
<1>11. << >> \in Seq(DirRecord) /\ Len(<< >>) = 0 /\ Most \in Nat
  BY Constants
<1>12. /\ cache' \in [Inodes -> Seq(DirRecord)] /\ block' \in [Inodes -> Seq(DirRecord)]
       /\ cache'[cur] = s /\ block'[i] = << >>
       /\ \A j \in Inodes \ {cur} : cache'[j] = cache[j]
       /\ \A j \in Inodes \ {i} : block'[j] = block[j]
  BY <1>2, <1>3, <1>5, <1>9, <1>11
<1>13. \A j \in Inodes : Len(cache'[j]) <= Most /\ Len(block'[j]) <= Most
  <2>1. ASSUME NEW j \in Inodes PROVE Len(cache'[j]) <= Most
    BY <1>3, <1>9, <1>12
  <2>2. ASSUME NEW j \in Inodes PROVE Len(block'[j]) <= Most
    <3>1. CASE j = i
      BY <1>11, <1>12, <3>1, Constants
    <3>2. CASE j # i
      BY <1>3, <1>12, <3>2
    <3> QED
      BY <3>1, <3>2
  <2> QED
    BY <2>1, <2>2
<1>14. PICK A : TreeOK(kind, Dirs, Entries, Ups) /\ Ways(Dirs, Ups, A)
  BY DEF IInv, TreeInv
<1>15. i # Root
  BY <1>3, <1>5, <1>14 DEF TreeOK
<1>16. CopiesInv'
  <2>1. \A d \in Dirs' \ {cur} : ListOK(d, block'[d]) /\ cache'[d] \in {Uncached, block'[d]}
    BY <1>3, <1>10, <1>12
  <2>2. cur \in Dirs' /\ Root \in Dirs'
    BY <1>3, <1>7, <1>10, <1>15
  <2> QED
    BY <1>1, <1>2, <1>8, <1>10, <1>12, <1>13, <2>1, <2>2 DEF CopiesInv, ListOK
<1>17. ASSUME NEW d \in Dirs'
       PROVE  /\ Ups'[d] = Ups[d]
              /\ Entries'[d] = IF d = cur THEN Entries[d] \ {e} ELSE Entries[d]
  <2>1. d \in Dirs /\ d # i /\ d \in Inodes
    BY <1>3, <1>10
  <2>2. PICK v, w : v = Seen(d) /\ w = Seen(d)'
    OBVIOUS
  <2>3. v = (IF d = cur THEN ents ELSE block[d]) /\ Ups[d] = v[2].ino
        /\ Entries[d] = ListingOf(v)
    BY <2>1, <2>2, SeenValue DEF IInv
  <2>4. w = (IF d = cur THEN s ELSE block'[d]) /\ Ups'[d] = w[2].ino
        /\ Entries'[d] = ListingOf(w)
    BY <1>1, <1>2, <1>16, <2>2, SeenNext
  <2>5. CASE d = cur
    BY <1>8, <2>3, <2>4, <2>5
  <2>6. CASE d # cur
    BY <1>12, <2>1, <2>3, <2>4, <2>6
  <2> QED
    BY <2>5, <2>6
<1>18. ASSUME NEW d \in Inodes \ {cur} PROVE Entries'[d] = Entries[d]
  <2>1. CASE d \in Dirs'
    BY <1>17, <2>1
  <2>2. CASE d \notin Dirs' /\ d = i
    BY <1>6, <2>2, NoEntries
  <2>3. CASE d \notin Dirs' /\ d # i
    <3>1. d \notin Dirs
      BY <1>10, <2>3
    <3> QED
      BY <2>3, <3>1, NoEntries
  <2> QED
    BY <2>1, <2>2, <2>3
<1>19. Entries'[cur] = Entries[cur] \ {e}
  BY <1>3, <1>7, <1>10, <1>17
<1>20. PICK K2, D2, E2, U2 : K2 = kind' /\ D2 = Dirs' /\ E2 = Entries' /\ U2 = Ups'
  OBVIOUS
<1>21. /\ Agree(Inodes \ {i}, kind, K2) /\ K2[i] = "free" /\ D2 = Dirs \ {i}
       /\ Agree(Inodes \ {cur}, Entries, E2) /\ E2[cur] = Entries[cur] \ {e}
       /\ Agree(D2, Ups, U2)
  BY <1>10, <1>17, <1>18, <1>19, <1>20 DEF Agree
<1>22. TreeOK(K2, D2, E2, U2) /\ \A d \in Dirs : Ups[d] # i \/ d = Root
  <2>1. Cut(kind, Dirs, Entries, Ups, cur, i, e, K2, D2, E2, U2)
    BY <1>3, <1>5, <1>6, <1>14, <1>21 DEF Cut
  <2> QED
    BY <2>1, TreeCut
<1>23. \E A2 : Ways(D2, U2, A2)
  BY <1>14, <1>15, <1>21, <1>22, UpsKnown, WaysCut
<1>24. TreeInv'
  BY <1>20, <1>22, <1>23 DEF TreeInv, TreeOK, Ways
<1>25. Entries' = [Entries EXCEPT ![cur] = @ \ {e}]
  <2>1. PICK F : F = Entries
    OBVIOUS
  <2>2. F = [d \in Inodes |-> F[d]] /\ Entries' = [d \in Inodes |-> Entries'[d]]
    BY <2>1 DEF Entries
  <2>3. \A d \in Inodes : Entries'[d] = IF d = cur THEN F[d] \ {e} ELSE F[d]
    BY <1>18, <1>19, <2>1
  <2>4. Entries' = [d \in Inodes |-> IF d = cur THEN F[d] \ {e} ELSE F[d]]
    BY <2>2, <2>3
  <2>5. [F EXCEPT ![cur] = @ \ {e}] = [d \in Inodes |-> IF d = cur THEN F[d] \ {e} ELSE F[d]]
    BY <1>3, <2>2
  <2> QED
    BY <2>1, <2>4, <2>5
<1>26. Tree!Remove
  BY <1>2, <1>5, <1>6, <1>25 DEF Tree!Remove, Entries
<1> QED
  BY <1>16, <1>24, <1>26 DEF IInv

\* When the current directory is written back all directories are in their blocks.
LEMMA WrittenWhole ==
  ASSUME Fits, IInv, NEW b, b = Written, NEW c, c = Cached
  PROVE  /\ b \in [Inodes -> Seq(DirRecord)] /\ c \in [Inodes -> Seq(DirRecord)]
         /\ \A i \in Inodes : Len(b[i]) <= Most /\ Len(c[i]) <= Most
         /\ \A d \in Dirs : /\ ListOK(d, b[d]) /\ c[d] \in {Uncached, b[d]}
                            /\ b[d] = Seen(d) /\ Stored(b[d]) = b[d]
<1>1. /\ cur \in Dirs /\ cur \in Inodes /\ Dirs \subseteq Inodes /\ ListOK(cur, ents)
      /\ cache \in [Inodes -> Seq(DirRecord)] /\ block \in [Inodes -> Seq(DirRecord)]
      /\ \A j \in Inodes : Len(cache[j]) <= Most /\ Len(block[j]) <= Most
      /\ \A d \in Dirs \ {cur} : ListOK(d, block[d]) /\ cache[d] \in {Uncached, block[d]}
  BY DirsBasic DEF IInv, CopiesInv
<1>2. Stored(ents) = ents /\ ents \in Seq(DirRecord) /\ Len(ents) <= Most
  BY <1>1, StoredWhole, ListTyped
<1>3. b = [block EXCEPT ![cur] = ents] /\ c = [cache EXCEPT ![cur] = ents]
  BY <1>2 DEF Written, Cached
<1>4. /\ b \in [Inodes -> Seq(DirRecord)] /\ c \in [Inodes -> Seq(DirRecord)]
      /\ b[cur] = ents /\ c[cur] = ents
      /\ \A j \in Inodes \ {cur} : b[j] = block[j] /\ c[j] = cache[j]
  BY <1>1, <1>2, <1>3
<1>5. \A i \in Inodes : Len(b[i]) <= Most /\ Len(c[i]) <= Most
  BY <1>1, <1>2, <1>4
<1>6. ASSUME NEW d \in Dirs
      PROVE  /\ ListOK(d, b[d]) /\ c[d] \in {Uncached, b[d]}
             /\ b[d] = Seen(d) /\ Stored(b[d]) = b[d]
  <2>1. Seen(d) = (IF d = cur THEN ents ELSE block[d]) /\ (d # cur => Stored(block[d]) = block[d])
    BY SeenValue DEF IInv
  <2>2. CASE d = cur
    BY <1>1, <1>2, <1>4, <2>1, <2>2
  <2>3. CASE d # cur
    BY <1>1, <1>4, <2>1, <2>3
  <2> QED
    BY <2>2, <2>3
<1> QED
  BY <1>4, <1>5, <1>6

\* The step to directory t, which is all of cd and the end of a restart.
LEMMA MovedStep ==
  ASSUME Fits, IInv, NEW t \in Dirs, cur' = t, kind' = kind,
         NEW b, b = Written, block' = b, ents' = b[t],
         NEW c, cache' = c, c \in [Inodes -> Seq(DirRecord)],
         \A i \in Inodes : Len(c[i]) <= Most,
         \A d \in Dirs \ {t} : c[d] \in {Uncached, b[d]}
  PROVE  IInv' /\ Entries' = Entries
<1>1. /\ b \in [Inodes -> Seq(DirRecord)]
      /\ \A i \in Inodes : Len(b[i]) <= Most
      /\ \A d \in Dirs : ListOK(d, b[d]) /\ b[d] = Seen(d)
  BY WrittenWhole
<1>2. Dirs' = Dirs /\ Root \in Dirs /\ kind \in [Inodes -> {"free", "file", "dir"}]
  BY DEF Dirs, IInv, CopiesInv
<1>3. CopiesInv'
  BY <1>1, <1>2 DEF CopiesInv, ListOK
<1>4. ASSUME NEW d \in Dirs PROVE Seen(d)' = Seen(d)
  <2>1. Seen(d)' = IF d = t THEN b[t] ELSE b[d]
    BY <1>2, <1>3, SeenNext
  <2> QED
    BY <1>1, <2>1
<1> QED
  BY <1>3, <1>4, ViewKept DEF IInv

LEMMA ChdirMoves ==
  ASSUME Fits, IInv, NEW n, Chdir(n), NEW t \in Dirs, t = Found(n)
  PROVE  IInv' /\ Entries' = Entries /\ kind' = kind /\ cur' = t
<1>1. /\ cur' = t /\ block' = Written /\ ents' = Loaded(cur', Cached, block')
      /\ cache' = [Cached EXCEPT ![cur'] = ents'] /\ kind' = kind
  BY DEF Chdir
<1>2. PICK b, c : b = Written /\ c = Cached
  OBVIOUS
<1>3. /\ b \in [Inodes -> Seq(DirRecord)] /\ c \in [Inodes -> Seq(DirRecord)]
      /\ \A i \in Inodes : Len(b[i]) <= Most /\ Len(c[i]) <= Most
      /\ \A d \in Dirs : ListOK(d, b[d]) /\ c[d] \in {Uncached, b[d]}
  BY <1>2, WrittenWhole
<1>4. Loaded(t, c, b) = b[t]
  BY <1>3, LoadedWhole
<1>5. ents' = b[t] /\ block' = b
  <2>1. Loaded(cur', Cached, block') = Loaded(t, c, b)
    BY <1>1, <1>2
  <2> QED
    BY <1>1, <1>2, <1>4, <2>1
<1>6. PICK c2 : c2 = [c EXCEPT ![t] = b[t]] /\ cache' = c2
  BY <1>1, <1>2, <1>5
<1>7. t \in Inodes /\ Dirs \subseteq Inodes
  BY DEF Dirs
<1>8. /\ c2 \in [Inodes -> Seq(DirRecord)]
      /\ \A i \in Inodes : c2[i] = IF i = t THEN b[t] ELSE c[i]
  BY <1>3, <1>6, <1>7
<1>9. /\ \A i \in Inodes : Len(c2[i]) <= Most
      /\ \A d \in Dirs \ {t} : c2[d] \in {Uncached, b[d]}
  BY <1>3, <1>7, <1>8
<1>10. cur' = t /\ kind' = kind /\ b = Written /\ block' = b /\ ents' = b[t] /\ cache' = c2
  BY <1>1, <1>2, <1>5, <1>6
<1>11. c2 \in [Inodes -> Seq(DirRecord)]
  BY <1>8
<1>12. IInv' /\ Entries' = Entries
  BY <1>9, <1>10, <1>11, MovedStep
<1> QED
  BY <1>10, <1>12

\* cd by name enters, "." stays, and ".." climbs or stays at the root.
LEMMA ChdirInv ==
  ASSUME Fits, IInv, NEW n \in Names \cup {".", ".."}, Chdir(n)
  PROVE  IInv' /\ (Tree!Enter \/ Tree!Climb \/ UNCHANGED <<kind, Entries, cur>>)
<1>1. PICK t : t = Found(n)
  OBVIOUS
<1>2. Exists(n) /\ kind[t] = "dir"
  BY <1>1 DEF Chdir
<1>3. /\ cur \in Dirs /\ cur \in Inodes /\ ListOK(cur, ents) /\ Entries[cur] = ListingOf(ents)
      /\ Ups[cur] = ents[2].ino /\ Kinds(kind, Dirs) /\ Dirs \subseteq Inodes
      /\ \A d \in Inodes : d \in Dirs <=> kind[d] = "dir"
  BY DirsBasic, SeenValue DEF IInv, CopiesInv
<1>4. CASE n \in Names
  <2>1. Entry(n, t) \in Entries[cur] /\ t \in Inodes
    BY <1>1, <1>2, <1>3, <1>4, FoundListed
  <2>2. t \in Dirs
    BY <1>2, <1>3, <2>1
  <2>3. IInv' /\ Entries' = Entries /\ kind' = kind /\ cur' = t
    BY <1>1, <2>2, ChdirMoves
  <2>4. PICK e \in Entries[cur] : e.ino = t
    BY <2>1 DEF Entry
  <2>5. Tree!Enter
    BY <1>2, <2>3, <2>4 DEF Tree!Enter, Entries
  <2> QED
    BY <2>3, <2>5
<1>5. CASE n = "."
  <2>1. t = cur
    BY <1>1, <1>3, <1>5, FoundDots
  <2>2. IInv' /\ Entries' = Entries /\ kind' = kind /\ cur' = t
    BY <1>1, <1>3, <2>1, ChdirMoves
  <2> QED
    BY <2>1, <2>2
<1>6. CASE n = ".."
  <2>1. t = Ups[cur]
    BY <1>1, <1>3, <1>6, FoundDots
  <2>2. t \in Dirs /\ Ups[Root] = Root
    BY <1>3, <2>1, UpsKnown
  <2>3. IInv' /\ Entries' = Entries /\ kind' = kind /\ cur' = t
    BY <1>1, <2>2, ChdirMoves
  <2>4. CASE cur = Root
    BY <2>1, <2>2, <2>3, <2>4
  <2>5. CASE cur # Root
    <3>1. \E e \in Entries[t] : e.ino = cur
      BY <1>3, <2>1, <2>5, ListedInParent DEF IInv, TreeInv
    <3>2. Tree!Climb
      BY <1>3, <2>2, <2>3, <3>1 DEF Tree!Climb, Entries
    <3> QED
      BY <2>3, <3>2
  <2> QED
    BY <2>4, <2>5
<1> QED
  BY <1>4, <1>5, <1>6

LEMMA RestartInv ==
  ASSUME Fits, IInv, Restart
  PROVE  IInv' /\ Tree!Restart
<1>1. /\ cur \in Dirs /\ cur \in Inodes /\ Root \in Dirs /\ ListOK(cur, ents)
      /\ Ups[cur] = ents[2].ino /\ Dirs \subseteq Inodes
      /\ \A d \in Inodes : d \in Dirs <=> kind[d] = "dir"
  BY DirsBasic, SeenValue DEF IInv, CopiesInv
<1>2. kind[Found("..")] = "dir"
  <2>1. Found("..") \in Dirs
    BY <1>1, UpsKnown, FoundDots
  <2> QED
    BY <1>1, <2>1
<1>3. PICK b : b = Written
  OBVIOUS
<1>4. /\ \A i \in Inodes : Len(b[i]) <= Most
      /\ b \in [Inodes -> Seq(DirRecord)] /\ Stored(b[Root]) = b[Root]
  BY <1>1, <1>3, WrittenWhole
<1>5. /\ block' = b /\ cur' = Root /\ kind' = kind
      /\ cache' = [i \in Inodes |-> IF i = Root THEN ents' ELSE Uncached]
  BY <1>2, <1>3 DEF Restart
<1>6. ents' = b[Root]
  <2>1. ents' = Stored(block'[Root])
    BY DEF Restart
  <2> QED
    BY <1>4, <1>5, <2>1
<1>7. PICK c : c = cache' /\ c = [i \in Inodes |-> IF i = Root THEN b[Root] ELSE Uncached]
  BY <1>5, <1>6
<1>8. Uncached \in Seq(DirRecord) /\ Len(Uncached) = 0 /\ Most \in Nat /\ Root \in Inodes
  BY Constants DEF Uncached
<1>9. /\ c \in [Inodes -> Seq(DirRecord)]
      /\ \A i \in Inodes : Len(c[i]) <= Most
      /\ \A d \in Dirs \ {Root} : c[d] \in {Uncached, b[d]}
  BY <1>1, <1>4, <1>7, <1>8
<1>10. IInv' /\ Entries' = Entries
  BY <1>1, <1>3, <1>5, <1>6, <1>7, <1>9, MovedStep
<1>11. Tree!Restart
  BY <1>5, <1>10 DEF Tree!Restart, Entries
<1> QED
  BY <1>10, <1>11

\* format() makes the root directory, and nothing else.
LEMMA InitInv ==
  ASSUME Fits, Init
  PROVE  IInv
<1>1. Root \in Inodes /\ Most \in Nat /\ Most >= 2
  BY Constants
<1>2. PICK s : s = ents
  OBVIOUS
<1>3. s = Dots(Root, Root) /\ cur = Root
      /\ cache = [i \in Inodes |-> IF i = Root THEN s ELSE Uncached] /\ block = cache
      /\ kind = [i \in Inodes |-> IF i = Root THEN "dir" ELSE "free"]
  BY <1>2 DEF Init
<1>4. ListOK(Root, s) /\ s[2].ino = Root /\ Len(s) = 2 /\ s \in Seq(DirRecord)
  BY <1>1, <1>3, DotsOK, ListTyped
<1>5. Dirs = {Root}
  BY <1>1, <1>3 DEF Dirs
<1>6. Uncached \in Seq(DirRecord) /\ Len(Uncached) = 0
  BY DEF Uncached
<1>7. /\ cache \in [Inodes -> Seq(DirRecord)] /\ block \in [Inodes -> Seq(DirRecord)]
      /\ \A i \in Inodes : Len(cache[i]) <= Most /\ Len(block[i]) <= Most
  <2>1. \A i \in Inodes : cache[i] = IF i = Root THEN s ELSE Uncached
    BY <1>3
  <2>2. ASSUME NEW i \in Inodes PROVE cache[i] \in Seq(DirRecord) /\ Len(cache[i]) <= Most
    <3>1. CASE i = Root
      <4>1. cache[i] = s
        BY <2>1, <3>1
      <4> QED
        BY <1>1, <1>4, <4>1
    <3>2. CASE i # Root
      <4>1. cache[i] = Uncached
        BY <2>1, <3>2
      <4> QED
        BY <1>1, <1>6, <4>1
    <3> QED
      BY <3>1, <3>2
  <2>3. DOMAIN cache = Inodes /\ cache = [i \in Inodes |-> cache[i]]
    BY <1>3
  <2> QED
    BY <1>3, <2>2, <2>3
<1>8. CopiesInv
  BY <1>2, <1>3, <1>4, <1>5, <1>7 DEF CopiesInv
<1>9. Ups[Root] = Root /\ Entries[Root] = {}
  <2>1. Seen(Root) = s
    BY <1>2, <1>3, <1>5, <1>8, SeenValue
  <2>2. ListingOf(s) = {}
    BY <1>4, ListingParts
  <2> QED
    BY <1>4, <1>5, <1>8, <2>1, <2>2, SeenValue
<1>10. \A d \in Inodes : Entries[d] = {}
  BY <1>5, <1>9, NoEntries
<1>11. TreeOK(kind, Dirs, Entries, Ups)
  BY <1>1, <1>3, <1>5, <1>9, <1>10 DEF TreeOK
<1>12. PICK A : A = [d \in Dirs |-> {Root}]
  OBVIOUS
<1>13. Ways(Dirs, Ups, A)
  BY <1>5, <1>12 DEF Ways
<1> QED
  BY <1>8, <1>11, <1>13 DEF IInv, TreeInv

LEMMA NextInv == Fits /\ IInv /\ [Next]_vars => IInv'
<1> SUFFICES ASSUME Fits, IInv, [Next]_vars PROVE IInv'
  OBVIOUS
<1>1. ASSUME NEW n \in Names, Mkdir(n) PROVE IInv'
  BY <1>1, MkdirInv
<1>2. ASSUME NEW n \in Names, Creat(n) PROVE IInv'
  BY <1>2, CreatInv
<1>3. ASSUME NEW n \in Names, NoSpace(n) PROVE IInv'
  BY <1>3, NoSpaceInv
<1>4. ASSUME NEW n \in Names, Rm(n) PROVE IInv'
  BY <1>4, RmInv
<1>5. ASSUME NEW n \in Names \cup {".", ".."}, Chdir(n) PROVE IInv'
  BY <1>5, ChdirInv
<1>6. CASE Restart
  BY <1>6, RestartInv
<1>7. CASE UNCHANGED vars
  <2>1. kind' = kind /\ cur' = cur /\ ents' = ents /\ cache' = cache /\ block' = block
    BY <1>7 DEF vars
  <2>2. CopiesInv'
    <3>1. Dirs' = Dirs
      BY <2>1 DEF Dirs
    <3>2. PICK s : s = ents'
      OBVIOUS
    <3>3. CopiesInv /\ ListOK(cur, s) /\ kind' \in [Inodes -> {"free", "file", "dir"}]
      BY <2>1, <3>2 DEF IInv, CopiesInv
    <3> QED
      BY <2>1, <3>1, <3>2, <3>3, CopiesEdited
  <2>3. \A d \in Dirs : Seen(d)' = Seen(d)
    BY <2>1 DEF Seen, Loaded
  <2> QED
    BY <2>1, <2>2, <2>3, ViewKept DEF IInv
<1> QED
  BY <1>1, <1>2, <1>3, <1>4, <1>5, <1>6, <1>7 DEF Next

LEMMA InductiveInvariant == Fits => (Spec => []IInv)
<1>1. SUFFICES ASSUME Fits PROVE Spec => []IInv
  OBVIOUS
<1>2. Init => IInv
  BY <1>1, InitInv
<1>3. IInv /\ [Next]_vars => IInv'
  BY <1>1, NextInv
<1> QED
  BY <1>2, <1>3, PTL DEF Spec

-----------------------------------------------------------------------------
(***************************************************************************)
(* The climb of cd ~.                                                      *)
(***************************************************************************)

Parent(d) == Seen(d)[2].ino

\* f holds the directories that n steps up from d lead through.
Climb(d, n, f) == f = [j \in 0 .. n |-> IF j = 0 THEN d ELSE Parent(f[j - 1])]

\* Steps up can be taken for ever.
LEMMA ClimbExists ==
  ASSUME NEW d, NEW n \in Nat
  PROVE  \E f : Climb(d, n, f)
<1> DEFINE T == {k \in Nat : ~ \E f : Climb(d, k, f)}
<1>1. SUFFICES ASSUME T # {} PROVE FALSE
  OBVIOUS
<1>2. PICK k : k = First(T)
  OBVIOUS
<1>3. k \in Nat /\ (~ \E f : Climb(d, k, f)) /\ \A y \in T : k <= y
  BY <1>1, <1>2, FirstIsLeast
<1>4. CASE k = 0
  <2>1. PICK g : g = [i \in 0 .. k |-> d]
    OBVIOUS
  <2>2. \A i \in 0 .. k : i = 0
    BY <1>4
  <2>3. g = [i \in 0 .. k |-> IF i = 0 THEN d ELSE Parent(g[i - 1])]
    BY <2>1, <2>2
  <2> QED
    BY <1>3, <2>3 DEF Climb
<1>5. CASE k # 0
  <2>1. PICK m \in Nat : k = m + 1 /\ m = k - 1
    BY <1>3, <1>5
  <2>2. PICK f : Climb(d, m, f)
    <3>1. m \notin T
      BY <1>3, <2>1
    <3> QED
      BY <3>1
  <2>3. PICK g : g = [i \in 0 .. k |-> IF i <= m THEN f[i] ELSE Parent(f[m])]
    OBVIOUS
  <2>4. ASSUME NEW i \in 0 .. k PROVE g[i] = IF i = 0 THEN d ELSE Parent(g[i - 1])
    <3>1. CASE i = 0
      <4>1. 0 \in 0 .. m /\ 0 <= m /\ 0 \in 0 .. k
        BY <2>1
      <4> QED
        BY <2>2, <2>3, <3>1, <4>1 DEF Climb
    <3>2. CASE i # 0 /\ i <= m
      <4>1. i \in 0 .. m /\ i - 1 \in 0 .. k /\ i - 1 <= m
        BY <2>1, <3>2
      <4>2. g[i] = f[i] /\ g[i - 1] = f[i - 1]
        BY <2>3, <3>2, <4>1
      <4>3. f[i] = Parent(f[i - 1])
        BY <2>2, <3>2, <4>1 DEF Climb
      <4> QED
        BY <3>2, <4>2, <4>3
    <3>3. CASE ~(i <= m)
      <4>1. i = k /\ i - 1 = m /\ m \in 0 .. k /\ m <= m /\ i # 0
        BY <2>1, <3>3
      <4>2. g[i] = Parent(f[m]) /\ g[m] = f[m]
        BY <2>3, <3>3, <4>1
      <4> QED
        BY <4>1, <4>2
    <3> QED
      BY <3>1, <3>2, <3>3
  <2>5. DOMAIN g = 0 .. k /\ g = [i \in 0 .. k |-> g[i]]
    BY <2>3
  <2>6. g = [i \in 0 .. k |-> IF i = 0 THEN d ELSE Parent(g[i - 1])]
    BY <2>4, <2>5
  <2> QED
    BY <1>3, <2>6 DEF Climb
<1> QED
  BY <1>4, <1>5

\* Where k steps up lead.
LEMMA UpValue ==
  ASSUME NEW d, NEW k \in Nat
  PROVE  \E f : Climb(d, k, f) /\ Up(d, k) = f[k]
<1> DEFINE up[j \in 0 .. k] == IF j = 0 THEN d ELSE Seen(up[j - 1])[2].ino
<1>1. Up(d, k) = up[k]
  BY DEF Up
<1>2. up = CHOOSE f : Climb(d, k, f)
  BY DEF Climb, Parent
<1> HIDE DEF up
<1>3. \E f : Climb(d, k, f)
  BY ClimbExists
<1> QED
  BY <1>1, <1>2, <1>3

\* Every step up makes the way to the root shorter by one.
LEMMA ClimbShortens ==
  ASSUME Fits, IInv, NEW A, Ways(Dirs, Ups, A), NEW d \in Dirs, NEW n \in Nat,
         NEW f, Climb(d, n, f)
  PROVE  \A j \in 0 .. n : /\ f[j] \in Dirs
                           /\ f[j] = Root \/ Cardinality(A[f[j]]) + j <= Cardinality(A[d])
<1> DEFINE Good(j) == /\ f[j] \in Dirs
                      /\ f[j] = Root \/ Cardinality(A[f[j]]) + j <= Cardinality(A[d])
           T == {j \in 0 .. n : ~Good(j)}
<1>1. SUFFICES ASSUME T # {} PROVE FALSE
  OBVIOUS
<1>2. PICK k : k = First(T)
  OBVIOUS
<1>3. k \in 0 .. n /\ ~Good(k) /\ \A y \in T : k <= y
  <2>1. T \in SUBSET Nat
    OBVIOUS
  <2>2. k \in T /\ \A y \in T : k <= y
    BY <1>1, <1>2, <2>1, FirstIsLeast
  <2> QED
    BY <2>2
<1>4. \A x \in Dirs : IsFiniteSet(A[x]) /\ Cardinality(A[x]) \in Nat
  <2>1. ASSUME NEW x \in Dirs PROVE A[x] \subseteq Inodes
    BY DEF Ways, Dirs
  <2>2. \A x \in Dirs : IsFiniteSet(A[x])
    BY <2>1, Constants, FS_Subset
  <2> QED
    BY <2>2, FS_CardinalityType
<1>5. CASE k = 0
  <2>1. f[k] = d
    BY <1>3, <1>5 DEF Climb
  <2>2. Cardinality(A[f[k]]) + k <= Cardinality(A[d])
    BY <1>4, <1>5, <2>1
  <2> QED
    BY <1>3, <2>1, <2>2
<1>6. CASE k # 0
  <2>1. PICK m \in 0 .. n : m = k - 1 /\ m \in Nat /\ k = m + 1 /\ m < k
    BY <1>3, <1>6
  <2>2. Good(m)
    BY <1>3, <2>1
  <2>3. PICK x : x = f[m]
    OBVIOUS
  <2>4. x \in Dirs /\ (x = Root \/ Cardinality(A[x]) + m <= Cardinality(A[d]))
    BY <2>2, <2>3
  <2>5. f[k] = Ups[x] /\ Ups[x] \in Dirs /\ Ups[Root] = Root
    <3>1. f[k] = Parent(x)
      BY <1>3, <1>6, <2>1, <2>3 DEF Climb
    <3>2. Parent(x) = Ups[x]
      BY <2>4, SeenValue DEF Parent, IInv
    <3> QED
      BY <2>4, <3>1, <3>2, UpsKnown
  <2>6. CASE x = Root
    BY <1>3, <2>5, <2>6
  <2>7. CASE x # Root
    <3>1. A[x] = A[Ups[x]] \cup {x} /\ x \notin A[Ups[x]]
      BY <2>4, <2>7 DEF Ways
    <3>2. Cardinality(A[x]) = Cardinality(A[Ups[x]]) + 1
      <4>1. PICK S : S = A[Ups[x]] /\ IsFiniteSet(S)
        BY <1>4, <2>5
      <4>2. Cardinality(S \cup {x}) = Cardinality(S) + 1
        BY <3>1, <4>1, FS_AddElement
      <4> QED
        BY <3>1, <4>1, <4>2
    <3>3. Cardinality(A[Ups[x]]) + k <= Cardinality(A[d])
      BY <1>4, <2>1, <2>4, <2>5, <2>7, <3>2
    <3> QED
      BY <1>3, <2>5, <3>3
  <2> QED
    BY <2>6, <2>7
<1> QED
  BY <1>5, <1>6

LEMMA RootReached ==
  ASSUME Fits, IInv, NEW d \in Dirs
  PROVE  Up(d, Cardinality(Inodes)) = Root /\ (Up(d, 1) = d => d = Root)
<1>1. PICK A : Ways(Dirs, Ups, A)
  BY DEF IInv, TreeInv
<1>2. PICK n : n = Cardinality(Inodes)
  OBVIOUS
<1>3. n \in Nat /\ IsFiniteSet(Inodes)
  BY <1>2, Constants, FS_CardinalityType
<1>4. Up(d, n) = Root
  <2>1. PICK f : Climb(d, n, f) /\ Up(d, n) = f[n]
    BY <1>3, UpValue
  <2>2. PICK x : x = f[n]
    OBVIOUS
  <2>3. n \in 0 .. n
    BY <1>3
  <2>4. x \in Dirs /\ (x = Root \/ Cardinality(A[x]) + n <= Cardinality(A[d]))
    BY <1>1, <1>3, <2>1, <2>2, <2>3, ClimbShortens
  <2>5. A[d] \subseteq Inodes /\ A[x] \subseteq Inodes /\ x \in A[x]
    BY <1>1, <2>4 DEF Ways, Dirs
  <2>6. Cardinality(A[d]) <= n /\ Cardinality(A[d]) \in Nat
    BY <1>2, <1>3, <2>5, FS_Subset, FS_CardinalityType
  <2>7. Cardinality(A[x]) \in Nat /\ Cardinality(A[x]) # 0
    BY <1>3, <2>5, FS_Subset, FS_CardinalityType, FS_EmptySet
  <2> QED
    BY <1>3, <2>1, <2>2, <2>4, <2>6, <2>7
<1>5. ASSUME Up(d, 1) = d PROVE d = Root
  <2>1. PICK f : Climb(d, 1, f) /\ Up(d, 1) = f[1]
    BY UpValue
  <2>2. f[0] = d /\ f[1] = Parent(f[0])
    BY <2>1 DEF Climb
  <2>3. Ups[d] = d
    BY <1>5, <2>1, <2>2, SeenValue DEF Parent, IInv
  <2> QED
    BY <1>1, <2>3 DEF Ways
<1> QED
  BY <1>2, <1>4, <1>5

-----------------------------------------------------------------------------
(***************************************************************************)
(* The theorems.                                                           *)
(***************************************************************************)

\* The lists of DirectoryManager stay in their types and within their bounds, and
\* the current directory is one.
THEOREM TypeCorrect ==
  ASSUME Fits
  PROVE  Spec => []TypeOK
<1>1. ASSUME IInv PROVE TypeOK
  <2>1. /\ kind \in [Inodes -> {"free", "file", "dir"}]
        /\ cur \in Inodes /\ kind[cur] = "dir" /\ ListOK(cur, ents)
        /\ \A i \in Inodes : Len(cache[i]) <= Most /\ Len(block[i]) <= Most
        /\ cache \in [Inodes -> Seq(DirRecord)] /\ block \in [Inodes -> Seq(DirRecord)]
    BY <1>1, DirsBasic DEF IInv, CopiesInv
  <2>2. \A i \in Inodes : Len(cache[i]) \in Nat /\ Len(block[i]) \in Nat
    BY <2>1, LenProperties
  <2>3. \A i \in Inodes : Len(cache[i]) <= DIRNUM /\ Len(block[i]) <= DIRENTS
    BY <2>1, <2>2, Constants
  <2>4. /\ ents \in Seq([name : Names \cup {".", ".."}, ino : Inodes \cup {NoIno}])
        /\ Len(ents) \in 2 .. DIRNUM
    <3>1. /\ ents \in Seq(DirRecord) /\ Len(ents) \in Nat /\ Len(ents) >= 2
          /\ Len(ents) <= Most /\ Most \in Nat /\ Most <= DIRNUM /\ DIRNUM \in Nat
      BY <2>1, ListTyped, Constants
    <3>2. Len(ents) \in 2 .. DIRNUM
      BY <3>1
    <3> QED
      BY <3>1, <3>2 DEF DirRecord
  <2> QED
    BY <2>1, <2>3, <2>4 DEF TypeOK
<1> QED
  BY <1>1, InductiveInvariant, PTL

\* A directory that has been left is complete on the disk.
THEOREM OnDisk ==
  ASSUME Fits
  PROVE  Spec => []KeptOnDisk
<1>1. ASSUME IInv PROVE KeptOnDisk
  <2>1. \A d \in Dirs \ {cur} : Seen(d) = block[d] /\ Stored(block[d]) = block[d]
    BY <1>1, SeenValue DEF IInv
  <2> QED
    BY <2>1 DEF KeptOnDisk
<1> QED
  BY <1>1, InductiveInvariant, PTL

\* Every file and directory but the root is listed once, and every entry leads to
\* one.
THEOREM Listings ==
  ASSUME Fits
  PROVE  Spec => []ListedOnce
<1>1. ASSUME IInv PROVE ListedOnce
  <2>1. \A d \in Dirs : Listing(d) = Entries[d] /\ d \in Inodes
    BY DEF Dirs, Entries
  <2>2. TreeOK(kind, Dirs, Entries, Ups)
    BY <1>1 DEF IInv, TreeInv
  <2>3. ASSUME NEW i \in Inodes \ {Root}
        PROVE  kind[i] # "free" <=> \E d \in Dirs : \E e \in Listing(d) : e.ino = i
    BY <2>1, <2>2 DEF TreeOK
  <2>4. \A d, f \in Dirs : \A e \in Listing(d), g \in Listing(f) :
          e.ino = g.ino => d = f /\ e = g
    BY <2>1, <2>2 DEF TreeOK
  <2> QED
    BY <2>3, <2>4 DEF ListedOnce
<1> QED
  BY <1>1, InductiveInvariant, PTL

\* The loop of cd ~, which climbs until the inode stops changing, ends at the root.
THEOREM ClimbEnds ==
  ASSUME Fits
  PROVE  Spec => []UpLeadsToRoot
<1>1. ASSUME IInv PROVE UpLeadsToRoot
  BY <1>1, RootReached DEF UpLeadsToRoot
<1> QED
  BY <1>1, InductiveInvariant, PTL

\* The copies of the entries implement one tree of names: mkdir, creat, rm and cd
\* are the steps of NameTree, and a restart only moves to the root.
THEOREM Implements ==
  ASSUME Fits
  PROVE  Spec => ImplementsTree
<1>1. ASSUME Init PROVE Tree!Init
  <2>1. /\ kind = [i \in Inodes |-> IF i = Root THEN "dir" ELSE "free"] /\ cur = Root
    BY <1>1 DEF Init
  <2>2. IInv
    BY <1>1, InitInv
  <2>3. \A d \in Inodes : Entries[d] = {}
    <3>1. TreeOK(kind, Dirs, Entries, Ups)
      BY <2>2 DEF IInv, TreeInv
    <3>2. ASSUME NEW d \in Inodes, NEW e \in Entries[d] PROVE FALSE
      <4>1. d \in Dirs /\ e \in Links
        BY <3>1, <3>2 DEF TreeOK
      <4>2. e.ino \in Inodes /\ e.ino # Root /\ kind[e.ino] # "free"
        BY <3>1, <3>2, <4>1 DEF TreeOK, Links
      <4> QED
        BY <2>1, <4>2
    <3> QED
      BY <3>2
  <2>4. Entries = [d \in Inodes |-> {}]
    BY <2>3 DEF Entries
  <2> QED
    BY <2>1, <2>4 DEF Tree!Init, Entries
<1>2. ASSUME IInv, [Next]_vars PROVE [Tree!Next]_Tree!vars
  <2>1. ASSUME NEW n \in Names, Mkdir(n) \/ Creat(n) PROVE Tree!Next
    BY <1>2, <2>1, MkdirInv, CreatInv DEF Tree!Next
  <2>2. ASSUME NEW n \in Names, Rm(n) PROVE Tree!Next
    BY <1>2, <2>2, RmInv DEF Tree!Next
  <2>3. ASSUME UNCHANGED <<kind, Entries, cur>> PROVE UNCHANGED Tree!vars
    BY <2>3 DEF Tree!vars, Entries
  <2>4. ASSUME NEW n \in Names, NoSpace(n) PROVE UNCHANGED Tree!vars
    BY <1>2, <2>3, <2>4, NoSpaceInv
  <2>5. ASSUME NEW n \in Names \cup {".", ".."}, Chdir(n) PROVE [Tree!Next]_Tree!vars
    BY <1>2, <2>3, <2>5, ChdirInv DEF Tree!Next
  <2>6. CASE Restart
    BY <1>2, <2>6, RestartInv DEF Tree!Next
  <2>7. CASE UNCHANGED vars
    BY <2>7 DEF vars, Tree!vars, Listing, Seen, Loaded, Live
  <2> QED
    BY <1>2, <2>1, <2>2, <2>4, <2>5, <2>6, <2>7 DEF Next
<1> QED
  BY <1>1, <1>2, InductiveInvariant, PTL DEF Spec, ImplementsTree, Tree!Spec
==============================================================================
