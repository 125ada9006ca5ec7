------------------------------ MODULE FilesProofs ------------------------------
(***************************************************************************)
(* For every number of sessions, names, inodes, blocks and table places:   *)
(* the files of Files keep their references, blocks, descriptors and       *)
(* rights in order.  What is said of the entries of the directory needs    *)
(* room for all names in it, and only that.  The last part is about the    *)
(* bytes in the blocks: the files of Bytes are those of FlatFile.          *)
(***************************************************************************)
EXTENDS Bytes, TLAPS, FiniteSetTheorems, SequenceTheorems, WellFoundedInduction

-----------------------------------------------------------------------------
(***************************************************************************)
(* The inductive invariant.                                                *)
(***************************************************************************)

\* TypeOK without the bound on i_count, which follows from RefCounts.
TypeInv ==
  /\ disk \in [AllInodes -> DinodeRecord]
  /\ core \in [AllInodes -> [count : Nat, di : DinodeRecord]]
  /\ blocks \subseteq Blocks
  /\ inodes \subseteq AllInodes
  /\ dir \in Seq([name : Names \cup {".", ".."}, ino : AllInodes \cup {NoIno}])
  /\ Len(dir) \in 2 .. DIRNUM
  /\ ofile \in [Slot -> [count : 0 .. 1, ino : AllInodes,
                         flag : OpenModes \cup {{}, {"W"}}, off : 0 .. NADDR * BLOCKSIZ]]
  /\ uofile \in [Users -> [Fd -> Slot \cup {None}]]

\* The entries after "." and "..": a live one has a name and an inode of its own,
\* and leads to a file that is not deleted.
DirInv ==
  /\ dir[1].name = "." /\ dir[2] = Entry("..", Cwd)
  /\ \A x \in 3 .. Len(dir) : dir[x].name \in Names
  /\ \A x, y \in 3 .. Len(dir) :
       /\ dir[x].ino # NoIno /\ dir[y].ino # NoIno
       /\ dir[x].name = dir[y].name \/ dir[x].ino = dir[y].ino
       => x = y
  /\ \A x \in 3 .. Len(dir) : dir[x].ino # NoIno =>
       dir[x].ino \in inodes \ {Cwd} /\ Current(dir[x].ino).number > 0

\* An inode that is not in use is blank, and one whose file is deleted is open.
InodeInv ==
  /\ Cwd \in inodes /\ Current(Cwd) = Dinode(1, Root, {})
  /\ \A i \in AllInodes \ inodes : core[i].count = 0 /\ disk[i] = EmptyDinode
  /\ \A i \in inodes : Current(i).number = 0 => OpenSlots(i) # {}

TableInv ==
  /\ SlotsOwned
  /\ RefCounts
  /\ \A s \in Slot : ofile[s].count > 0 => ofile[s].ino \in inodes \ {Cwd}

IInv ==
  TypeInv /\ DirInv /\ InodeInv /\ TableInv /\ BlocksAccounted /\ NoHoles /\ RightsHeld

\* The directory has a place for every name.
Room == IsFiniteSet(Names) /\ Cardinality(Names) + 2 <= DIRNUM

\* What holds besides in a directory with room: one empty entry at most, so that
\* places run out no sooner than names, and an entry for each file.
RoomInv ==
  /\ DotsStay
  /\ \A x, y \in 3 .. Len(dir) : dir[x].ino = NoIno /\ dir[y].ino = NoIno => x = y
  /\ \A i \in inodes \ {Cwd} : Current(i).number > 0 => Listed(i)

-----------------------------------------------------------------------------
(***************************************************************************)
(* The operators.                                                          *)
(***************************************************************************)

\* A set of numbers that is not empty has a least element: what First chooses.
LEMMA FirstIsLeast ==
  ASSUME NEW S \in SUBSET Nat, S # {}
  PROVE  First(S) \in S /\ \A y \in S : First(S) <= y
<1>1. IsWellFoundedOn(OpToRel(<, Nat), Nat)
  BY NatLessThanWellFounded
<1>2. PICK x \in S : \A y \in S : ~(<<y, x>> \in OpToRel(<, Nat))
  BY <1>1, WFMin
<1>3. \A y \in S : ~(y < x)
  BY <1>2 DEF OpToRel
<1>4. \A y \in S : x <= y
  BY <1>3
<1> QED
  BY <1>4, Zenon DEF First

LEMMA Constants ==
  /\ BLOCKSIZ \in Nat \ {0} /\ NADDR \in Nat \ {0} /\ SYSOPENFILE \in Nat \ {0}
  /\ NOFILE \in Nat \ {0} /\ DIRNUM \in Nat /\ DIRNUM >= 2 /\ Sizes \subseteq Nat \ {0}
  /\ NADDR * BLOCKSIZ \in Nat
  /\ Slot \subseteq Nat /\ Fd \subseteq Nat /\ None \notin Slot /\ Index \subseteq Nat
  /\ \A s \in Slot : s < SYSOPENFILE
  /\ ~(None < SYSOPENFILE)
<1>1. /\ BLOCKSIZ \in Nat \ {0} /\ NADDR \in Nat \ {0} /\ SYSOPENFILE \in Nat \ {0}
      /\ NOFILE \in Nat \ {0} /\ DIRNUM \in Nat /\ DIRNUM >= 2 /\ Sizes \subseteq Nat \ {0}
  BY FilesAssumption
<1>2. NADDR * BLOCKSIZ \in Nat
  BY <1>1
<1>3. Slot \subseteq Nat /\ Fd \subseteq Nat /\ Index \subseteq Nat
  BY <1>1 DEF Slot, Fd, Index
<1>4. None \notin Slot /\ (\A s \in Slot : s < SYSOPENFILE) /\ ~(None < SYSOPENFILE)
  BY <1>1 DEF Slot, None
<1> QED
  BY <1>1, <1>2, <1>3, <1>4

LEMMA BlankTyped ==
  /\ NoAddr \in [Index -> Blocks \cup {Hole}]
  /\ \A u \in Users, m \in Modes \cup {{}}, n \in 0 .. 1 : Dinode(n, u, m) \in DinodeRecord
  /\ EmptyDinode \in DinodeRecord
  /\ AddrBlocks(EmptyDinode) = {} /\ EmptyDinode.number = 0
  /\ EmptyDinode.size = 0 /\ EmptyDinode.addr = NoAddr
<1>1. NoAddr \in [Index -> Blocks \cup {Hole}]
  BY DEF NoAddr
<1>2. 0 \in 0 .. NADDR * BLOCKSIZ
  BY Constants
<1>3. \A u \in Users, m \in Modes \cup {{}}, n \in 0 .. 1 : Dinode(n, u, m) \in DinodeRecord
  BY <1>1, <1>2 DEF Dinode, DinodeRecord
<1>4. EmptyDinode \in DinodeRecord
  BY <1>3, FilesAssumption DEF EmptyDinode
<1> QED
  BY <1>1, <1>3, <1>4 DEF EmptyDinode, Dinode, AddrBlocks, NoAddr

LEMMA CurrentTyped ==
  ASSUME TypeInv, NEW i \in AllInodes
  PROVE  Current(i) \in DinodeRecord
BY DEF TypeInv, Current

\* What the inode cache and the lists of free blocks and inodes are after iput()
\* of inode i.
LEMMA IputEffect ==
  ASSUME TypeInv, NEW i \in AllInodes, NEW c \in [count : Nat \ {0}, di : DinodeRecord],
         NEW used \in SUBSET Blocks, Iput(i, c, used)
  PROVE  /\ disk' \in [AllInodes -> DinodeRecord]
         /\ core' \in [AllInodes -> [count : Nat, di : DinodeRecord]]
         /\ blocks' \subseteq Blocks
         /\ inodes' \subseteq AllInodes
         /\ core'[i].count = c.count - 1
         /\ \A j \in AllInodes \ {i} : core'[j] = core[j] /\ disk'[j] = disk[j]
         /\ c.count = 1 /\ c.di.number = 0 =>
              /\ disk'[i] = EmptyDinode /\ Current(i)' = EmptyDinode
              /\ inodes' = inodes \ {i}
              /\ blocks' = used \ AddrBlocks(c.di)
         /\ ~(c.count = 1 /\ c.di.number = 0) =>
              Current(i)' = c.di /\ inodes' = inodes /\ blocks' = used
<1>1. CASE c.count = 1
  <2>1. core' = [core EXCEPT ![i] = NotInCore]
    BY <1>1 DEF Iput
  <2>2. disk' = [disk EXCEPT ![i] = IF c.di.number = 0 THEN EmptyDinode ELSE c.di]
    BY <1>1 DEF Iput
  <2>3. NotInCore \in [count : Nat, di : DinodeRecord] /\ NotInCore.count = 0
    BY BlankTyped DEF NotInCore
  <2>4. blocks' = (IF c.di.number = 0 THEN used \ AddrBlocks(c.di) ELSE used)
        /\ inodes' = (IF c.di.number = 0 THEN inodes \ {i} ELSE inodes)
    BY <1>1 DEF Iput
  <2> QED
    BY <1>1, <2>1, <2>2, <2>3, <2>4, BlankTyped DEF TypeInv, Current
<1>2. CASE c.count # 1
  <2>1. core' = [core EXCEPT ![i] = [c EXCEPT !.count = @ - 1]]
        /\ disk' = disk /\ blocks' = used /\ inodes' = inodes
    BY <1>2 DEF Iput
  <2>2. PICK d : d = [c EXCEPT !.count = @ - 1]
    OBVIOUS
  <2>3. d \in [count : Nat, di : DinodeRecord] /\ d.count = c.count - 1 /\ d.count > 0
        /\ d.di = c.di
    BY <1>2, <2>2
  <2> QED
    BY <1>2, <2>1, <2>2, <2>3 DEF TypeInv, Current
<1> QED
  BY <1>1, <1>2

-----------------------------------------------------------------------------
(***************************************************************************)
(* Blocks.  In the eyes of the programs a step changes one inode.          *)
(***************************************************************************)

Changed(i, d) == \A j \in AllInodes : Current(j)' = IF j = i THEN d ELSE Current(j)

\* Inode i takes free blocks, or gives some up, or goes.
LEMMA BlocksStep ==
  ASSUME TypeInv, BlocksAccounted, NEW i \in AllInodes, NEW d \in DinodeRecord,
         Changed(i, d), inodes' \subseteq AllInodes,
         inodes' \ {i} = inodes \ {i},
         i \in inodes \/ AddrBlocks(Current(i)) = {},
         i \in inodes' \/ AddrBlocks(d) = {},
         \A k, l \in Index : d.addr[k] = d.addr[l] /\ d.addr[k] # Hole => k = l,
         \A k \in Index :
           d.addr[k] \in {Hole} \cup AddrBlocks(Current(i)) \cup (Blocks \ blocks),
         blocks' = (blocks \ AddrBlocks(Current(i))) \cup AddrBlocks(d)
  PROVE  BlocksAccounted'
<1>1. /\ inodes \subseteq AllInodes
      /\ \A j \in inodes : j # i => Current(j)' = Current(j) /\ j \in inodes'
      /\ \A j \in inodes' : j # i => Current(j)' = Current(j) /\ j \in inodes
      /\ Current(i)' = d
  BY DEF Changed, TypeInv
<1>2. /\ \A j, m \in inodes, k, l \in Index :
           Current(j).addr[k] = Current(m).addr[l] /\ Current(j).addr[k] # Hole
             => j = m /\ k = l
      /\ blocks = UNION {AddrBlocks(Current(j)) : j \in inodes}
  BY DEF BlocksAccounted
<1>3. ASSUME NEW m \in inodes, m # i, NEW k \in Index, NEW l \in Index,
             d.addr[k] = Current(m).addr[l], d.addr[k] # Hole
      PROVE  FALSE
  <2>1. d.addr[k] \in AddrBlocks(Current(m)) /\ AddrBlocks(Current(m)) \subseteq blocks
    BY <1>2, <1>3 DEF AddrBlocks
  <2>2. d.addr[k] \in AddrBlocks(Current(i))
    BY <1>3, <2>1
  <2>3. PICK h \in Index : d.addr[k] = Current(i).addr[h]
    BY <2>2 DEF AddrBlocks
  <2>4. i \in inodes
    BY <2>2
  <2>5. Current(m).addr[l] = Current(i).addr[h] /\ Current(m).addr[l] # Hole
    BY <1>3, <2>3
  <2> QED
    BY <1>2, <1>3, <2>4, <2>5
<1>4. ASSUME NEW j \in inodes', NEW m \in inodes', NEW k \in Index, NEW l \in Index,
             Current(j)'.addr[k] = Current(m)'.addr[l], Current(j)'.addr[k] # Hole
      PROVE  j = m /\ k = l
  <2>1. CASE j = i /\ m = i
    BY <1>1, <1>4, <2>1
  <2>2. CASE j = i /\ m # i
    BY <1>1, <1>3, <1>4, <2>2
  <2>3. CASE j # i /\ m = i
    BY <1>1, <1>3, <1>4, <2>3
  <2>4. CASE j # i /\ m # i
    BY <1>1, <1>2, <1>4, <2>4
  <2> QED
    BY <2>1, <2>2, <2>3, <2>4
<1>5. ASSUME NEW b \in blocks'
      PROVE  \E j \in inodes' : b \in AddrBlocks(Current(j)')
  <2>1. CASE b \in AddrBlocks(d)
    BY <1>1, <2>1
  <2>2. CASE b \in blocks \ AddrBlocks(Current(i))
    BY <1>1, <1>2, <2>2
  <2> QED
    BY <2>1, <2>2, <1>5
<1>6. ASSUME NEW j \in inodes', NEW b \in AddrBlocks(Current(j)')
      PROVE  b \in blocks'
  <2>1. CASE j = i
    BY <1>1, <1>6, <2>1
  <2>2. CASE j # i
    <3>1. j \in inodes /\ b \in AddrBlocks(Current(j)) /\ b \in blocks
      BY <1>1, <1>2, <1>6, <2>2
    <3>2. ASSUME b \in AddrBlocks(Current(i)) PROVE FALSE
      <4>1. i \in inodes
        BY <3>2
      <4>2. PICK k, l \in Index : /\ Current(j).addr[k] = b /\ b # Hole
                                 /\ Current(i).addr[l] = b
        BY <3>1, <3>2 DEF AddrBlocks
      <4> QED
        BY <1>2, <2>2, <3>1, <4>1, <4>2
    <3> QED
      BY <3>1, <3>2
  <2> QED
    BY <2>1, <2>2
<1>7. \A j \in inodes' : AddrBlocks(Current(j))' = AddrBlocks(Current(j)')
  BY DEF AddrBlocks
<1>8. blocks' = UNION {AddrBlocks(Current(j)) : j \in inodes}'
  BY <1>5, <1>6, <1>7
<1> QED
  BY <1>4, <1>8 DEF BlocksAccounted

-----------------------------------------------------------------------------
(***************************************************************************)
(* The tables of open files.                                               *)
(***************************************************************************)

SameSlots(table) ==
  /\ table \in [Slot -> [count : 0 .. 1, ino : AllInodes,
                         flag : OpenModes \cup {{}, {"W"}}, off : 0 .. NADDR * BLOCKSIZ]]
  /\ \A s \in Slot : /\ table[s].count = ofile[s].count
                     /\ table[s].ino = ofile[s].ino
                     /\ table[s].flag = ofile[s].flag

LEMMA RewoundSame ==
  ASSUME TypeInv, NEW i
  PROVE  SameSlots(ofile) /\ SameSlots(Rewound(i))
<1>1. SameSlots(ofile)
  BY DEF TypeInv, SameSlots
<1>2. 0 \in 0 .. NADDR * BLOCKSIZ
  BY Constants
<1>3. SameSlots(Rewound(i))
  BY <1>2 DEF TypeInv, SameSlots, Rewound
<1> QED
  BY <1>1, <1>3

\* Nothing is opened or closed: offsets change at most.
LEMMA TablesKept ==
  ASSUME TypeInv, SlotsOwned, SameSlots(ofile'), uofile' = uofile
  PROVE  SlotsOwned' /\ \A j \in AllInodes : OpenSlots(j)' = OpenSlots(j)
BY DEF SlotsOwned, SameSlots, OpenSlots

\* A free slot is linked to inode i and to a free descriptor of u.
LEMMA TablesLinked ==
  ASSUME TypeInv, SlotsOwned, NEW u \in Users, CanOpen(u), NEW i \in AllInodes,
         NEW flag \in OpenModes \cup {{}, {"W"}}, NEW off \in 0 .. NADDR * BLOCKSIZ,
         NEW table, SameSlots(table), Link(u, i, flag, off, table)
  PROVE  /\ SlotsOwned'
         /\ ofile' \in [Slot -> [count : 0 .. 1, ino : AllInodes,
                         flag : OpenModes \cup {{}, {"W"}}, off : 0 .. NADDR * BLOCKSIZ]]
         /\ uofile' \in [Users -> [Fd -> Slot \cup {None}]]
         /\ \E s \in Slot, fd \in Fd :
              /\ ofile[s].count = 0
              /\ uofile[u][fd] = None
              /\ ofile'[s] = [count |-> 1, ino |-> i, flag |-> flag, off |-> off]
              /\ \A t \in Slot \ {s} : ofile'[t] = table[t]
              /\ uofile' = [uofile EXCEPT ![u][fd] = s]
              /\ OpenSlots(i)' = OpenSlots(i) \cup {s} /\ s \notin OpenSlots(i)
              /\ \A j \in AllInodes \ {i} : OpenSlots(j)' = OpenSlots(j)
<1>1. PICK s, fd : s = First(FreeSlots) /\ fd = First(FreeFds(u))
  OBVIOUS
<1>2. s \in Slot /\ ofile[s].count = 0
  <2>1. FreeSlots \in SUBSET Nat /\ FreeSlots # {}
    BY Constants DEF CanOpen, FreeSlots
  <2> QED
    BY <1>1, <2>1, FirstIsLeast DEF FreeSlots
<1>3. fd \in Fd /\ uofile[u][fd] = None
  <2>1. FreeFds(u) \in SUBSET Nat /\ FreeFds(u) # {}
    BY Constants DEF CanOpen, FreeFds
  <2> QED
    BY <1>1, <2>1, FirstIsLeast DEF FreeFds
<1>4. PICK f : f = [count |-> 1, ino |-> i, flag |-> flag, off |-> off]
  OBVIOUS
<1>5. /\ f \in [count : 0 .. 1, ino : AllInodes,
                flag : OpenModes \cup {{}, {"W"}}, off : 0 .. NADDR * BLOCKSIZ]
      /\ f.count = 1 /\ f.ino = i
  BY <1>4
<1>6. ofile' = [table EXCEPT ![s] = f] /\ uofile' = [uofile EXCEPT ![u][fd] = s]
  BY <1>1, <1>4 DEF Link
<1>7. /\ ofile' \in [Slot -> [count : 0 .. 1, ino : AllInodes,
                     flag : OpenModes \cup {{}, {"W"}}, off : 0 .. NADDR * BLOCKSIZ]]
      /\ ofile'[s] = f
      /\ \A t \in Slot \ {s} : ofile'[t] = table[t]
  BY <1>2, <1>5, <1>6 DEF SameSlots
<1>8. /\ uofile \in [Users -> [Fd -> Slot \cup {None}]]
      /\ uofile' \in [Users -> [Fd -> Slot \cup {None}]]
      /\ uofile'[u][fd] = s
      /\ \A v \in Users, g \in Fd : v # u \/ g # fd => uofile'[v][g] = uofile[v][g]
  BY <1>2, <1>3, <1>6 DEF TypeInv
<1>9. \A v \in Users, g \in Fd : uofile[v][g] # s
  BY <1>2 DEF SlotsOwned
<1>10. SlotsOwned'
  <2>1. ASSUME NEW t \in Slot
        PROVE  ofile'[t].count > 0 <=> \E v \in Users, g \in Fd : uofile'[v][g] = t
    <3>1. CASE t = s
      BY <3>1, <1>3, <1>5, <1>7, <1>8
    <3>2. CASE t # s
      <4>1. ofile'[t].count > 0 <=> ofile[t].count > 0
        BY <3>2, <1>7 DEF SameSlots
      <4>2. ofile[t].count > 0 <=> \E v \in Users, g \in Fd : uofile[v][g] = t
        BY DEF SlotsOwned
      <4>3. t # None
        BY Constants
      <4> QED
        BY <3>2, <4>1, <4>2, <4>3, <1>3, <1>8
    <3> QED
      BY <3>1, <3>2
  <2>2. \A v, w \in Users, f1, g \in Fd :
          uofile'[v][f1] = uofile'[w][g] /\ uofile'[v][f1] # None => v = w /\ f1 = g
    BY <1>8, <1>9 DEF SlotsOwned
  <2> QED
    BY <2>1, <2>2 DEF SlotsOwned
<1>11. OpenSlots(i)' = OpenSlots(i) \cup {s} /\ s \notin OpenSlots(i)
  BY <1>2, <1>5, <1>7 DEF OpenSlots, SameSlots
<1>12. \A j \in AllInodes \ {i} : OpenSlots(j)' = OpenSlots(j)
  BY <1>2, <1>5, <1>7 DEF OpenSlots, SameSlots
<1> QED
  BY <1>2, <1>3, <1>4, <1>6, <1>7, <1>8, <1>10, <1>11, <1>12

\* A slot is closed with the one descriptor that designates it.
LEMMA TablesClosed ==
  ASSUME TypeInv, SlotsOwned, NEW u \in Users, NEW fd \in Fd, NEW s \in Slot,
         NEW i \in AllInodes, i = ofile[s].ino,
         s = uofile[u][fd], ofile' = [ofile EXCEPT ![s] = Closed],
         uofile' = [uofile EXCEPT ![u][fd] = None]
  PROVE  /\ SlotsOwned'
         /\ ofile' \in [Slot -> [count : 0 .. 1, ino : AllInodes,
                         flag : OpenModes \cup {{}, {"W"}}, off : 0 .. NADDR * BLOCKSIZ]]
         /\ uofile' \in [Users -> [Fd -> Slot \cup {None}]]
         /\ s \in OpenSlots(i)
         /\ OpenSlots(i)' = OpenSlots(i) \ {s}
         /\ \A j \in AllInodes \ {i} : OpenSlots(j)' = OpenSlots(j)
<1>1. /\ Closed \in [count : 0 .. 1, ino : AllInodes,
                     flag : OpenModes \cup {{}, {"W"}}, off : 0 .. NADDR * BLOCKSIZ]
      /\ Closed.count = 0
  BY Constants DEF Closed, AllInodes
<1>2. /\ ofile' \in [Slot -> [count : 0 .. 1, ino : AllInodes,
                     flag : OpenModes \cup {{}, {"W"}}, off : 0 .. NADDR * BLOCKSIZ]]
      /\ ofile'[s] = Closed
      /\ \A t \in Slot \ {s} : ofile'[t] = ofile[t]
  BY <1>1 DEF TypeInv
<1>3. /\ uofile' \in [Users -> [Fd -> Slot \cup {None}]]
      /\ uofile'[u][fd] = None
      /\ \A v \in Users, g \in Fd : v # u \/ g # fd => uofile'[v][g] = uofile[v][g]
  BY DEF TypeInv
<1>4. /\ s # None /\ ofile[s].count > 0
      /\ \A v \in Users, g \in Fd : v # u \/ g # fd => uofile[v][g] # s
  BY Constants DEF SlotsOwned
<1>5. SlotsOwned'
  <2>1. ASSUME NEW t \in Slot
        PROVE  ofile'[t].count > 0 <=> \E v \in Users, g \in Fd : uofile'[v][g] = t
    <3>1. CASE t = s
      <4>1. \A v \in Users, g \in Fd : uofile'[v][g] # s
        BY <1>3, <1>4
      <4> QED
        BY <3>1, <4>1, <1>1, <1>2
    <3>2. CASE t # s
      <4>1. ofile[t].count > 0 <=> \E v \in Users, g \in Fd : uofile[v][g] = t
        BY DEF SlotsOwned
      <4>2. t # None
        BY Constants
      <4> QED
        BY <3>2, <4>1, <4>2, <1>2, <1>3
    <3> QED
      BY <3>1, <3>2
  <2>2. \A v, w \in Users, f1, g \in Fd :
          uofile'[v][f1] = uofile'[w][g] /\ uofile'[v][f1] # None => v = w /\ f1 = g
    BY <1>3 DEF SlotsOwned
  <2> QED
    BY <2>1, <2>2 DEF SlotsOwned
<1>6. i = ofile[s].ino
  OBVIOUS
<1>7. \A t \in Slot : t # s => ofile'[t].count = ofile[t].count /\ ofile'[t].ino = ofile[t].ino
  BY <1>2
<1>8. s \in OpenSlots(i) /\ OpenSlots(i)' = OpenSlots(i) \ {s}
  BY <1>1, <1>2, <1>4, <1>6, <1>7 DEF OpenSlots
<1>9. \A j \in AllInodes \ {i} : OpenSlots(j)' = OpenSlots(j)
  BY <1>1, <1>2, <1>4, <1>6, <1>7 DEF OpenSlots
<1> QED
  BY <1>2, <1>3, <1>5, <1>8, <1>9

\* i_count follows the slots that are open on the inode.
LEMMA RefStep ==
  ASSUME TypeInv, RefCounts, NEW i \in AllInodes,
         \A j \in AllInodes \ {i} : /\ core'[j].count = core[j].count
                                    /\ OpenSlots(j)' = OpenSlots(j),
         \/ OpenSlots(i)' = OpenSlots(i) /\ core'[i].count = core[i].count
         \/ \E s : /\ s \notin OpenSlots(i) /\ OpenSlots(i)' = OpenSlots(i) \cup {s}
                   /\ core'[i].count = core[i].count + 1
         \/ \E s : /\ s \in OpenSlots(i) /\ OpenSlots(i)' = OpenSlots(i) \ {s}
                   /\ core'[i].count = core[i].count - 1
  PROVE  RefCounts'
<1>1. \A j \in AllInodes : core[j].count = Cardinality(OpenSlots(j)) + (IF j = Cwd THEN 1 ELSE 0)
  BY DEF RefCounts
<1>2. IsFiniteSet(OpenSlots(i)) /\ Cardinality(OpenSlots(i)) \in Nat
  <2>1. IsFiniteSet(Slot)
    BY Constants, FS_Interval DEF Slot
  <2>2. OpenSlots(i) \in SUBSET Slot
    BY DEF OpenSlots
  <2> QED
    BY <2>1, <2>2, FS_Subset, FS_CardinalityType
<1>3. core'[i].count = Cardinality(OpenSlots(i)') + (IF i = Cwd THEN 1 ELSE 0)
  <2>1. CASE OpenSlots(i)' = OpenSlots(i) /\ core'[i].count = core[i].count
    BY <1>1, <2>1
  <2>2. ASSUME NEW s, s \notin OpenSlots(i), OpenSlots(i)' = OpenSlots(i) \cup {s},
               core'[i].count = core[i].count + 1
        PROVE  core'[i].count = Cardinality(OpenSlots(i)') + (IF i = Cwd THEN 1 ELSE 0)
    <3>1. Cardinality(OpenSlots(i)') = Cardinality(OpenSlots(i)) + 1
      BY <1>2, <2>2, FS_AddElement, ZenonT(60)
    <3> QED
      BY <1>1, <1>2, <2>2, <3>1
  <2>3. ASSUME NEW s, s \in OpenSlots(i), OpenSlots(i)' = OpenSlots(i) \ {s},
               core'[i].count = core[i].count - 1
        PROVE  core'[i].count = Cardinality(OpenSlots(i)') + (IF i = Cwd THEN 1 ELSE 0)
    <3>1. Cardinality(OpenSlots(i)') = Cardinality(OpenSlots(i)) - 1
      BY <1>2, <2>3, FS_RemoveElement, ZenonT(60)
    <3> QED
      BY <1>1, <1>2, <2>3, <3>1
  <2> QED
    BY <2>1, <2>2, <2>3
<1>4. \A j \in AllInodes :
        core'[j].count = Cardinality(OpenSlots(j)') + (IF j = Cwd THEN 1 ELSE 0)
  BY <1>1, <1>3
<1> QED
  BY <1>4 DEF RefCounts

\* An inode in use by an open slot is in memory, and i_count is bounded by the
\* size of the table.
LEMMA CountBounds ==
  ASSUME TypeInv, RefCounts, NEW i \in AllInodes
  PROVE  /\ core[i].count \in 0 .. SYSOPENFILE
         /\ OpenSlots(i) # {} => core[i].count > 0
         /\ i # Cwd /\ core[i].count > 0 => OpenSlots(i) # {}
         /\ i # Cwd /\ core[i].count = 1 => \A s \in OpenSlots(i) : OpenSlots(i) = {s}
<1>1. core[i].count = Cardinality(OpenSlots(i)) + (IF i = Cwd THEN 1 ELSE 0)
  BY DEF RefCounts
<1>2. IsFiniteSet(Slot) /\ Cardinality(Slot) = SYSOPENFILE - 1
  <2>1. 1 \in Int /\ SYSOPENFILE - 1 \in Int /\ SYSOPENFILE \in Nat \ {0}
    BY Constants
  <2>2. IsFiniteSet(Slot) /\ Cardinality(Slot) =
          IF 1 > SYSOPENFILE - 1 THEN 0 ELSE SYSOPENFILE - 1 - 1 + 1
    BY <2>1, FS_Interval DEF Slot
  <2> QED
    BY <2>1, <2>2
<1>3. OpenSlots(i) \in SUBSET Slot
  BY DEF OpenSlots
<1>4. /\ IsFiniteSet(OpenSlots(i)) /\ Cardinality(OpenSlots(i)) \in Nat
      /\ Cardinality(OpenSlots(i)) <= SYSOPENFILE - 1
  BY <1>2, <1>3, FS_Subset, FS_CardinalityType
<1>5. Cardinality(OpenSlots(i)) = 0 <=> OpenSlots(i) = {}
  BY <1>4, FS_EmptySet
<1>6. Cardinality(OpenSlots(i)) = 1 => \E x : OpenSlots(i) = {x}
  BY <1>4, FS_Singleton
<1> QED
  BY <1>1, <1>4, <1>5, <1>6, Constants

-----------------------------------------------------------------------------
(***************************************************************************)
(* A step changes the inode i to d.                                        *)
(***************************************************************************)

CacheStep(i, d) ==
  /\ Changed(i, d)
  /\ disk' \in [AllInodes -> DinodeRecord]
  /\ core' \in [AllInodes -> [count : Nat, di : DinodeRecord]]
  /\ \A j \in AllInodes \ {i} : core'[j] = core[j] /\ disk'[j] = disk[j]
  /\ inodes' \subseteq AllInodes /\ inodes' \ {i} = inodes \ {i}

LEMMA InodeStep ==
  ASSUME TypeInv, InodeInv, NEW i \in Inodes, NEW d \in DinodeRecord, CacheStep(i, d),
         i \in inodes' \/ (core'[i].count = 0 /\ disk'[i] = EmptyDinode),
         \A j \in AllInodes \ {i} : OpenSlots(j)' = OpenSlots(j),
         i \in inodes' /\ d.number = 0 => OpenSlots(i)' # {}
  PROVE  InodeInv'
<1>1. i # Cwd /\ Cwd \in AllInodes /\ i \in AllInodes
  BY FilesAssumption DEF AllInodes
<1>2. \A j \in AllInodes : Current(j)' = IF j = i THEN d ELSE Current(j)
  BY DEF CacheStep, Changed
<1>3. Cwd \in inodes' /\ Current(Cwd)' = Dinode(1, Root, {})
  BY <1>1, <1>2 DEF InodeInv, CacheStep
<1>4. \A j \in AllInodes \ inodes' : core'[j].count = 0 /\ disk'[j] = EmptyDinode
  BY <1>1 DEF InodeInv, CacheStep
<1>5. \A j \in inodes' : Current(j)'.number = 0 => OpenSlots(j)' # {}
  BY <1>2 DEF InodeInv, CacheStep
<1>6. Dinode(1, Root, {})' = Dinode(1, Root, {}) /\ EmptyDinode' = EmptyDinode
      /\ AllInodes' = AllInodes
  BY DEF Dinode, EmptyDinode, NoAddr, Index, AllInodes
<1> QED
  BY <1>3, <1>4, <1>5, <1>6 DEF InodeInv

\* The directory does not change.
LEMMA DirKept ==
  ASSUME TypeInv, DirInv, NEW i \in Inodes, NEW d \in DinodeRecord, CacheStep(i, d),
         dir' = dir, Listed(i) => i \in inodes' /\ d.number > 0
  PROVE  DirInv'
<1>1. \A x \in 3 .. Len(dir) : dir[x].ino # NoIno =>
         dir[x].ino \in inodes' \ {Cwd} /\ Current(dir[x].ino)'.number > 0
  BY DEF DirInv, CacheStep, Changed, Listed, TypeInv
<1> QED
  BY <1>1 DEF DirInv

LEMMA HolesStep ==
  ASSUME NoHoles, NEW i \in Inodes, NEW d \in DinodeRecord, CacheStep(i, d),
         \A k \in Index : d.addr[k] # Hole <=> k * BLOCKSIZ < d.size,
         \A s \in Slot : ofile'[s].count > 0 =>
           /\ ofile'[s].ino \in AllInodes
           /\ ofile'[s].off <= IF ofile'[s].ino = i THEN d.size
                                                    ELSE Current(ofile'[s].ino).size
  PROVE  NoHoles'
<1>1. \A j \in AllInodes : Current(j)' = IF j = i THEN d ELSE Current(j)
  BY DEF CacheStep, Changed
<1>2. ASSUME NEW j \in Inodes, NEW k \in Index
      PROVE  Current(j)'.addr[k] # Hole <=> k * BLOCKSIZ < Current(j)'.size
  BY <1>1 DEF NoHoles, AllInodes
<1>3. \A s \in Slot : ofile'[s].count > 0 => ofile'[s].off <= Current(ofile[s].ino)'.size
  BY <1>1
<1> QED
  BY <1>2, <1>3 DEF NoHoles

\* What somebody may do with a file depends on its owner and its mode.
LEMMA AccessSame ==
  ASSUME NEW d, NEW e, d.owner = e.owner, d.mode = e.mode, NEW u, NEW kind
  PROVE  Access(u, d, kind) = Access(u, e, kind)
BY DEF Access, Class

LEMMA RightsStep ==
  ASSUME TypeInv, RightsHeld, TableInv, TableInv', NEW i \in Inodes,
         NEW d \in DinodeRecord, CacheStep(i, d),
         uofile' \in [Users -> [Fd -> Slot \cup {None}]],
         OpenSlots(i) # {} /\ OpenSlots(i)' # {} =>
           d.owner = Current(i).owner /\ d.mode = Current(i).mode,
         \A u \in Users, fd \in Fd : uofile'[u][fd] # None =>
           LET s == uofile'[u][fd]
           IN  \/ /\ uofile[u][fd] = s
                  /\ ofile'[s].ino = ofile[s].ino /\ ofile'[s].flag = ofile[s].flag
               \/ /\ ofile'[s].ino = i
                  /\ \A kind \in Needs(ofile'[s].flag) : Access(u, d, kind) \/ u = d.owner
  PROVE  RightsHeld'
<1>1. ASSUME NEW u \in Users, NEW fd \in Fd, NEW s, s = uofile'[u][fd], s # None,
             NEW kind \in Needs(ofile'[s].flag)
      PROVE  LET di == core'[ofile'[s].ino].di
             IN  Access(u, di, kind) \/ u = di.owner
  <2>1. PICK j : j = ofile'[s].ino
    OBVIOUS
  <2>2. s \in Slot
    BY <1>1
  <2>3. ofile'[s].count > 0 /\ j \in inodes' \ {Cwd}
    BY <1>1, <2>1, <2>2 DEF TableInv, SlotsOwned
  <2>4. j \in AllInodes /\ core'[j].di = Current(j)'
    <3>1. s \in OpenSlots(j)'
      BY <2>1, <2>2, <2>3 DEF OpenSlots
    <3>2. IsFiniteSet(OpenSlots(j)')
      BY FS_Subset, FS_Interval, Constants, SMTT(30) DEF OpenSlots, Slot
    <3>3. j \in AllInodes
      BY <2>3 DEF CacheStep
    <3>4. core'[j].count = Cardinality(OpenSlots(j)') + (IF j = Cwd THEN 1 ELSE 0)
      BY <3>3 DEF TableInv, RefCounts
    <3>5. Cardinality(OpenSlots(j)') \in Nat \ {0}
      BY <3>1, <3>2, FS_EmptySet, FS_CardinalityType
    <3>6. core'[j].count > 0
      BY <3>4, <3>5
    <3> QED
      BY <3>3, <3>6 DEF Current
  <2>5. CASE /\ uofile[u][fd] = s
             /\ ofile'[s].ino = ofile[s].ino /\ ofile'[s].flag = ofile[s].flag
    <3>1. ofile[s].count > 0 /\ s \in OpenSlots(j)
      BY <1>1, <2>1, <2>2, <2>5 DEF TableInv, SlotsOwned, OpenSlots
    <3>2. core[j].count > 0 /\ core[j].di = Current(j)
      BY <2>4, <3>1, CountBounds DEF TableInv, Current
    <3>3. Access(u, Current(j), kind) \/ u = Current(j).owner
      <4>1. j = ofile[s].ino /\ s = uofile[u][fd] /\ kind \in Needs(ofile[s].flag)
        BY <1>1, <2>1, <2>5
      <4>2. \A x \in Needs(ofile[s].flag) :
              Access(u, core[j].di, x) \/ u = core[j].di.owner
        BY <1>1, <4>1 DEF RightsHeld
      <4> QED
        BY <3>2, <4>1, <4>2
    <3>4. Current(j)'.owner = Current(j).owner /\ Current(j)'.mode = Current(j).mode
      <4>1. s \in OpenSlots(j)'
        BY <2>1, <2>2, <2>3 DEF OpenSlots
      <4> QED
        BY <2>4, <3>1, <4>1 DEF CacheStep, Changed
    <3>5. Access(u, Current(j)', kind) = Access(u, Current(j), kind)
      BY <3>4, AccessSame
    <3> QED
      BY <2>1, <2>4, <3>3, <3>4, <3>5
  <2>6. CASE /\ ofile'[s].ino = i
             /\ \A x \in Needs(ofile'[s].flag) : Access(u, d, x) \/ u = d.owner
    BY <1>1, <2>1, <2>4, <2>6 DEF CacheStep, Changed
  <2> QED
    BY <1>1, <2>5, <2>6
<1>2. \A u \in Users, fd \in Fd : uofile'[u][fd] # None =>
        \A kind \in Needs(ofile'[uofile'[u][fd]].flag) :
          \/ Access(u, core'[ofile'[uofile'[u][fd]].ino].di, kind)
          \/ u = core'[ofile'[uofile'[u][fd]].ino].di.owner
  BY <1>1
<1> QED
  BY <1>2 DEF RightsHeld

\* What the blocks of inode i may become.
BlocksMoved(i, d) ==
  /\ \A k, l \in Index : d.addr[k] = d.addr[l] /\ d.addr[k] # Hole => k = l
  /\ \A k \in Index : d.addr[k] \in {Hole} \cup AddrBlocks(Current(i)) \cup (Blocks \ blocks)
  /\ \A k \in Index : d.addr[k] # Hole <=> k * BLOCKSIZ < d.size
  /\ blocks' = (blocks \ AddrBlocks(Current(i))) \cup AddrBlocks(d)

\* What the tables may become, as far as inode i is concerned.
TablesMoved(i, d) ==
  /\ SlotsOwned'
  /\ RefCounts'
  /\ ofile' \in [Slot -> [count : 0 .. 1, ino : AllInodes,
                 flag : OpenModes \cup {{}, {"W"}}, off : 0 .. NADDR * BLOCKSIZ]]
  /\ uofile' \in [Users -> [Fd -> Slot \cup {None}]]
  /\ \A j \in AllInodes \ {i} : OpenSlots(j)' = OpenSlots(j)
  /\ \A s \in Slot : ofile'[s].count > 0 =>
       ofile'[s].off <= IF ofile'[s].ino = i THEN d.size ELSE Current(ofile'[s].ino).size
  /\ \A u \in Users, fd \in Fd : uofile'[u][fd] # None =>
       LET s == uofile'[u][fd]
       IN  \/ /\ uofile[u][fd] = s
              /\ ofile'[s].ino = ofile[s].ino /\ ofile'[s].flag = ofile[s].flag
           \/ /\ ofile'[s].ino = i
              /\ \A kind \in Needs(ofile'[s].flag) : Access(u, d, kind) \/ u = d.owner

\* The invariant but for what it says of the directory.
FilesInv ==
  /\ disk \in [AllInodes -> DinodeRecord]
  /\ core \in [AllInodes -> [count : Nat, di : DinodeRecord]]
  /\ blocks \subseteq Blocks
  /\ inodes \subseteq AllInodes
  /\ ofile \in [Slot -> [count : 0 .. 1, ino : AllInodes,
                         flag : OpenModes \cup {{}, {"W"}}, off : 0 .. NADDR * BLOCKSIZ]]
  /\ uofile \in [Users -> [Fd -> Slot \cup {None}]]
  /\ InodeInv /\ TableInv /\ BlocksAccounted /\ NoHoles /\ RightsHeld

LEMMA FilesStep ==
  ASSUME IInv, NEW i \in Inodes, NEW d \in DinodeRecord, CacheStep(i, d),
         BlocksMoved(i, d), TablesMoved(i, d),
         \/ i \in inodes' /\ (d.number = 0 => OpenSlots(i)' # {})
         \/ /\ i \notin inodes' /\ OpenSlots(i)' = {}
            /\ core'[i].count = 0 /\ disk'[i] = EmptyDinode,
         OpenSlots(i) # {} /\ OpenSlots(i)' # {} =>
           d.owner = Current(i).owner /\ d.mode = Current(i).mode
  PROVE  FilesInv'
<1> USE DEF IInv
<1>1. i \in AllInodes /\ i # Cwd /\ Current(i) \in DinodeRecord
  BY CurrentTyped, FilesAssumption DEF AllInodes
<1>2. blocks' \subseteq Blocks
  <2>1. AddrBlocks(d) \subseteq Blocks
    BY DEF AddrBlocks, DinodeRecord
  <2> QED
    BY <2>1 DEF BlocksMoved, TypeInv
<1>3. InodeInv'
  <2>1. \A j \in AllInodes \ {i} : OpenSlots(j)' = OpenSlots(j)
    BY DEF TablesMoved
  <2>2. i \in inodes' \/ (core'[i].count = 0 /\ disk'[i] = EmptyDinode)
    OBVIOUS
  <2>3. i \in inodes' /\ d.number = 0 => OpenSlots(i)' # {}
    OBVIOUS
  <2> QED
    BY <2>1, <2>2, <2>3, InodeStep
<1>4. i \in inodes' \/ AddrBlocks(d) = {}
  <2>1. CASE core'[i].count = 0 /\ disk'[i] = EmptyDinode
    <3>1. Current(i)' = EmptyDinode /\ Current(i)' = d
      BY <1>1, <2>1 DEF CacheStep, Changed, Current
    <3> QED
      BY <3>1, BlankTyped
  <2> QED
    BY <2>1
<1>5. i \in inodes \/ AddrBlocks(Current(i)) = {}
  BY <1>1, BlankTyped DEF InodeInv, Current
<1>6. BlocksAccounted'
  BY <1>1, <1>4, <1>5, BlocksStep DEF BlocksMoved, CacheStep
<1>7. TableInv'
  <2>1. ASSUME NEW s \in Slot, ofile'[s].count > 0
        PROVE  ofile'[s].ino \in inodes' \ {Cwd}
    <3>1. PICK j : j = ofile'[s].ino
      OBVIOUS
    <3>2. j \in AllInodes /\ s \in OpenSlots(j)'
      BY <2>1, <3>1 DEF TablesMoved, OpenSlots
    <3>3. CASE j = i
      BY <1>1, <3>1, <3>2, <3>3
    <3>4. CASE j # i
      <4>1. s \in OpenSlots(j)
        BY <3>2, <3>4 DEF TablesMoved
      <4>2. j \in inodes \ {Cwd}
        BY <4>1 DEF OpenSlots, TableInv
      <4> QED
        BY <3>1, <3>4, <4>2 DEF CacheStep
    <3> QED
      BY <3>3, <3>4
  <2> QED
    BY <2>1 DEF TableInv, TablesMoved
<1>8. NoHoles'
  <2>1. \A s \in Slot : ofile'[s].ino \in AllInodes
    BY DEF TablesMoved
  <2> QED
    BY <2>1, HolesStep DEF BlocksMoved, TablesMoved
<1>9. RightsHeld'
  BY <1>7, RightsStep DEF TablesMoved
<1> QED
  BY <1>2, <1>3, <1>6, <1>7, <1>8, <1>9 DEF FilesInv, CacheStep, TablesMoved

-----------------------------------------------------------------------------
(***************************************************************************)
(* The entries of the directory.                                           *)
(***************************************************************************)

DirRecord == [name : Names \cup {".", ".."}, ino : AllInodes \cup {NoIno}]

LEMMA DirTyped ==
  ASSUME TypeInv
  PROVE  /\ dir \in Seq(DirRecord) /\ Len(dir) \in Nat /\ Len(dir) >= 2
         /\ Len(dir) <= DIRNUM
         /\ DOMAIN dir = 1 .. Len(dir)
         /\ \A x \in 1 .. Len(dir) : dir[x] \in DirRecord
<1>1. dir \in Seq(DirRecord) /\ Len(dir) \in 2 .. DIRNUM
  BY DEF TypeInv, DirRecord
<1>2. Len(dir) \in Nat /\ Len(dir) >= 2 /\ Len(dir) <= DIRNUM
  BY <1>1, Constants
<1> QED
  BY <1>1, <1>2, LenProperties, ElementOfSeq

\* namei() finds a live entry after "." and "..".
LEMMA FoundEntry ==
  ASSUME TypeInv, DirInv, NEW n \in Names, Exists(n)
  PROVE  /\ Namei(n) \in 3 .. Len(dir)
         /\ dir[Namei(n)].name = n
         /\ dir[Namei(n)].ino \in Inodes
         /\ dir[Namei(n)].ino \in inodes
         /\ Current(dir[Namei(n)].ino).number = 1
         /\ Listed(dir[Namei(n)].ino)
<1>1. Matches(n) \in SUBSET Nat /\ Matches(n) # {}
  BY DirTyped DEF Matches, Exists
<1>2. PICK x : x = Namei(n)
  OBVIOUS
<1>3. x \in 1 .. Len(dir) /\ dir[x].name = n /\ dir[x].ino # NoIno
  BY <1>1, <1>2, FirstIsLeast, DirTyped DEF Namei, Matches
<1>4. x # 1 /\ x # 2
  BY <1>3, FilesAssumption DEF DirInv, Entry
<1>5. x \in 3 .. Len(dir)
  BY <1>3, <1>4, DirTyped
<1>6. dir[x].ino \in inodes \ {Cwd} /\ Current(dir[x].ino).number > 0
  BY <1>3, <1>5 DEF DirInv
<1>7. dir[x].ino \in AllInodes
  BY <1>6 DEF TypeInv
<1>8. Current(dir[x].ino).number \in 0 .. 1
  BY <1>7, CurrentTyped DEF DinodeRecord
<1>9. Listed(dir[x].ino)
  BY <1>5 DEF Listed
<1> QED
  BY <1>2, <1>3, <1>5, <1>6, <1>7, <1>8, <1>9 DEF AllInodes

\* The place iname() chooses and what it leaves there.
LEMMA NamedEffect ==
  ASSUME TypeInv, NEW n \in Names, NEW p, p = Iname + 1
  PROVE  /\ Iname = 0 =>
              /\ p = 1 /\ Named(n) = dir
              /\ Len(dir) = DIRNUM
              /\ \A x \in 3 .. Len(dir) : dir[x].ino # NoIno
         /\ Iname # 0 =>
              /\ p \in 3 .. DIRNUM
              /\ Named(n) \in Seq(DirRecord)
              /\ Len(Named(n)) \in 2 .. DIRNUM
              /\ p \in 3 .. Len(Named(n))
              /\ Named(n)[p] = Entry(n, NoIno)
              /\ \A x \in 1 .. Len(dir) : x # p => Named(n)[x] = dir[x]
              /\ \/ Len(Named(n)) = Len(dir) /\ p \in 3 .. Len(dir) /\ dir[p].ino = NoIno
                 \/ /\ Len(Named(n)) = Len(dir) + 1 /\ p = Len(dir) + 1
                    /\ \A x \in 3 .. Len(dir) : dir[x].ino # NoIno
<1> DEFINE places == {s \in 2 .. DIRNUM - 1 : s >= Len(dir) \/ dir[s + 1].ino = NoIno}
<1>1. Iname = IF places = {} THEN 0 ELSE First(places)
  BY DEF Iname
<1>2. places \in SUBSET Nat
  BY Constants
<1>3. /\ dir \in Seq(DirRecord) /\ Len(dir) \in Nat /\ Len(dir) >= 2 /\ Len(dir) <= DIRNUM
      /\ DIRNUM \in Nat
      /\ \A x \in 1 .. Len(dir) : dir[x] \in DirRecord
  BY DirTyped, Constants
<1>4. ASSUME Iname = 0
      PROVE  /\ p = 1 /\ Named(n) = dir /\ Len(dir) = DIRNUM
             /\ \A x \in 3 .. Len(dir) : dir[x].ino # NoIno
  <2>1. places = {}
    <3>1. ASSUME places # {} PROVE FALSE
      <4>1. First(places) \in places
        BY <1>2, <3>1, FirstIsLeast
      <4> QED
        BY <1>1, <1>4, <3>1, <4>1
    <3> QED
      BY <3>1
  <2>2. \A s \in 2 .. DIRNUM - 1 : ~(s >= Len(dir) \/ dir[s + 1].ino = NoIno)
    BY <2>1
  <2>3. Len(dir) = DIRNUM
    <3>1. ASSUME Len(dir) # DIRNUM PROVE FALSE
      <4>1. Len(dir) \in 2 .. DIRNUM - 1 /\ Len(dir) >= Len(dir)
        BY <1>3, <3>1
      <4> QED
        BY <2>2, <4>1
    <3> QED
      BY <3>1
  <2>4. \A x \in 3 .. Len(dir) : dir[x].ino # NoIno
    <3>1. ASSUME NEW x \in 3 .. Len(dir) PROVE dir[x].ino # NoIno
      <4>1. x - 1 \in 2 .. DIRNUM - 1 /\ x - 1 + 1 = x
        BY <1>3
      <4> QED
        BY <2>2, <4>1
    <3> QED
      BY <3>1
  <2> QED
    BY <1>4, <2>3, <2>4 DEF Named
<1>5. ASSUME Iname # 0
      PROVE  /\ p \in 3 .. DIRNUM
             /\ Named(n) \in Seq(DirRecord)
             /\ Len(Named(n)) \in 2 .. DIRNUM
             /\ p \in 3 .. Len(Named(n))
             /\ Named(n)[p] = Entry(n, NoIno)
             /\ \A x \in 1 .. Len(dir) : x # p => Named(n)[x] = dir[x]
             /\ \/ Len(Named(n)) = Len(dir) /\ p \in 3 .. Len(dir) /\ dir[p].ino = NoIno
                \/ /\ Len(Named(n)) = Len(dir) + 1 /\ p = Len(dir) + 1
                   /\ \A x \in 3 .. Len(dir) : dir[x].ino # NoIno
  <2>1. Iname \in places /\ \A y \in places : Iname <= y
    BY <1>1, <1>2, <1>5, FirstIsLeast
  <2>2. Iname \in 2 .. DIRNUM - 1 /\ (Iname >= Len(dir) \/ dir[p].ino = NoIno)
    BY <2>1
  <2>3. p \in 3 .. DIRNUM /\ p - 1 = Iname
    BY <1>3, <2>2
  <2>4. Iname <= Len(dir)
    <3>1. CASE Len(dir) = DIRNUM
      BY <1>3, <2>2, <3>1
    <3>2. CASE Len(dir) # DIRNUM
      <4>1. Len(dir) \in 2 .. DIRNUM - 1 /\ Len(dir) >= Len(dir)
        BY <1>3, <3>2
      <4> QED
        BY <2>1, <4>1
    <3> QED
      BY <3>1, <3>2
  <2>5. PICK e : e = Entry(n, NoIno)
    OBVIOUS
  <2>6. e \in DirRecord
    BY <2>5 DEF Entry, DirRecord
  <2>7. CASE Iname >= Len(dir)
    <3>1. Named(n) = Append(dir, e) /\ Iname = Len(dir)
      BY <1>3, <1>5, <2>2, <2>4, <2>5, <2>7 DEF Named
    <3>2. \A x \in 3 .. Len(dir) : dir[x].ino # NoIno
      <4>1. ASSUME NEW x \in 3 .. Len(dir), dir[x].ino = NoIno PROVE FALSE
        <5>1. x - 1 \in 2 .. DIRNUM - 1 /\ x - 1 + 1 = x
          BY <1>3
        <5>2. x - 1 \in places
          BY <4>1, <5>1
        <5>3. Iname <= x - 1
          BY <2>1, <5>2
        <5>4. x \in Int /\ x <= Len(dir)
          BY <1>3
        <5> HIDE DEF places
        <5> QED
          BY <1>3, <3>1, <5>3, <5>4
      <4> QED
        BY <4>1
    <3>3. /\ Named(n) \in Seq(DirRecord) /\ Len(Named(n)) = Len(dir) + 1
          /\ \A x \in 1 .. Len(dir) : Named(n)[x] = dir[x]
          /\ Named(n)[Len(dir) + 1] = e
      BY <1>3, <2>6, <3>1, AppendProperties
    <3>4. p = Len(dir) + 1 /\ Len(dir) + 1 \in 3 .. DIRNUM
      BY <1>3, <2>3, <3>1
    <3> QED
      BY <1>3, <2>3, <2>5, <3>2, <3>3, <3>4
  <2>8. CASE ~(Iname >= Len(dir))
    <3>1. Named(n) = [dir EXCEPT ![p].name = n] /\ dir[p].ino = NoIno
      BY <1>5, <2>2, <2>8 DEF Named
    <3>2. p \in 3 .. Len(dir) /\ p \in 1 .. Len(dir)
      BY <1>3, <2>2, <2>3, <2>8
    <3>3. [dir[p] EXCEPT !.name = n] = e
      BY <1>3, <2>5, <3>1, <3>2 DEF Entry, DirRecord
    <3>4. Named(n) = [dir EXCEPT ![p] = e]
      BY <3>1, <3>3
    <3>5. /\ Named(n) \in Seq(DirRecord) /\ Len(Named(n)) = Len(dir)
          /\ \A x \in 1 .. Len(dir) : Named(n)[x] = IF x = p THEN e ELSE dir[x]
      BY <1>3, <2>6, <3>2, <3>4, ExceptSeq
    <3>6. Named(n)[p] = e /\ Len(Named(n)) \in 2 .. DIRNUM /\ p \in 3 .. Len(Named(n))
      BY <1>3, <3>2, <3>5
    <3>7. \A x \in 1 .. Len(dir) : x # p => Named(n)[x] = dir[x]
      BY <3>5
    <3> QED
      BY <2>3, <2>5, <3>1, <3>2, <3>5, <3>6, <3>7
  <2> QED
    BY <2>7, <2>8
<1> QED
  BY <1>4, <1>5

-----------------------------------------------------------------------------
(***************************************************************************)
(* The parts the operations are made of.                                   *)
(***************************************************************************)

\* The block list of an inode in use: what its size covers, in use, no block twice.
LEMMA OwnBlocks ==
  ASSUME TypeInv, BlocksAccounted, NoHoles, NEW i \in Inodes, i \in inodes
  PROVE  /\ AddrBlocks(Current(i)) \subseteq blocks
         /\ \A k, l \in Index :
              Current(i).addr[k] = Current(i).addr[l] /\ Current(i).addr[k] # Hole => k = l
         /\ \A k \in Index : Current(i).addr[k] # Hole <=> k * BLOCKSIZ < Current(i).size
         /\ \A k \in Index : Current(i).addr[k] \in {Hole} \cup AddrBlocks(Current(i))
<1>1. \A k, l \in Index :
        Current(i).addr[k] = Current(i).addr[l] /\ Current(i).addr[k] # Hole => k = l
  BY DEF BlocksAccounted
<1>2. AddrBlocks(Current(i)) \subseteq blocks
  BY DEF BlocksAccounted
<1>3. \A k \in Index : Current(i).addr[k] # Hole <=> k * BLOCKSIZ < Current(i).size
  BY DEF NoHoles
<1>4. \A k \in Index : Current(i).addr[k] \in {Hole} \cup AddrBlocks(Current(i))
  BY DEF AddrBlocks
<1> QED
  BY <1>1, <1>2, <1>3, <1>4

\* The blocks of inode i stay as they are, or all go.
LEMMA SameOrNoBlocks ==
  ASSUME IInv, NEW i \in Inodes, i \in inodes, NEW d \in DinodeRecord,
         \/ d.addr = Current(i).addr /\ d.size = Current(i).size /\ blocks' = blocks
         \/ d.addr = NoAddr /\ d.size = 0 /\ blocks' = blocks \ AddrBlocks(Current(i))
  PROVE  BlocksMoved(i, d)
<1>1. CASE d.addr = Current(i).addr /\ d.size = Current(i).size /\ blocks' = blocks
  <2>1. AddrBlocks(d) = AddrBlocks(Current(i))
    BY <1>1 DEF AddrBlocks
  <2> QED
    BY <1>1, <2>1, OwnBlocks DEF BlocksMoved, IInv
<1>2. CASE d.addr = NoAddr /\ d.size = 0 /\ blocks' = blocks \ AddrBlocks(Current(i))
  <2>1. \A k \in Index : d.addr[k] = Hole
    BY <1>2 DEF NoAddr
  <2>2. AddrBlocks(d) = {}
    BY <2>1 DEF AddrBlocks
  <2>3. \A k \in Index : ~(k * BLOCKSIZ < d.size)
    BY <1>2, Constants DEF Index
  <2> QED
    BY <1>2, <2>1, <2>2, <2>3 DEF BlocksMoved
<1> QED
  BY <1>1, <1>2

\* iput() of an inode in use, whose blocks are what they were or have all gone.
LEMMA IputStep ==
  ASSUME IInv, NEW i \in Inodes, i \in inodes,
         NEW c \in [count : Nat \ {0}, di : DinodeRecord], NEW used, Iput(i, c, used),
         \/ c.di.addr = Current(i).addr /\ c.di.size = Current(i).size /\ used = blocks
         \/ c.di.addr = NoAddr /\ c.di.size = 0 /\ used = blocks \ AddrBlocks(Current(i))
  PROVE  \E d \in DinodeRecord :
           /\ CacheStep(i, d) /\ BlocksMoved(i, d) /\ core'[i].count = c.count - 1
           /\ \/ i \in inodes' /\ d = c.di /\ ~(c.count = 1 /\ c.di.number = 0)
              \/ /\ i \notin inodes' /\ d = EmptyDinode /\ disk'[i] = EmptyDinode
                 /\ c.count = 1 /\ c.di.number = 0
<1>1. i \in AllInodes /\ used \in SUBSET Blocks /\ inodes \subseteq AllInodes
  BY DEF AllInodes, IInv, TypeInv
<1>2. /\ disk' \in [AllInodes -> DinodeRecord]
      /\ core' \in [AllInodes -> [count : Nat, di : DinodeRecord]]
      /\ core'[i].count = c.count - 1
      /\ \A j \in AllInodes \ {i} : core'[j] = core[j] /\ disk'[j] = disk[j]
      /\ c.count = 1 /\ c.di.number = 0 =>
           /\ disk'[i] = EmptyDinode /\ Current(i)' = EmptyDinode
           /\ inodes' = inodes \ {i}
           /\ blocks' = used \ AddrBlocks(c.di)
      /\ ~(c.count = 1 /\ c.di.number = 0) =>
           Current(i)' = c.di /\ inodes' = inodes /\ blocks' = used
  BY <1>1, IputEffect DEF IInv
<1>3. \A j \in AllInodes : j # i => Current(j)' = Current(j)
  BY <1>2 DEF Current
<1>4. CASE c.count = 1 /\ c.di.number = 0
  <2>1. CacheStep(i, EmptyDinode)
    BY <1>1, <1>2, <1>3, <1>4 DEF CacheStep, Changed
  <2>2. blocks' = blocks \ AddrBlocks(Current(i))
    <3>1. CASE c.di.addr = Current(i).addr /\ used = blocks
      BY <1>2, <1>4, <3>1 DEF AddrBlocks
    <3>2. CASE c.di.addr = NoAddr /\ used = blocks \ AddrBlocks(Current(i))
      <4>1. AddrBlocks(c.di) = {}
        BY <3>2 DEF AddrBlocks, NoAddr
      <4> QED
        BY <1>2, <1>4, <3>2, <4>1
    <3> QED
      BY <3>1, <3>2
  <2>3. BlocksMoved(i, EmptyDinode)
    BY <2>2, BlankTyped, SameOrNoBlocks
  <2> QED
    BY <1>2, <1>4, <2>1, <2>3, BlankTyped
<1>5. CASE ~(c.count = 1 /\ c.di.number = 0)
  <2>1. CacheStep(i, c.di)
    BY <1>1, <1>2, <1>3, <1>5 DEF CacheStep, Changed
  <2>2. BlocksMoved(i, c.di)
    BY <1>2, <1>5, SameOrNoBlocks
  <2> QED
    BY <1>2, <1>5, <2>1, <2>2
<1> QED
  BY <1>4, <1>5

\* iget() and then a change of the copy in memory, which is kept there.
LEMMA IgetStep ==
  ASSUME IInv, NEW i \in Inodes, i \in inodes, NEW c \in [count : Nat \ {0}, di : DinodeRecord],
         core' = [core EXCEPT ![i] = c], disk' = disk, inodes' = inodes
  PROVE  CacheStep(i, c.di) /\ core'[i].count = c.count
<1>1. i \in AllInodes /\ core' \in [AllInodes -> [count : Nat, di : DinodeRecord]]
      /\ core'[i] = c /\ (\A j \in AllInodes \ {i} : core'[j] = core[j])
  BY DEF AllInodes, IInv, TypeInv
<1>2. \A j \in AllInodes : Current(j)' = IF j = i THEN c.di ELSE Current(j)
  BY <1>1 DEF Current
<1> QED
  BY <1>1, <1>2 DEF CacheStep, Changed, IInv, TypeInv

\* Nothing is opened or closed.
LEMMA TablesSame ==
  ASSUME IInv, NEW i \in Inodes, NEW d \in DinodeRecord, CacheStep(i, d),
         SameSlots(ofile'), uofile' = uofile, core'[i].count = core[i].count,
         \A s \in Slot : ofile'[s].count > 0 =>
           ofile'[s].off <= IF ofile'[s].ino = i THEN d.size ELSE Current(ofile'[s].ino).size
  PROVE  TablesMoved(i, d) /\ \A j \in AllInodes : OpenSlots(j)' = OpenSlots(j)
<1>1. SlotsOwned' /\ \A j \in AllInodes : OpenSlots(j)' = OpenSlots(j)
  BY TablesKept DEF IInv, TableInv
<1>2. RefCounts'
  <2>1. i \in AllInodes /\ \A j \in AllInodes \ {i} : core'[j].count = core[j].count
    BY DEF AllInodes, CacheStep
  <2> QED
    BY <1>1, <2>1, RefStep DEF IInv, TableInv
<1>3. uofile' \in [Users -> [Fd -> Slot \cup {None}]]
  BY DEF IInv, TypeInv
<1>4. \A u \in Users, fd \in Fd : uofile'[u][fd] # None =>
        LET s == uofile'[u][fd]
        IN  /\ uofile[u][fd] = s
            /\ ofile'[s].ino = ofile[s].ino /\ ofile'[s].flag = ofile[s].flag
  BY <1>3 DEF SameSlots
<1> QED
  BY <1>1, <1>2, <1>3, <1>4 DEF TablesMoved, SameSlots

\* Without a change of the directory the invariant holds again.
LEMMA IInvStep ==
  ASSUME IInv, FilesInv', NEW i \in Inodes, NEW d \in DinodeRecord, CacheStep(i, d),
         dir' = dir, Listed(i) => i \in inodes' /\ d.number > 0,
         RoomInv /\ i \in inodes' /\ d.number > 0 => Listed(i)
  PROVE  IInv' /\ (RoomInv => RoomInv')
<1>1. DirInv'
  BY DirKept DEF IInv
<1>2. IInv'
  BY <1>1 DEF IInv, FilesInv, TypeInv
<1>3. ASSUME RoomInv PROVE RoomInv'
  <2>1. \A j \in AllInodes : Listed(j)' = Listed(j)
    BY DEF Listed
  <2>2. \A j \in inodes' \ {Cwd} : Current(j)'.number > 0 => Listed(j)'
    BY <1>3, <2>1 DEF RoomInv, CacheStep, Changed
  <2>3. DotsStay'
    BY <1>3 DEF RoomInv, DotsStay, Entry
  <2> QED
    BY <1>3, <2>2, <2>3 DEF RoomInv
<1> QED
  BY <1>2, <1>3

-----------------------------------------------------------------------------
(***************************************************************************)
(* One lemma for each operation.                                           *)
(***************************************************************************)

\* iget() and iput() of a listed file change nothing a program can see.
LEMMA TouchInv ==
  ASSUME IInv, NEW n \in Names, Exists(n), NEW i, i = dir[Namei(n)].ino,
         Iput(i, Iget(i), blocks), UNCHANGED <<dir, ofile, uofile>>
  PROVE  IInv' /\ (RoomInv => RoomInv')
<1>1. i \in Inodes /\ i \in inodes /\ Current(i).number = 1 /\ Listed(i)
  BY FoundEntry DEF IInv
<1>2. Current(i) \in DinodeRecord /\ core[i].count \in Nat /\ i \in AllInodes
  BY <1>1, CurrentTyped DEF AllInodes, IInv, TypeInv
<1>3. PICK c : c = Iget(i)
  OBVIOUS
<1>4. c \in [count : Nat \ {0}, di : DinodeRecord] /\ c.di = Current(i)
      /\ c.count = core[i].count + 1
  BY <1>2, <1>3 DEF Iget
<1>5. PICK d \in DinodeRecord :
         /\ CacheStep(i, d) /\ BlocksMoved(i, d) /\ core'[i].count = c.count - 1
         /\ i \in inodes' /\ d = c.di
  BY <1>1, <1>3, <1>4, IputStep
<1>6. core'[i].count = core[i].count
  BY <1>2, <1>4, <1>5
<1>7. \A s \in Slot : ofile'[s].count > 0 =>
        ofile'[s].off <= IF ofile'[s].ino = i THEN d.size ELSE Current(ofile'[s].ino).size
  BY <1>4, <1>5 DEF IInv, NoHoles
<1>8. TablesMoved(i, d)
  <2>1. SameSlots(ofile')
    BY RewoundSame DEF IInv, SameSlots
  <2> QED
    BY <1>1, <1>5, <1>6, <1>7, <2>1, TablesSame
<1>9. FilesInv'
  BY <1>1, <1>4, <1>5, <1>8, FilesStep
<1> QED
  BY <1>1, <1>4, <1>5, <1>9, IInvStep

LEMMA DeniedInv ==
  ASSUME IInv, NEW u \in Users, NEW n \in Names, NEW kind \in Kinds, Denied(u, n, kind)
  PROVE  IInv' /\ (RoomInv => RoomInv')
BY TouchInv DEF Denied

LEMMA OpenNoSlotInv ==
  ASSUME IInv, NEW u \in Users, NEW n \in Names, OpenNoSlot(u, n)
  PROVE  IInv' /\ (RoomInv => RoomInv')
BY TouchInv DEF OpenNoSlot

\* A new reference to an inode that is in use: the tables and the count agree.
LEMMA LinkStep ==
  ASSUME IInv, NEW u \in Users, CanOpen(u), NEW i \in Inodes, NEW d \in DinodeRecord,
         CacheStep(i, d), core'[i].count = core[i].count + 1,
         NEW flag \in OpenModes \cup {{}, {"W"}}, NEW off \in 0 .. NADDR * BLOCKSIZ,
         NEW table, SameSlots(table), Link(u, i, flag, off, table),
         off <= d.size,
         \A s \in Slot : table[s].count > 0 =>
           table[s].off <= IF table[s].ino = i THEN d.size ELSE Current(table[s].ino).size,
         \A kind \in Needs(flag) : Access(u, d, kind) \/ u = d.owner
  PROVE  TablesMoved(i, d) /\ OpenSlots(i)' # {}
<1>1. i \in AllInodes /\ TypeInv /\ SlotsOwned /\ RefCounts
  BY DEF AllInodes, IInv, TableInv
<1>2. /\ SlotsOwned'
      /\ ofile' \in [Slot -> [count : 0 .. 1, ino : AllInodes,
                     flag : OpenModes \cup {{}, {"W"}}, off : 0 .. NADDR * BLOCKSIZ]]
      /\ uofile' \in [Users -> [Fd -> Slot \cup {None}]]
  BY <1>1, TablesLinked
<1>3. PICK s \in Slot, fd \in Fd :
              /\ ofile[s].count = 0
              /\ uofile[u][fd] = None
              /\ ofile'[s] = [count |-> 1, ino |-> i, flag |-> flag, off |-> off]
              /\ \A t \in Slot \ {s} : ofile'[t] = table[t]
              /\ uofile' = [uofile EXCEPT ![u][fd] = s]
              /\ OpenSlots(i)' = OpenSlots(i) \cup {s} /\ s \notin OpenSlots(i)
              /\ \A j \in AllInodes \ {i} : OpenSlots(j)' = OpenSlots(j)
  BY <1>1, TablesLinked
<1>4. ofile'[s].count = 1 /\ ofile'[s].ino = i /\ ofile'[s].flag = flag /\ ofile'[s].off = off
  BY <1>3
<1>5. RefCounts'
  <2>1. \A j \in AllInodes \ {i} : /\ core'[j].count = core[j].count
                                   /\ OpenSlots(j)' = OpenSlots(j)
    BY <1>3 DEF CacheStep
  <2> QED
    BY <1>1, <1>3, <2>1, RefStep
<1>6. \A t \in Slot : ofile'[t].count > 0 =>
        ofile'[t].off <= IF ofile'[t].ino = i THEN d.size ELSE Current(ofile'[t].ino).size
  BY <1>3, <1>4
<1>7. ASSUME NEW v \in Users, NEW g \in Fd, NEW t, t = uofile'[v][g], t # None
      PROVE  \/ /\ uofile[v][g] = t
                /\ ofile'[t].ino = ofile[t].ino /\ ofile'[t].flag = ofile[t].flag
             \/ /\ ofile'[t].ino = i
                /\ \A kind \in Needs(ofile'[t].flag) : Access(v, d, kind) \/ v = d.owner
  <2>1. uofile \in [Users -> [Fd -> Slot \cup {None}]]
    BY <1>1 DEF TypeInv
  <2>2. CASE v = u /\ g = fd
    <3>1. t = s
      BY <1>3, <1>7, <2>1, <2>2
    <3> QED
      BY <1>4, <2>2, <3>1
  <2>3. CASE ~(v = u /\ g = fd)
    <3>1. uofile[v][g] = t /\ t \in Slot
      BY <1>2, <1>3, <1>7, <2>1, <2>3
    <3>2. ofile[t].count > 0
      BY <1>1, <3>1 DEF SlotsOwned
    <3>3. t # s
      BY <1>3, <3>2
    <3>4. ofile'[t] = table[t]
      BY <1>3, <3>1, <3>3
    <3> QED
      BY <3>1, <3>4 DEF SameSlots
  <2> QED
    BY <2>2, <2>3
<1> QED
  BY <1>2, <1>3, <1>5, <1>6, <1>7 DEF TablesMoved

\* The offsets of all slots stand within their files.
LEMMA OffsetsWithin ==
  ASSUME IInv, NEW s \in Slot, ofile[s].count > 0
  PROVE  ofile[s].off <= Current(ofile[s].ino).size
BY DEF IInv, NoHoles

\* What open() links a descriptor with.
LEMMA OpenFlags ==
  /\ OpenModes \subseteq OpenModes \cup {{}, {"W"}}
  /\ {"W"} \in OpenModes \cup {{}, {"W"}}
  /\ Needs({"W"}) = {"W"}
BY DEF Needs

LEMMA OpenInv ==
  ASSUME IInv, NEW u \in Users, NEW n \in Names, NEW flag \in OpenModes, Open(u, n, flag)
  PROVE  IInv' /\ (RoomInv => RoomInv')
<1>1. PICK i : i = dir[Namei(n)].ino
  OBVIOUS
<1>2. /\ Exists(n) /\ CanOpen(u)
      /\ \A kind \in Needs(flag) : Access(u, Current(i), kind)
      /\ core' = [core EXCEPT ![i] = Iget(i)]
      /\ Link(u, i, flag, IF "A" \in flag THEN Current(i).size ELSE 0, ofile)
      /\ UNCHANGED <<disk, blocks, inodes, dir>>
  BY <1>1 DEF Open
<1>3. i \in Inodes /\ i \in inodes /\ Current(i).number = 1 /\ Listed(i)
  BY <1>1, <1>2, FoundEntry DEF IInv
<1>4. Current(i) \in DinodeRecord /\ core[i].count \in Nat /\ i \in AllInodes
  BY <1>3, CurrentTyped DEF AllInodes, IInv, TypeInv
<1>5. PICK c : c = Iget(i)
  OBVIOUS
<1>6. c \in [count : Nat \ {0}, di : DinodeRecord] /\ c.di = Current(i)
      /\ c.count = core[i].count + 1
  BY <1>4, <1>5 DEF Iget
<1>7. CacheStep(i, Current(i)) /\ core'[i].count = core[i].count + 1
  BY <1>2, <1>3, <1>5, <1>6, IgetStep
<1>8. BlocksMoved(i, Current(i))
  BY <1>2, <1>3, <1>4, SameOrNoBlocks
<1>9. PICK off : off = IF "A" \in flag THEN Current(i).size ELSE 0
  OBVIOUS
<1>10. off \in 0 .. NADDR * BLOCKSIZ /\ off <= Current(i).size
  BY <1>4, <1>9, Constants DEF DinodeRecord
<1>11. \A s \in Slot : ofile[s].count > 0 =>
         ofile[s].off <= IF ofile[s].ino = i THEN Current(i).size
                                              ELSE Current(ofile[s].ino).size
  BY OffsetsWithin
<1>12. TablesMoved(i, Current(i)) /\ OpenSlots(i)' # {}
  <2>1. Link(u, i, flag, off, ofile) /\ SameSlots(ofile)
    BY <1>2, <1>9, RewoundSame DEF IInv
  <2>2. \A kind \in Needs(flag) : Access(u, Current(i), kind) \/ u = Current(i).owner
    BY <1>2
  <2>3. flag \in OpenModes \cup {{}, {"W"}}
    OBVIOUS
  <2> QED
    BY <1>2, <1>3, <1>4, <1>7, <1>10, <1>11, <2>1, <2>2, <2>3, LinkStep
<1>13. FilesInv'
  BY <1>2, <1>3, <1>4, <1>7, <1>8, <1>12, FilesStep
<1> QED
  BY <1>2, <1>3, <1>4, <1>7, <1>13, IInvStep

LEMMA CreatTruncateInv ==
  ASSUME IInv, NEW u \in Users, NEW n \in Names, CreatTruncate(u, n)
  PROVE  IInv' /\ (RoomInv => RoomInv')
<1>1. PICK i, c, used : /\ i = dir[Namei(n)].ino
                        /\ c = [Iget(i) EXCEPT !.di.addr = NoAddr, !.di.size = 0]
                        /\ used = blocks \ AddrBlocks(Current(i))
  OBVIOUS
<1>2. Exists(n) /\ Access(u, Current(i), "W") /\ dir' = dir
  BY <1>1 DEF CreatTruncate
<1>3. i \in Inodes /\ i \in inodes /\ Current(i).number = 1 /\ Listed(i)
  BY <1>1, <1>2, FoundEntry DEF IInv
<1>4. Current(i) \in DinodeRecord /\ core[i].count \in Nat /\ i \in AllInodes
  BY <1>3, CurrentTyped DEF AllInodes, IInv, TypeInv
<1>5. PICK d : d = [Current(i) EXCEPT !.addr = NoAddr, !.size = 0]
  OBVIOUS
<1>6. /\ d \in DinodeRecord /\ d.addr = NoAddr /\ d.size = 0 /\ d.number = 1
      /\ d.owner = Current(i).owner /\ d.mode = Current(i).mode
  BY <1>3, <1>4, <1>5, BlankTyped, Constants DEF DinodeRecord
<1>7. c = [count |-> core[i].count + 1, di |-> d]
  BY <1>1, <1>5 DEF Iget
<1>8. c \in [count : Nat \ {0}, di : DinodeRecord] /\ c.di = d
      /\ c.count = core[i].count + 1
  BY <1>4, <1>6, <1>7
<1>9. /\ SameSlots(Rewound(i))
      /\ \A s \in Slot : Rewound(i)[s].count > 0 =>
           Rewound(i)[s].off <=
             IF Rewound(i)[s].ino = i THEN d.size ELSE Current(Rewound(i)[s].ino).size
  <2>1. SameSlots(Rewound(i))
    BY RewoundSame DEF IInv
  <2>2. ASSUME NEW s \in Slot, Rewound(i)[s].count > 0
        PROVE  Rewound(i)[s].off <=
                 IF Rewound(i)[s].ino = i THEN d.size ELSE Current(Rewound(i)[s].ino).size
    <3>1. ofile[s].count > 0 /\ Rewound(i)[s].ino = ofile[s].ino
      BY <2>1, <2>2 DEF SameSlots
    <3>2. ofile[s].ino = i => Rewound(i)[s].off = 0
      BY <3>1 DEF Rewound, IInv, TypeInv
    <3>3. ofile[s].ino # i => Rewound(i)[s].off = ofile[s].off
      BY <3>1 DEF Rewound
    <3> QED
      BY <1>6, <3>1, <3>2, <3>3, OffsetsWithin
  <2> QED
    BY <2>1, <2>2
<1>10. CASE /\ CanOpen(u)
            /\ core' = [core EXCEPT ![i] = c]
            /\ blocks' = used
            /\ Link(u, i, {"W"}, 0, Rewound(i))
            /\ UNCHANGED <<disk, inodes>>
  <2>1. CacheStep(i, d) /\ core'[i].count = core[i].count + 1
    BY <1>3, <1>8, <1>10, IgetStep
  <2>2. BlocksMoved(i, d)
    BY <1>1, <1>3, <1>6, <1>10, SameOrNoBlocks
  <2>3. Access(u, d, "W")
    BY <1>2, <1>6, AccessSame
  <2>4. 0 \in 0 .. NADDR * BLOCKSIZ /\ 0 <= d.size
    BY <1>6, Constants
  <2>5. \A kind \in Needs({"W"}) : Access(u, d, kind) \/ u = d.owner
    BY <2>3, OpenFlags
  <2>6. TablesMoved(i, d) /\ OpenSlots(i)' # {}
    BY <1>3, <1>6, <1>9, <1>10, <2>1, <2>4, <2>5, OpenFlags, LinkStep
  <2>7. FilesInv'
    BY <1>3, <1>6, <1>10, <2>1, <2>2, <2>6, FilesStep
  <2> QED
    BY <1>2, <1>3, <1>6, <1>10, <2>1, <2>7, IInvStep
<1>11. CASE /\ ~CanOpen(u)
            /\ Iput(i, c, used)
            /\ ofile' = Rewound(i)
            /\ UNCHANGED uofile
  <2>1. /\ CacheStep(i, d) /\ BlocksMoved(i, d) /\ core'[i].count = c.count - 1
        /\ i \in inodes'
    <3>1. c.di.addr = NoAddr /\ c.di.size = 0 /\ used = blocks \ AddrBlocks(Current(i))
      BY <1>1, <1>6, <1>8
    <3>2. ~(c.count = 1 /\ c.di.number = 0)
      BY <1>6, <1>8
    <3>3. PICK e \in DinodeRecord :
            /\ CacheStep(i, e) /\ BlocksMoved(i, e) /\ core'[i].count = c.count - 1
            /\ i \in inodes' /\ e = c.di
      <4>1. Iput(i, c, used)
        BY <1>11
      <4> QED
        BY <1>3, <1>8, <3>1, <3>2, <4>1, IputStep
    <3> QED
      BY <1>8, <3>3
  <2>2. core'[i].count = core[i].count
    BY <1>4, <1>8, <2>1
  <2>3. TablesMoved(i, d)
    BY <1>3, <1>6, <1>9, <1>11, <2>1, <2>2, TablesSame
  <2>4. FilesInv'
    BY <1>3, <1>6, <2>1, <2>3, FilesStep
  <2> QED
    BY <1>2, <1>3, <1>6, <2>1, <2>4, IInvStep
<1> QED
  BY <1>1, <1>10, <1>11 DEF CreatTruncate

\* A descriptor in use designates an open slot, whose inode is in memory.
LEMMA OpenDescriptor ==
  ASSUME IInv, NEW u \in Users, NEW fd \in Fd, uofile[u][fd] < SYSOPENFILE,
         NEW s, s = uofile[u][fd], NEW i, i = ofile[s].ino
  PROVE  /\ s \in Slot /\ s # None /\ ofile[s].count = 1 /\ s \in OpenSlots(i)
         /\ i \in Inodes /\ i \in inodes /\ i \in AllInodes
         /\ core[i].count \in Nat \ {0} /\ core[i].di = Current(i)
         /\ core[i] \in [count : Nat \ {0}, di : DinodeRecord]
         /\ ofile[s].off \in 0 .. NADDR * BLOCKSIZ /\ ofile[s].off <= Current(i).size
<1>1. s \in Slot /\ s # None
  BY Constants DEF IInv, TypeInv
<1>2. ofile[s].count > 0 /\ ofile[s].count \in 0 .. 1
  BY <1>1 DEF IInv, TableInv, SlotsOwned, TypeInv
<1>3. i \in inodes \ {Cwd} /\ i \in AllInodes /\ s \in OpenSlots(i)
  BY <1>1, <1>2 DEF IInv, TableInv, TypeInv, OpenSlots
<1>4. core[i].count > 0 /\ core[i] \in [count : Nat, di : DinodeRecord]
  BY <1>3, CountBounds DEF IInv, TableInv, TypeInv
<1>5. ofile[s].off \in 0 .. NADDR * BLOCKSIZ /\ ofile[s].off <= Current(i).size
  BY <1>1, <1>2, OffsetsWithin DEF IInv, TypeInv
<1> QED
  BY <1>1, <1>2, <1>3, <1>4, <1>5, SMTT(30) DEF AllInodes, Current

LEMMA CloseInv ==
  ASSUME IInv, NEW u \in Users, NEW fd \in Fd, Close(u, fd)
  PROVE  IInv' /\ (RoomInv => RoomInv')
<1>1. PICK s, i, c : s = uofile[u][fd] /\ i = ofile[s].ino /\ c = core[i]
  OBVIOUS
<1>2. /\ uofile[u][fd] < SYSOPENFILE /\ Iput(i, c, blocks) /\ dir' = dir
      /\ ofile' = [ofile EXCEPT ![s] = Closed]
      /\ uofile' = [uofile EXCEPT ![u][fd] = None]
  BY <1>1 DEF Close
<1>3. /\ s \in Slot /\ s # None /\ s \in OpenSlots(i)
      /\ i \in Inodes /\ i \in inodes /\ i \in AllInodes
      /\ c \in [count : Nat \ {0}, di : DinodeRecord] /\ c.di = Current(i)
  BY <1>1, <1>2, OpenDescriptor, SMTT(30)
<1>4. /\ SlotsOwned'
      /\ ofile' \in [Slot -> [count : 0 .. 1, ino : AllInodes,
                     flag : OpenModes \cup {{}, {"W"}}, off : 0 .. NADDR * BLOCKSIZ]]
      /\ uofile' \in [Users -> [Fd -> Slot \cup {None}]]
      /\ OpenSlots(i)' = OpenSlots(i) \ {s}
      /\ \A j \in AllInodes \ {i} : OpenSlots(j)' = OpenSlots(j)
  <2>1. TypeInv /\ SlotsOwned /\ i = ofile[s].ino /\ s = uofile[u][fd]
    BY <1>1 DEF IInv, TableInv
  <2>2. ofile' = [ofile EXCEPT ![s] = Closed] /\ uofile' = [uofile EXCEPT ![u][fd] = None]
    BY <1>2
  <2>3. s \in Slot /\ i \in AllInodes
    BY <1>3
  <2> QED
    BY <2>1, <2>2, <2>3, TablesClosed, ZenonT(60)
<1>5. PICK d \in DinodeRecord :
         /\ CacheStep(i, d) /\ BlocksMoved(i, d) /\ core'[i].count = c.count - 1
         /\ \/ i \in inodes' /\ d = c.di /\ ~(c.count = 1 /\ c.di.number = 0)
            \/ /\ i \notin inodes' /\ d = EmptyDinode /\ disk'[i] = EmptyDinode
               /\ c.count = 1 /\ c.di.number = 0
  BY <1>2, <1>3, IputStep
<1>6. RefCounts'
  <2>1. \A j \in AllInodes \ {i} : /\ core'[j].count = core[j].count
                                   /\ OpenSlots(j)' = OpenSlots(j)
    BY <1>4, <1>5 DEF CacheStep
  <2> QED
    BY <1>1, <1>3, <1>4, <1>5, <2>1, RefStep DEF IInv, TableInv
<1>7. /\ i # Cwd
      /\ c.count = 1 => OpenSlots(i)' = {}
      /\ c.count # 1 => OpenSlots(i)' # {}
  <2>1. i # Cwd
    BY <1>3, FilesAssumption
  <2>2. c.count = 1 => OpenSlots(i)' = {}
    BY <1>1, <1>3, <1>4, <2>1, CountBounds DEF IInv, TableInv
  <2>3. c.count # 1 => OpenSlots(i)' # {}
    <3>1. core'[i].count = Cardinality(OpenSlots(i)') + (IF i = Cwd THEN 1 ELSE 0)
      BY <1>3, <1>6 DEF RefCounts, AllInodes
    <3>2. ASSUME OpenSlots(i)' = {} PROVE c.count = 1
      <4>1. Cardinality(OpenSlots(i)') = 0
        BY <3>2, FS_EmptySet
      <4> QED
        BY <1>3, <1>5, <2>1, <3>1, <4>1
    <3> QED
      BY <3>2
  <2> QED
    BY <2>1, <2>2, <2>3
<1>8. \A t \in Slot : ofile'[t].count > 0 =>
        /\ t # s
        /\ ofile'[t] = ofile[t]
  BY <1>2, <1>3 DEF Closed, IInv, TypeInv
<1>9. \A t \in Slot : ofile'[t].count > 0 =>
        ofile'[t].off <= IF ofile'[t].ino = i THEN d.size ELSE Current(ofile'[t].ino).size
  <2>1. ASSUME NEW t \in Slot, ofile'[t].count > 0, ofile'[t].ino = i
        PROVE  d.size = Current(i).size
    <3>1. t \in OpenSlots(i)'
      BY <2>1 DEF OpenSlots
    <3>2. c.count # 1
      BY <1>7, <3>1
    <3> QED
      BY <1>3, <1>5, <3>2
  <2> QED
    BY <1>8, <2>1, OffsetsWithin
<1>10. \A v \in Users, g \in Fd : uofile'[v][g] # None =>
         LET t == uofile'[v][g]
         IN  /\ uofile[v][g] = t
             /\ ofile'[t].ino = ofile[t].ino /\ ofile'[t].flag = ofile[t].flag
  <2>1. ASSUME NEW v \in Users, NEW g \in Fd, NEW t, t = uofile'[v][g], t # None
        PROVE  /\ uofile[v][g] = t
               /\ ofile'[t].ino = ofile[t].ino /\ ofile'[t].flag = ofile[t].flag
    <3>1. t \in Slot /\ ofile'[t].count > 0
      BY <1>4, <2>1 DEF SlotsOwned
    <3>2. uofile[v][g] = t
      BY <1>2, <2>1 DEF IInv, TypeInv
    <3> QED
      BY <1>8, <3>1, <3>2
  <2> QED
    BY <2>1
<1>11. TablesMoved(i, d)
  BY <1>4, <1>6, <1>9, <1>10 DEF TablesMoved
<1>12. FilesInv'
  <2>1. \/ i \in inodes' /\ (d.number = 0 => OpenSlots(i)' # {})
        \/ /\ i \notin inodes' /\ OpenSlots(i)' = {}
           /\ core'[i].count = 0 /\ disk'[i] = EmptyDinode
    BY <1>3, <1>5, <1>7
  <2>2. OpenSlots(i) # {} /\ OpenSlots(i)' # {} =>
          d.owner = Current(i).owner /\ d.mode = Current(i).mode
    BY <1>3, <1>5, <1>7
  <2> QED
    BY <1>3, <1>5, <1>11, <2>1, <2>2, FilesStep
<1>13. Listed(i) => Current(i).number > 0
  BY <1>3, FilesAssumption DEF IInv, DirInv, Listed
<1>14. RoomInv /\ Current(i).number > 0 => Listed(i)
  BY <1>3, <1>7 DEF RoomInv
<1> QED
  BY <1>2, <1>3, <1>5, <1>12, <1>13, <1>14, BlankTyped, IInvStep

-----------------------------------------------------------------------------
(***************************************************************************)
(* Entries that come and go.                                               *)
(***************************************************************************)

\* In a directory with room for all names a new name finds a place.
LEMMA PlaceForNew ==
  ASSUME TypeInv, DirInv, Room, NEW n \in Names, ~Exists(n)
  PROVE  Iname # 0
<1>1. SUFFICES ASSUME Iname = 0 PROVE FALSE
  OBVIOUS
<1>2. Len(dir) = DIRNUM /\ \A x \in 3 .. Len(dir) : dir[x].ino # NoIno
  BY <1>1, NamedEffect
<1>3. DIRNUM \in Nat /\ DIRNUM >= 2
  BY Constants
<1>a. PICK f : f = [x \in 3 .. DIRNUM |-> dir[x].name]
  OBVIOUS
<1>4. \A x \in 3 .. DIRNUM : dir[x].name \in Names \ {n}
  <2>1. ASSUME NEW x \in 3 .. DIRNUM, dir[x].name = n PROVE FALSE
    <3>1. x \in DOMAIN dir
      BY <1>2, <1>3, DirTyped
    <3>2. x \in Matches(n)
      BY <1>2, <2>1, <3>1 DEF Matches
    <3> QED
      BY <3>2 DEF Exists
  <2> QED
    BY <1>2, <2>1 DEF DirInv
<1>5. f \in [3 .. DIRNUM -> Names \ {n}]
  BY <1>4, <1>a
<1>6. IsFiniteSet(Names \ {n}) /\ Cardinality(Names \ {n}) = Cardinality(Names) - 1
  BY FS_RemoveElement DEF Room
<1>7. IsFiniteSet(3 .. DIRNUM) /\ Cardinality(3 .. DIRNUM) = DIRNUM - 2
  <2>1. 3 \in Int /\ DIRNUM \in Int
    BY <1>3
  <2>2. IsFiniteSet(3 .. DIRNUM)
        /\ Cardinality(3 .. DIRNUM) = IF 3 > DIRNUM THEN 0 ELSE DIRNUM - 3 + 1
    BY <2>1, FS_Interval
  <2> QED
    BY <1>3, <2>2
<1>8. Cardinality(Names \ {n}) < Cardinality(3 .. DIRNUM)
  BY <1>3, <1>6, <1>7, FS_CardinalityType DEF Room
<1>9. PICK x, y \in 3 .. DIRNUM : x # y /\ f[x] = f[y]
  <2>1. PICK S, T : S = 3 .. DIRNUM /\ T = Names \ {n}
    OBVIOUS
  <2>2. IsFiniteSet(S) /\ IsFiniteSet(T) /\ Cardinality(T) < Cardinality(S) /\ f \in [S -> T]
    BY <1>5, <1>6, <1>7, <1>8, <2>1
  <2>3. \E x, y \in S : x # y /\ f[x] = f[y]
    BY <2>2, FS_PigeonHole
  <2> QED
    BY <2>1, <2>3
<1>10. dir[x].name = dir[y].name
  BY <1>9, <1>a
<1> QED
  BY <1>2, <1>9, <1>10 DEF DirInv

\* The place of a new name is filled with inode v, or left without one.
LEMMA EntryWritten ==
  ASSUME TypeInv, NEW n \in Names, NEW p, p = Iname + 1, Iname # 0,
         NEW v \in AllInodes \cup {NoIno},
         dir' = [Named(n) EXCEPT ![p].ino = v] \/ (v = NoIno /\ dir' = Named(n))
  PROVE  /\ dir' \in Seq(DirRecord) /\ Len(dir') \in 2 .. DIRNUM
         /\ p \in 3 .. Len(dir') /\ dir'[p].name = n /\ dir'[p].ino = v
         /\ Len(dir) <= Len(dir')
         /\ p <= Len(dir) => dir[p].ino = NoIno
         /\ p > Len(dir) => \A x \in 3 .. Len(dir) : dir[x].ino # NoIno
         /\ \A x \in 1 .. Len(dir') : x # p => x \in 1 .. Len(dir) /\ dir'[x] = dir[x]
<1>1. /\ p \in 3 .. DIRNUM
      /\ Named(n) \in Seq(DirRecord)
      /\ Len(Named(n)) \in 2 .. DIRNUM
      /\ p \in 3 .. Len(Named(n))
      /\ Named(n)[p] = Entry(n, NoIno)
      /\ \A x \in 1 .. Len(dir) : x # p => Named(n)[x] = dir[x]
      /\ \/ Len(Named(n)) = Len(dir) /\ p \in 3 .. Len(dir) /\ dir[p].ino = NoIno
         \/ /\ Len(Named(n)) = Len(dir) + 1 /\ p = Len(dir) + 1
            /\ \A x \in 3 .. Len(dir) : dir[x].ino # NoIno
  BY NamedEffect
<1>2. Len(dir) \in Nat /\ Len(Named(n)) \in Nat /\ DIRNUM \in Nat
  BY <1>1, DirTyped, Constants, LenProperties
<1>3. PICK e : e = Entry(n, v)
  OBVIOUS
<1>4. e \in DirRecord /\ e.name = n /\ e.ino = v
  BY <1>3 DEF Entry, DirRecord
<1>5. p \in 1 .. Len(Named(n)) /\ DOMAIN Named(n) = 1 .. Len(Named(n))
  BY <1>1, <1>2, LenProperties
<1>6. dir' = [Named(n) EXCEPT ![p] = e]
  <2>1. [Named(n)[p] EXCEPT !.ino = v] = e
    BY <1>1, <1>3 DEF Entry
  <2>2. CASE dir' = [Named(n) EXCEPT ![p].ino = v]
    BY <2>1, <2>2
  <2>3. CASE v = NoIno /\ dir' = Named(n)
    <3>1. Named(n)[p] = e
      BY <1>1, <1>3, <2>3
    <3>2. Named(n) \in [1 .. Len(Named(n)) -> DirRecord]
      BY <1>1, LenProperties
    <3> QED
      BY <1>5, <2>3, <3>1, <3>2
  <2> QED
    BY <2>2, <2>3
<1>7. /\ dir' \in Seq(DirRecord) /\ Len(dir') = Len(Named(n))
      /\ \A x \in 1 .. Len(Named(n)) : dir'[x] = IF x = p THEN e ELSE Named(n)[x]
  <2>1. PICK q : q = Named(n)
    OBVIOUS
  <2>2. q \in Seq(DirRecord) /\ p \in 1 .. Len(q) /\ dir' = [q EXCEPT ![p] = e]
    BY <1>1, <1>5, <1>6, <2>1
  <2>3. /\ [q EXCEPT ![p] = e] \in Seq(DirRecord) /\ Len([q EXCEPT ![p] = e]) = Len(q)
        /\ \A x \in 1 .. Len(q) : [q EXCEPT ![p] = e][x] = IF x = p THEN e ELSE q[x]
    BY <1>4, <2>2, ExceptSeq
  <2> QED
    BY <2>1, <2>2, <2>3
<1>8. \A x \in 1 .. Len(dir') : x # p => x \in 1 .. Len(dir) /\ dir'[x] = dir[x]
  BY <1>1, <1>2, <1>7
<1>9. Len(dir) <= Len(dir') /\ (p <= Len(dir) => dir[p].ino = NoIno)
  BY <1>1, <1>2, <1>7
<1>10. p > Len(dir) => \A x \in 3 .. Len(dir) : dir[x].ino # NoIno
  BY <1>1, <1>2
<1> QED
  BY <1>1, <1>4, <1>5, <1>7, <1>8, <1>9, <1>10

\* creat() of a new name keeps the entries in order, whether an inode v is found
\* for it or not.
LEMMA DirNamed ==
  ASSUME TypeInv, DirInv, InodeInv, NEW n \in Names, ~Exists(n), NEW p, p = Iname + 1,
         NEW v \in (Inodes \ inodes) \cup {NoIno},
         dir' = [Named(n) EXCEPT ![p].ino = v] \/ (v = NoIno /\ dir' = Named(n)),
         inodes \subseteq inodes', inodes' \subseteq inodes \cup {v},
         \A j \in inodes : Current(j)' = Current(j),
         v # NoIno => v \in inodes' /\ Current(v)'.number > 0
  PROVE  /\ dir' \in Seq(DirRecord) /\ Len(dir') \in 2 .. DIRNUM
         /\ DirInv'
         /\ Room /\ RoomInv => RoomInv'
<1>1. /\ dir \in Seq(DirRecord) /\ Len(dir) \in Nat /\ Len(dir) >= 2 /\ Len(dir) <= DIRNUM
      /\ DIRNUM \in Nat /\ inodes \subseteq AllInodes
      /\ v \in AllInodes \cup {NoIno} /\ v # Cwd /\ Cwd \in inodes
      /\ dir[1].name = "." /\ dir[2] = Entry("..", Cwd)
  BY DirTyped, Constants, FilesAssumption DEF DirInv, TypeInv, AllInodes, InodeInv
<1>2. ASSUME NEW x \in 3 .. Len(dir), NEW j, j = dir[x].ino, j # NoIno
      PROVE  /\ dir[x].name \in Names \ {n} /\ j # v
             /\ j \in inodes' \ {Cwd} /\ Current(j)'.number > 0
  <2>1. j \in inodes \ {Cwd} /\ Current(j).number > 0
    BY <1>2 DEF DirInv
  <2>2. dir[x].name # n
    <3>1. ASSUME dir[x].name = n PROVE FALSE
      <4>1. x \in DOMAIN dir
        BY <1>1, LenProperties
      <4>2. x \in Matches(n)
        BY <1>2, <3>1, <4>1 DEF Matches
      <4> QED
        BY <4>2 DEF Exists
    <3> QED
      BY <3>1
  <2>3. dir[x].name \in Names
    BY DEF DirInv
  <2>4. Current(j)' = Current(j) /\ j \in inodes' /\ j # v
    BY <1>2, <2>1
  <2> QED
    BY <2>1, <2>2, <2>3, <2>4
<1>3. CASE Iname = 0
  <2>1. p = 1 /\ Named(n) = dir
    BY <1>3, NamedEffect
  <2>2. dir[1] \in DirRecord /\ 1 \in 1 .. Len(dir)
    BY <1>1, ElementOfSeq
  <2>3. PICK e : e = [dir[1] EXCEPT !.ino = v]
    OBVIOUS
  <2>4. e \in DirRecord /\ e.name = "."
    BY <1>1, <2>2, <2>3 DEF DirRecord
  <2>5. dir' = [dir EXCEPT ![1] = e] \/ dir' = dir
    BY <2>1, <2>3
  <2>6. /\ dir' \in Seq(DirRecord) /\ Len(dir') = Len(dir) /\ dir'[1].name = "."
        /\ \A x \in 2 .. Len(dir) : dir'[x] = dir[x]
    <3>1. CASE dir' = dir
      BY <1>1, <3>1
    <3>2. CASE dir' = [dir EXCEPT ![1] = e]
      <4>1. /\ [dir EXCEPT ![1] = e] \in Seq(DirRecord) /\ Len([dir EXCEPT ![1] = e]) = Len(dir)
            /\ \A x \in 1 .. Len(dir) :
                 [dir EXCEPT ![1] = e][x] = IF x = 1 THEN e ELSE dir[x]
        BY <1>1, <2>2, <2>4, ExceptSeq
      <4> QED
        BY <1>1, <2>2, <2>4, <3>2, <4>1
    <3> QED
      BY <2>5, <3>1, <3>2
  <2>7. 2 \in 2 .. Len(dir) /\ \A x \in 3 .. Len(dir) : x \in 2 .. Len(dir)
    BY <1>1
  <2>8. dir'[2] = Entry("..", Cwd) /\ (\A x \in 3 .. Len(dir') : dir'[x] = dir[x])
    BY <1>1, <2>6, <2>7
  <2>9. DirInv'
    <3>1. \A x \in 3 .. Len(dir') : dir'[x].name \in Names
      BY <2>6, <2>8 DEF DirInv
    <3>2. \A x, y \in 3 .. Len(dir') :
            (/\ dir'[x].ino # NoIno /\ dir'[y].ino # NoIno
             /\ dir'[x].name = dir'[y].name \/ dir'[x].ino = dir'[y].ino) => x = y
      BY <2>6, <2>8 DEF DirInv
    <3>3. \A x \in 3 .. Len(dir') : \A j : j = dir'[x].ino /\ j # NoIno =>
            j \in inodes' \ {Cwd} /\ Current(j)'.number > 0
      BY <1>2, <2>6, <2>8
    <3>4. Entry("..", Cwd)' = Entry("..", Cwd)
      BY DEF Entry
    <3> QED
      BY <2>6, <2>8, <3>1, <3>2, <3>3, <3>4 DEF DirInv, Current
  <2>10. ~Room
    BY <1>3, PlaceForNew
  <2> QED
    BY <1>1, <2>6, <2>9, <2>10
<1>4. CASE Iname # 0
  <2>1. /\ dir' \in Seq(DirRecord) /\ Len(dir') \in 2 .. DIRNUM
        /\ p \in 3 .. Len(dir') /\ dir'[p].name = n /\ dir'[p].ino = v
        /\ Len(dir) <= Len(dir')
        /\ p <= Len(dir) => dir[p].ino = NoIno
        /\ p > Len(dir) => \A x \in 3 .. Len(dir) : dir[x].ino # NoIno
        /\ \A x \in 1 .. Len(dir') : x # p => x \in 1 .. Len(dir) /\ dir'[x] = dir[x]
    BY <1>1, <1>4, EntryWritten, SMTT(30)
  <2>2. Len(dir') \in Nat /\ p \in Nat /\ p >= 3
    BY <1>1, <2>1
  <2>3. /\ 1 \in 1 .. Len(dir') /\ 1 # p /\ 2 \in 1 .. Len(dir') /\ 2 # p
        /\ \A x \in 3 .. Len(dir') : x \in 1 .. Len(dir')
        /\ \A x \in 3 .. Len(dir') : x \in 1 .. Len(dir) => x \in 3 .. Len(dir)
    BY <1>1, <2>1, <2>2
  <2>4. dir'[1] = dir[1] /\ dir'[2] = dir[2]
    BY <2>1, <2>3
  <2>5. \A x \in 3 .. Len(dir') : x # p => x \in 3 .. Len(dir) /\ dir'[x] = dir[x]
    BY <2>1, <2>3
  <2>6. \A x \in 3 .. Len(dir') : dir'[x].name \in Names
    BY <2>1, <2>5 DEF DirInv
  <2>7. ASSUME NEW x \in 3 .. Len(dir'), NEW y \in 3 .. Len(dir'),
               dir'[x].ino # NoIno, dir'[y].ino # NoIno,
               dir'[x].name = dir'[y].name \/ dir'[x].ino = dir'[y].ino
        PROVE  x = y
    <3>1. CASE x = p \/ y = p
      <4>1. \A z \in 3 .. Len(dir') : z # p /\ dir'[z].ino # NoIno =>
              dir'[z].name # n /\ dir'[z].ino # v
        BY <1>2, <2>5
      <4> QED
        BY <2>1, <2>7, <3>1, <4>1
    <3>2. CASE x # p /\ y # p
      BY <2>5, <2>7, <3>2 DEF DirInv
    <3> QED
      BY <3>1, <3>2
  <2>8. ASSUME NEW x \in 3 .. Len(dir'), NEW j, j = dir'[x].ino, j # NoIno
        PROVE  j \in inodes' \ {Cwd} /\ Current(j)'.number > 0
    <3>1. CASE x = p
      BY <1>1, <2>1, <2>8, <3>1
    <3>2. CASE x # p
      BY <1>2, <2>5, <2>8, <3>2
    <3> QED
      BY <3>1, <3>2
  <2>9. DirInv'
    <3>1. Entry("..", Cwd)' = Entry("..", Cwd)
      BY DEF Entry
    <3> QED
      BY <1>1, <2>4, <2>6, <2>7, <2>8, <3>1 DEF DirInv, Current
  <2>10. ASSUME RoomInv PROVE RoomInv'
    <3>1. DotsStay'
      BY <2>4, <2>10 DEF RoomInv, DotsStay, Entry
    <3>2. ASSUME NEW x \in 3 .. Len(dir'), NEW y \in 3 .. Len(dir'),
                 dir'[x].ino = NoIno, dir'[y].ino = NoIno
          PROVE  x = y
      <4>1. CASE p <= Len(dir)
        <5>1. p \in 3 .. Len(dir) /\ dir[p].ino = NoIno
          BY <1>1, <2>1, <2>2, <4>1
        <5>2. \A z \in 3 .. Len(dir) : dir[z].ino = NoIno => z = p
          BY <2>10, <5>1 DEF RoomInv
        <5> QED
          BY <2>5, <3>2, <5>2
      <4>2. CASE p > Len(dir)
        BY <2>1, <2>5, <3>2, <4>2
      <4> QED
        BY <1>1, <2>2, <4>1, <4>2
    <3>3. ASSUME NEW j \in inodes' \ {Cwd}, Current(j)'.number > 0
          PROVE  \E x \in 3 .. Len(dir') : dir'[x].ino = j
      <4>1. CASE j = v
        BY <2>1, <4>1
      <4>2. CASE j # v
        <5>1. j \in inodes /\ Current(j).number > 0
          BY <3>3, <4>2
        <5>2. PICK x \in 3 .. Len(dir) : dir[x].ino = j
          BY <2>10, <3>3, <5>1 DEF RoomInv, Listed
        <5>3. j # NoIno
          BY <1>1, <5>1, FilesAssumption DEF AllInodes
        <5>4. x # p
          BY <1>1, <2>1, <5>2, <5>3
        <5>5. x \in 3 .. Len(dir')
          BY <1>1, <2>1, <2>2
        <5> QED
          BY <2>5, <5>2, <5>4, <5>5
      <4> QED
        BY <4>1, <4>2
    <3>4. \A j \in inodes' \ {Cwd} : Current(j)'.number > 0 => Listed(j)'
      BY <3>3 DEF Listed
    <3> QED
      BY <3>1, <3>2, <3>4 DEF RoomInv
  <2> QED
    BY <2>1, <2>9, <2>10
<1> QED
  BY <1>3, <1>4

\* What is left of the invariant when the directory has been seen to.
LEMMA IInvParts ==
  ASSUME FilesInv', DirInv', dir' \in Seq(DirRecord), Len(dir') \in 2 .. DIRNUM
  PROVE  IInv'
BY DEF IInv, FilesInv, TypeInv, DirRecord, AllInodes

LEMMA CreatNoInodeInv ==
  ASSUME IInv, NEW n \in Names, CreatNoInode(n)
  PROVE  IInv' /\ (Room /\ RoomInv => RoomInv')
<1>1. /\ ~Exists(n) /\ dir' = Named(n)
      /\ UNCHANGED <<disk, core, blocks, inodes, ofile, uofile>>
  BY DEF CreatNoInode
<1>2. /\ \A j : Current(j)' = Current(j)
      /\ \A j : OpenSlots(j)' = OpenSlots(j)
  BY <1>1 DEF Current, OpenSlots
<1>3. FilesInv'
  <2>1. InodeInv'
    BY <1>1, <1>2 DEF IInv, InodeInv
  <2>2. TableInv'
    BY <1>1, <1>2 DEF IInv, TableInv, SlotsOwned, RefCounts
  <2>3. BlocksAccounted'
    BY <1>1, <1>2 DEF IInv, BlocksAccounted, AddrBlocks
  <2>4. NoHoles'
    BY <1>1, <1>2 DEF IInv, NoHoles, Current
  <2>5. RightsHeld'
    BY <1>1, <1>2 DEF IInv, RightsHeld, Access, Class
  <2> QED
    BY <1>1, <2>1, <2>2, <2>3, <2>4, <2>5 DEF FilesInv, IInv, TypeInv
<1>4. /\ dir' \in Seq(DirRecord) /\ Len(dir') \in 2 .. DIRNUM
      /\ DirInv'
      /\ Room /\ RoomInv => RoomInv'
  <2>1. PICK p : p = Iname + 1
    OBVIOUS
  <2>2. NoIno \in (Inodes \ inodes) \cup {NoIno}
    OBVIOUS
  <2> QED
    BY <1>1, <1>2, <2>1, <2>2, DirNamed DEF IInv
<1> QED
  BY <1>3, <1>4, IInvParts

LEMMA CreatNewInv ==
  ASSUME IInv, NEW u \in Users, NEW n \in Names, NEW m \in Modes, CreatNew(u, n, m)
  PROVE  IInv' /\ (Room /\ RoomInv => RoomInv')
<1>1. PICK i \in Inodes \ inodes :
        LET c == [count |-> Iget(i).count,
                  di |-> [Dinode(1, u, m) EXCEPT !.addr = Iget(i).di.addr]]
        IN  /\ dir' = [Named(n) EXCEPT ![Iname + 1].ino = i]
            /\ \/ /\ CanOpen(u)
                  /\ core' = [core EXCEPT ![i] = c]
                  /\ disk' = [disk EXCEPT ![i] = Dinode(1, Root, {})]
                  /\ inodes' = inodes \cup {i}
                  /\ Link(u, i, {"W"}, 0, ofile)
                  /\ UNCHANGED blocks
               \/ /\ ~CanOpen(u)
                  /\ disk' = [disk EXCEPT ![i] = c.di]
                  /\ inodes' = inodes \cup {i}
                  /\ UNCHANGED <<core, blocks, ofile, uofile>>
  BY DEF CreatNew
<1>2. ~Exists(n)
  BY DEF CreatNew
<1>3. PICK d : d = Dinode(1, u, m)
  OBVIOUS
<1>4. /\ i \in AllInodes /\ i # Cwd /\ i # NoIno /\ Cwd \in inodes /\ inodes \subseteq AllInodes
      /\ core[i].count = 0 /\ disk[i] = EmptyDinode /\ Current(i) = EmptyDinode
      /\ core \in [AllInodes -> [count : Nat, di : DinodeRecord]]
      /\ disk \in [AllInodes -> DinodeRecord]
  BY FilesAssumption DEF AllInodes, IInv, InodeInv, TypeInv, Current
<1>5. /\ d \in DinodeRecord /\ d.addr = NoAddr /\ d.size = 0 /\ d.number = 1 /\ d.owner = u
      /\ Dinode(1, Root, {}) \in DinodeRecord
  <2>1. Root \in Users /\ m \in Modes \cup {{}} /\ {} \in Modes \cup {{}} /\ 1 \in 0 .. 1
    BY FilesAssumption
  <2>2. d \in DinodeRecord /\ Dinode(1, Root, {}) \in DinodeRecord
    BY <1>3, <2>1, BlankTyped
  <2>3. d.addr = NoAddr /\ d.size = 0 /\ d.number = 1 /\ d.owner = u
    BY <1>3 DEF Dinode
  <2> QED
    BY <2>2, <2>3
<1>6. PICK c : c = [count |-> 1, di |-> d]
  OBVIOUS
<1>7. /\ dir' = [Named(n) EXCEPT ![Iname + 1].ino = i]
      /\ \/ /\ CanOpen(u)
            /\ core' = [core EXCEPT ![i] = c]
            /\ disk' = [disk EXCEPT ![i] = Dinode(1, Root, {})]
            /\ inodes' = inodes \cup {i}
            /\ Link(u, i, {"W"}, 0, ofile)
            /\ blocks' = blocks
         \/ /\ ~CanOpen(u)
            /\ disk' = [disk EXCEPT ![i] = d]
            /\ inodes' = inodes \cup {i}
            /\ core' = core /\ blocks' = blocks /\ ofile' = ofile /\ uofile' = uofile
  <2>1. Iget(i).count = 1 /\ Iget(i).di = EmptyDinode
    BY <1>4 DEF Iget
  <2>2. [d EXCEPT !.addr = NoAddr] = d
    BY <1>5 DEF DinodeRecord
  <2>3. [Dinode(1, u, m) EXCEPT !.addr = Iget(i).di.addr] = d
    BY <1>3, <2>1, <2>2, BlankTyped
  <2> QED
    BY <1>1, <1>6, <2>1, <2>3
<1>8. \A s \in Slot : ofile[s].count > 0 => ofile[s].ino # i
  BY DEF IInv, TableInv
<1>9. /\ inodes' = inodes \cup {i} /\ i \in inodes'
      /\ CacheStep(i, d)
  <2>1. disk' \in [AllInodes -> DinodeRecord]
        /\ core' \in [AllInodes -> [count : Nat, di : DinodeRecord]]
    BY <1>4, <1>5, <1>6, <1>7
  <2>2. \A j \in AllInodes \ {i} : core'[j] = core[j] /\ disk'[j] = disk[j]
    BY <1>4, <1>7
  <2>3. Current(i)' = d
    <3>1. CASE core' = [core EXCEPT ![i] = c]
      BY <1>4, <1>6, <3>1 DEF Current
    <3>2. CASE core' = core /\ disk' = [disk EXCEPT ![i] = d]
      BY <1>4, <3>2 DEF Current
    <3> QED
      BY <1>7, <3>1, <3>2
  <2>4. \A j \in AllInodes : j # i => Current(j)' = Current(j)
    BY <2>2 DEF Current
  <2>5. inodes' = inodes \cup {i}
    BY <1>7
  <2> QED
    BY <1>4, <2>1, <2>2, <2>3, <2>4, <2>5 DEF CacheStep, Changed
<1>10. BlocksMoved(i, d)
  <2>1. \A k \in Index : d.addr[k] = Hole
    BY <1>5 DEF NoAddr
  <2>2. AddrBlocks(d) = {} /\ AddrBlocks(Current(i)) = {}
    BY <1>4, <2>1, BlankTyped DEF AddrBlocks
  <2>3. \A k \in Index : ~(k * BLOCKSIZ < d.size)
    BY <1>5, Constants DEF Index
  <2>4. blocks' = blocks
    BY <1>7
  <2> QED
    BY <2>1, <2>2, <2>3, <2>4 DEF BlocksMoved
<1>11. \A s \in Slot : ofile[s].count > 0 =>
         ofile[s].off <= IF ofile[s].ino = i THEN d.size ELSE Current(ofile[s].ino).size
  BY <1>8, OffsetsWithin
<1>12. TablesMoved(i, d)
  <2>1. SameSlots(ofile)
    BY RewoundSame DEF IInv
  <2>2. CASE CanOpen(u) /\ core' = [core EXCEPT ![i] = c] /\ Link(u, i, {"W"}, 0, ofile)
    <3>1. core'[i].count = core[i].count + 1
      BY <1>4, <1>6, <2>2
    <3>2. 0 \in 0 .. NADDR * BLOCKSIZ /\ 0 <= d.size
      BY <1>5, Constants
    <3>3. \A kind \in Needs({"W"}) : Access(u, d, kind) \/ u = d.owner
      BY <1>5
    <3> QED
      BY <1>5, <1>9, <1>11, <2>1, <2>2, <3>1, <3>2, <3>3, OpenFlags, LinkStep
  <2>3. CASE core' = core /\ ofile' = ofile /\ uofile' = uofile
    <3>1. SameSlots(ofile') /\ core'[i].count = core[i].count
      BY <2>1, <2>3 DEF SameSlots
    <3> QED
      BY <1>5, <1>9, <1>11, <2>3, <3>1, TablesSame
  <2> QED
    BY <1>7, <2>2, <2>3
<1>13. OpenSlots(i) = {}
  BY <1>8 DEF OpenSlots
<1>14. FilesInv'
  BY <1>5, <1>9, <1>10, <1>12, <1>13, FilesStep
<1>15. /\ dir' \in Seq(DirRecord) /\ Len(dir') \in 2 .. DIRNUM
       /\ DirInv'
       /\ Room /\ RoomInv => RoomInv'
  <2>1. PICK p : p = Iname + 1
    OBVIOUS
  <2>2. \A j \in inodes : Current(j)' = Current(j)
    BY <1>4, <1>9 DEF CacheStep, Changed
  <2>3. Current(i)' = d
    BY <1>4, <1>9 DEF CacheStep, Changed
  <2>4. dir' = [Named(n) EXCEPT ![p].ino = i]
    BY <1>7, <2>1
  <2>5. TypeInv /\ DirInv /\ InodeInv
    BY DEF IInv
  <2>6. i \in (Inodes \ inodes) \cup {NoIno} /\ inodes \subseteq inodes'
        /\ inodes' \subseteq inodes \cup {i}
    BY <1>9
  <2>7. i \in inodes' /\ Current(i)'.number > 0
    BY <1>5, <1>9, <2>3
  <2> QED
    BY <1>2, <2>1, <2>2, <2>4, <2>5, <2>6, <2>7, DirNamed, Zenon
<1> QED
  BY <1>14, <1>15, IInvParts

\* The entries after the one that goes move up.
LEMMA WithoutEffect ==
  ASSUME TypeInv, NEW x \in 3 .. Len(dir)
  PROVE  /\ Without(x) \in Seq(DirRecord) /\ Len(Without(x)) = Len(dir) - 1
         /\ \A y \in 1 .. Len(dir) - 1 :
              Without(x)[y] = IF y < x THEN dir[y] ELSE dir[y + 1]
<1>1. /\ dir \in Seq(DirRecord) /\ Len(dir) \in Nat
      /\ \A y \in 1 .. Len(dir) : dir[y] \in DirRecord
  BY DirTyped
<1>2. PICK s, t : s = SubSeq(dir, 1, x - 1) /\ t = SubSeq(dir, x + 1, Len(dir))
  OBVIOUS
<1>3. /\ s \in Seq(DirRecord) /\ Len(s) = x - 1
      /\ \A y \in 1 .. x - 1 : s[y] = dir[y]
  <2>1. \A y \in 1 .. x - 1 : dir[y] \in DirRecord
    BY <1>1
  <2>2. 1 \in Int /\ x - 1 \in Int /\ 1 <= x - 1
    BY <1>1
  <2>3. /\ SubSeq(dir, 1, x - 1) \in Seq(DirRecord)
        /\ Len(SubSeq(dir, 1, x - 1)) = IF 1 <= x - 1 THEN x - 1 - 1 + 1 ELSE 0
        /\ \A y \in 1 .. x - 1 - 1 + 1 : SubSeq(dir, 1, x - 1)[y] = dir[1 + y - 1]
    BY <2>1, <2>2, SubSeqProperties
  <2> QED
    BY <1>2, <2>2, <2>3
<1>4. /\ t \in Seq(DirRecord) /\ Len(t) = Len(dir) - x
      /\ \A y \in 1 .. Len(dir) - x : t[y] = dir[x + y]
  <2>1. \A y \in x + 1 .. Len(dir) : dir[y] \in DirRecord
    BY <1>1
  <2>2. x + 1 \in Int /\ Len(dir) \in Int /\ x <= Len(dir)
    BY <1>1
  <2>3. /\ SubSeq(dir, x + 1, Len(dir)) \in Seq(DirRecord)
        /\ Len(SubSeq(dir, x + 1, Len(dir))) =
             IF x + 1 <= Len(dir) THEN Len(dir) - (x + 1) + 1 ELSE 0
        /\ \A y \in 1 .. Len(dir) - (x + 1) + 1 :
             SubSeq(dir, x + 1, Len(dir))[y] = dir[x + 1 + y - 1]
    BY <2>1, <2>2, SubSeqProperties
  <2> QED
    BY <1>2, <2>2, <2>3
<1>5. Without(x) = s \o t
  BY <1>2 DEF Without
<1>6. /\ s \o t \in Seq(DirRecord) /\ Len(s \o t) = Len(s) + Len(t)
      /\ \A y \in 1 .. Len(s) + Len(t) :
           (s \o t)[y] = IF y <= Len(s) THEN s[y] ELSE t[y - Len(s)]
  BY <1>3, <1>4, ConcatProperties
<1>7. Len(s) + Len(t) = Len(dir) - 1
  BY <1>1, <1>3, <1>4
<1>8. ASSUME NEW y \in 1 .. Len(dir) - 1
      PROVE  (s \o t)[y] = IF y < x THEN dir[y] ELSE dir[y + 1]
  <2>1. (s \o t)[y] = IF y <= Len(s) THEN s[y] ELSE t[y - Len(s)]
    BY <1>6, <1>7
  <2>2. CASE y < x
    <3>1. y <= Len(s) /\ y \in 1 .. x - 1
      BY <1>3, <2>2
    <3> QED
      BY <1>3, <2>1, <2>2, <3>1
  <2>3. CASE ~(y < x)
    <3>1. ~(y <= Len(s)) /\ y - Len(s) \in 1 .. Len(dir) - x /\ x + (y - Len(s)) = y + 1
      BY <1>1, <1>3, <2>3
    <3> QED
      BY <1>4, <2>1, <2>3, <3>1
  <2> QED
    BY <2>2, <2>3
<1> QED
  BY <1>5, <1>6, <1>7, <1>8

\* The entry of inode i goes, and its file with it.
LEMMA DirWithout ==
  ASSUME TypeInv, DirInv, NEW x \in 3 .. Len(dir), NEW i \in Inodes, i = dir[x].ino,
         dir' = Without(x), NEW d \in DinodeRecord, CacheStep(i, d), d.number = 0
  PROVE  /\ dir' \in Seq(DirRecord) /\ Len(dir') \in 2 .. DIRNUM
         /\ DirInv'
         /\ RoomInv => RoomInv'
<1>1. /\ Len(dir) \in Nat /\ Len(dir) >= 2 /\ Len(dir) <= DIRNUM /\ DIRNUM \in Nat
      /\ i # NoIno /\ i # Cwd /\ i \in AllInodes
  BY DirTyped, Constants, FilesAssumption DEF AllInodes
<1>2. /\ dir' \in Seq(DirRecord) /\ Len(dir') = Len(dir) - 1
      /\ \A y \in 1 .. Len(dir) - 1 : dir'[y] = IF y < x THEN dir[y] ELSE dir[y + 1]
  BY WithoutEffect
<1>3. dir'[1] = dir[1] /\ dir'[2] = dir[2] /\ Len(dir') \in 2 .. DIRNUM
  <2>1. 1 \in 1 .. Len(dir) - 1 /\ 2 \in 1 .. Len(dir) - 1 /\ 1 < x /\ 2 < x
    BY <1>1
  <2>2. Len(dir) - 1 \in 2 .. DIRNUM
    BY <1>1
  <2> QED
    BY <1>2, <2>1, <2>2
<1> DEFINE old(y) == IF y < x THEN y ELSE y + 1
<1>4. ASSUME NEW y \in 3 .. Len(dir')
      PROVE  old(y) \in 3 .. Len(dir) /\ old(y) # x /\ dir'[y] = dir[old(y)]
  BY <1>1, <1>2
<1>5. \A y, z \in 3 .. Len(dir') : old(y) = old(z) => y = z
  BY <1>1, <1>2
<1> HIDE DEF old
<1>6. ASSUME NEW y \in 3 .. Len(dir'), NEW j, j = dir'[y].ino, j # NoIno
      PROVE  j # i /\ j \in inodes' \ {Cwd} /\ Current(j)'.number > 0
  <2>1. PICK z : z = old(y)
    OBVIOUS
  <2>2. z \in 3 .. Len(dir) /\ z # x /\ dir[z].ino = j
    BY <1>4, <1>6, <2>1
  <2>3. j \in inodes \ {Cwd} /\ Current(j).number > 0
    BY <1>6, <2>2 DEF DirInv
  <2>4. j # i
    BY <1>1, <2>2 DEF DirInv
  <2> QED
    BY <2>3, <2>4 DEF CacheStep, Changed, TypeInv
<1>7. DirInv'
  <2>1. \A y \in 3 .. Len(dir') : dir'[y].name \in Names
    BY <1>4 DEF DirInv
  <2>2. ASSUME NEW y \in 3 .. Len(dir'), NEW z \in 3 .. Len(dir'),
               dir'[y].ino # NoIno, dir'[z].ino # NoIno,
               dir'[y].name = dir'[z].name \/ dir'[y].ino = dir'[z].ino
        PROVE  y = z
    <3>1. old(y) = old(z)
      BY <1>4, <2>2, SMTT(30) DEF DirInv
    <3> QED
      BY <1>5, <3>1
  <2>3. Entry("..", Cwd)' = Entry("..", Cwd)
    BY DEF Entry
  <2> QED
    BY <1>3, <1>6, <2>1, <2>2, <2>3 DEF DirInv, Current
<1>8. ASSUME RoomInv PROVE RoomInv'
  <2>1. DotsStay'
    BY <1>3, <1>8 DEF RoomInv, DotsStay, Entry
  <2>2. \A y, z \in 3 .. Len(dir') : dir'[y].ino = NoIno /\ dir'[z].ino = NoIno => y = z
    BY <1>4, <1>5, <1>8, SMTT(30) DEF RoomInv
  <2>3. ASSUME NEW j \in inodes' \ {Cwd}, Current(j)'.number > 0
        PROVE  \E y \in 3 .. Len(dir') : dir'[y].ino = j
    <3>1. j # i
      BY <1>1, <2>3 DEF CacheStep, Changed
    <3>2. j \in inodes \ {Cwd} /\ Current(j).number > 0
      BY <2>3, <3>1 DEF CacheStep, Changed
    <3>3. PICK z \in 3 .. Len(dir) : dir[z].ino = j
      BY <1>8, <3>2 DEF RoomInv, Listed
    <3>4. z # x
      BY <3>1, <3>3
    <3>5. PICK y : y = IF z < x THEN z ELSE z - 1
      OBVIOUS
    <3>6. y \in 3 .. Len(dir') /\ y \in 1 .. Len(dir) - 1
          /\ (IF y < x THEN dir[y] ELSE dir[y + 1]) = dir[z]
      BY <1>1, <1>2, <3>4, <3>5
    <3>7. dir'[y] = dir[z]
      BY <1>2, <3>6
    <3> QED
      BY <3>3, <3>6, <3>7
  <2>4. \A j \in inodes' \ {Cwd} : Current(j)'.number > 0 => Listed(j)'
    BY <2>3 DEF Listed
  <2> QED
    BY <2>1, <2>2, <2>4 DEF RoomInv
<1> QED
  BY <1>2, <1>3, <1>7, <1>8

LEMMA DeleteInv ==
  ASSUME IInv, NEW n \in Names, Delete(n)
  PROVE  IInv' /\ (RoomInv => RoomInv')
<1>1. PICK x, i, c : /\ x = Namei(n) /\ i = dir[x].ino
                     /\ c = [Iget(i) EXCEPT !.di.number = IF @ > 0 THEN @ - 1 ELSE 0]
  OBVIOUS
<1>2. /\ Exists(n) /\ ofile' = ofile /\ uofile' = uofile
      /\ dir' = IF c.di.number = 0 THEN Without(x) ELSE dir
      /\ Iput(i, c, blocks)
  BY <1>1 DEF Delete
<1>3. i \in Inodes /\ i \in inodes /\ Current(i).number = 1 /\ x \in 3 .. Len(dir)
  BY <1>1, <1>2, FoundEntry DEF IInv
<1>4. Current(i) \in DinodeRecord /\ core[i].count \in Nat /\ i \in AllInodes /\ i # Cwd
  BY <1>3, CurrentTyped, FilesAssumption DEF AllInodes, IInv, TypeInv
<1>5. PICK e : e = [Current(i) EXCEPT !.number = 0]
  OBVIOUS
<1>6. /\ e \in DinodeRecord /\ e.number = 0
      /\ e.addr = Current(i).addr /\ e.size = Current(i).size
      /\ e.owner = Current(i).owner /\ e.mode = Current(i).mode
  BY <1>4, <1>5 DEF DinodeRecord
<1>7. c = [count |-> core[i].count + 1, di |-> e]
  BY <1>1, <1>3, <1>5 DEF Iget
<1>8. c \in [count : Nat \ {0}, di : DinodeRecord] /\ c.di = e /\ c.count = core[i].count + 1
  BY <1>4, <1>6, <1>7
<1>9. dir' = Without(x)
  BY <1>2, <1>6, <1>8
<1>10. PICK d \in DinodeRecord :
         /\ CacheStep(i, d) /\ BlocksMoved(i, d) /\ core'[i].count = c.count - 1
         /\ \/ i \in inodes' /\ d = c.di /\ ~(c.count = 1 /\ c.di.number = 0)
            \/ /\ i \notin inodes' /\ d = EmptyDinode /\ disk'[i] = EmptyDinode
               /\ c.count = 1 /\ c.di.number = 0
  BY <1>2, <1>3, <1>6, <1>8, IputStep
<1>11. core'[i].count = core[i].count /\ d.number = 0
  BY <1>4, <1>6, <1>8, <1>10, BlankTyped
<1>12. /\ core[i].count = 0 => OpenSlots(i) = {}
       /\ core[i].count # 0 => OpenSlots(i) # {}
  BY <1>4, CountBounds DEF IInv, TableInv
<1>13. \A s \in Slot : ofile'[s].count > 0 =>
         ofile'[s].off <= IF ofile'[s].ino = i THEN d.size ELSE Current(ofile'[s].ino).size
  <2>1. ASSUME NEW s \in Slot, ofile[s].count > 0, ofile[s].ino = i
        PROVE  d.size = Current(i).size
    <3>1. s \in OpenSlots(i)
      BY <2>1 DEF OpenSlots
    <3>2. c.count # 1
      BY <1>8, <1>4, <1>12, <3>1
    <3> QED
      BY <1>6, <1>8, <1>10, <3>2
  <2> QED
    BY <1>2, <2>1, OffsetsWithin
<1>14. TablesMoved(i, d) /\ OpenSlots(i)' = OpenSlots(i)
  <2>1. SameSlots(ofile')
    BY <1>2, RewoundSame DEF IInv, SameSlots
  <2> QED
    BY <1>2, <1>3, <1>4, <1>10, <1>11, <1>13, <2>1, TablesSame
<1>15. FilesInv'
  <2>1. \/ i \in inodes' /\ (d.number = 0 => OpenSlots(i)' # {})
        \/ /\ i \notin inodes' /\ OpenSlots(i)' = {}
           /\ core'[i].count = 0 /\ disk'[i] = EmptyDinode
    BY <1>4, <1>6, <1>8, <1>10, <1>11, <1>12, <1>14
  <2>2. OpenSlots(i) # {} /\ OpenSlots(i)' # {} =>
          d.owner = Current(i).owner /\ d.mode = Current(i).mode
    BY <1>4, <1>6, <1>8, <1>10, <1>12
  <2> QED
    BY <1>3, <1>10, <1>14, <2>1, <2>2, FilesStep
<1>16. /\ dir' \in Seq(DirRecord) /\ Len(dir') \in 2 .. DIRNUM
       /\ DirInv'
       /\ RoomInv => RoomInv'
  BY <1>1, <1>3, <1>9, <1>10, <1>11, DirWithout DEF IInv
<1> QED
  BY <1>15, <1>16, IInvParts

-----------------------------------------------------------------------------
(***************************************************************************)
(* Reading and writing.                                                    *)
(***************************************************************************)

\* Blocks and offsets.
LEMMA Products ==
  ASSUME NEW x \in Nat, NEW y \in Nat
  PROVE  /\ x * BLOCKSIZ \in Nat
         /\ x < y => x * BLOCKSIZ + BLOCKSIZ <= y * BLOCKSIZ
         /\ x <= y => x * BLOCKSIZ <= y * BLOCKSIZ
         /\ x * BLOCKSIZ < y * BLOCKSIZ => x < y
<1>1. PICK b \in Nat \ {0} : b = BLOCKSIZ
  BY Constants
<1>2. \A z, w \in Nat : z * b \in Nat /\ (z + w) * b = z * b + w * b
  BY Z3
<1>3. x < y => x * b + b <= y * b
  <2>1. ASSUME x < y PROVE x * b + b <= y * b
    <3>1. PICK w \in Nat : y = (x + 1) + w
      <4>1. y - x - 1 \in Nat /\ y = (x + 1) + (y - x - 1)
        BY <2>1
      <4> QED
        BY <4>1
    <3>2. y * b = (x + 1) * b + w * b /\ (x + 1) * b = x * b + 1 * b
      BY <1>2, <3>1
    <3>3. w * b \in Nat /\ x * b \in Nat /\ 1 * b = b
      BY <1>2
    <3> QED
      BY <3>2, <3>3
  <2> QED
    BY <2>1
<1>4. x <= y => x * b <= y * b
  BY <1>2, <1>3
<1>5. y <= x => y * b <= x * b
  <2>1. ASSUME y <= x PROVE y * b <= x * b
    <3>1. x - y \in Nat /\ x = y + (x - y)
      BY <2>1
    <3>2. x * b = y * b + (x - y) * b
      BY <1>2, <3>1
    <3> QED
      BY <1>2, <3>1, <3>2
  <2> QED
    BY <2>1
<1>6. x * b < y * b => x < y
  BY <1>2, <1>5
<1> QED
  BY <1>1, <1>2, <1>3, <1>4, <1>6

LEMMA Quotient ==
  ASSUME NEW x \in Nat
  PROVE  /\ x \div BLOCKSIZ \in Nat
         /\ (x \div BLOCKSIZ) * BLOCKSIZ <= x
         /\ x < (x \div BLOCKSIZ) * BLOCKSIZ + BLOCKSIZ
<1>1. PICK b \in Nat \ {0} : b = BLOCKSIZ
  BY Constants
<1>2. x \div b \in Nat /\ (x \div b) * b <= x /\ x < (x \div b) * b + b
  BY Z3
<1> QED
  BY <1>1, <1>2

\* A transfer of n bytes from off, which lies in the block at place q of di_addr,
\* finds no block at place f.
StopsAt(addr, off, n, q, f) ==
  /\ f <= NADDR /\ q <= f /\ (f = NADDR \/ addr[f] = Hole)
  /\ \A k \in Nat : q <= k /\ k < f => addr[k] # Hole
  /\ Extent(addr, off, n) = Most(off, Least(off + n, f * BLOCKSIZ))

\* Where a transfer of n bytes from off ends.
LEMMA ExtentEffect ==
  ASSUME NEW addr, NEW off \in Nat, NEW n \in Nat, NEW q, q = off \div BLOCKSIZ
  PROVE  /\ Extent(addr, off, n) \in Nat
         /\ off <= Extent(addr, off, n) /\ Extent(addr, off, n) <= off + n
         /\ q < NADDR => \E f \in Nat : StopsAt(addr, off, n, q, f)
         /\ ~(q < NADDR) => Extent(addr, off, n) = off
<1>1. q \in Nat /\ q = off \div BLOCKSIZ
  BY Quotient
<1>2. NADDR \in Nat
  BY Constants
<1>3. CASE q >= NADDR
  BY <1>1, <1>2, <1>3 DEF Extent
<1>4. CASE q < NADDR
  <2>1. PICK stops : stops = {k \in q .. NADDR : k = NADDR \/ addr[k] = Hole}
    OBVIOUS
  <2>2. stops \in SUBSET Nat /\ NADDR \in stops
    BY <1>1, <1>2, <1>4, <2>1
  <2>3. PICK f : f = First(stops)
    OBVIOUS
  <2>4. f \in stops /\ \A y \in stops : f <= y
    BY <2>2, <2>3, FirstIsLeast
  <2>5. f \in Nat /\ f <= NADDR /\ q <= f /\ (f = NADDR \/ addr[f] = Hole)
    BY <1>1, <1>2, <2>1, <2>4
  <2>6. \A k \in Nat : q <= k /\ k < f => addr[k] # Hole
    BY <1>1, <1>2, <2>1, <2>4, <2>5
  <2>7. Extent(addr, off, n) = Most(off, Least(off + n, f * BLOCKSIZ))
    BY <1>1, <1>2, <1>4, <2>1, <2>3 DEF Extent
  <2>8. f * BLOCKSIZ \in Nat
    BY <2>5, Products
  <2>9. /\ Extent(addr, off, n) \in Nat
        /\ off <= Extent(addr, off, n) /\ Extent(addr, off, n) <= off + n
    <3>1. PICK g \in Nat : g = f * BLOCKSIZ
      BY <2>8
    <3> QED
      BY <2>7, <3>1 DEF Most, Least
  <2>10. StopsAt(addr, off, n, q, f)
    BY <2>5, <2>6, <2>7 DEF StopsAt
  <2> QED
    BY <1>4, <2>5, <2>9, <2>10
<1> QED
  BY <1>2, <1>3, <1>4

LEMMA ReadInv ==
  ASSUME IInv, NEW u \in Users, NEW fd \in Fd, NEW n \in Nat \ {0}, Read(u, fd, n)
  PROVE  IInv' /\ (RoomInv => RoomInv')
<1>1. PICK s, i, off, size, end :
         /\ s = uofile[u][fd] /\ i = ofile[s].ino /\ off = ofile[s].off
         /\ size = Current(i).size
         /\ end = Extent(Current(i).addr, off, Least(n, size - off))
  OBVIOUS
<1>2. uofile[u][fd] < SYSOPENFILE
  BY DEF Read
<1>3. /\ s \in Slot /\ s # None /\ ofile[s].count = 1 /\ s \in OpenSlots(i)
      /\ i \in Inodes /\ i \in inodes /\ i \in AllInodes
      /\ core[i].di = Current(i)
      /\ off \in 0 .. NADDR * BLOCKSIZ /\ off <= size
  BY <1>1, <1>2, OpenDescriptor, SMTT(30)
<1>4. /\ off < size /\ ofile' = [ofile EXCEPT ![s].off = end]
      /\ disk' = disk /\ core' = core /\ blocks' = blocks /\ inodes' = inodes
      /\ dir' = dir /\ uofile' = uofile
  BY <1>1, <1>3, ZenonT(60) DEF Read
<1>5. /\ Current(i) \in DinodeRecord /\ size \in 0 .. NADDR * BLOCKSIZ
      /\ off \in Nat /\ n \in Nat /\ size \in Nat /\ NADDR * BLOCKSIZ \in Nat
  <2>1. Current(i) \in DinodeRecord
    BY <1>3, CurrentTyped DEF IInv
  <2>2. size \in 0 .. NADDR * BLOCKSIZ
    BY <1>1, <2>1 DEF DinodeRecord
  <2>3. off \in 0 .. NADDR * BLOCKSIZ /\ n \in Nat /\ NADDR * BLOCKSIZ \in Nat
    BY <1>3, Constants
  <2>4. PICK m \in Nat : m = NADDR * BLOCKSIZ
    BY <2>3
  <2> QED
    BY <2>1, <2>2, <2>3, <2>4
<1>6. end \in 0 .. NADDR * BLOCKSIZ /\ end <= size
  <2>1. PICK r \in Nat : r = Least(n, size - off) /\ off + r <= size
    BY <1>4, <1>5 DEF Least
  <2>2. end \in Nat /\ end <= off + r
    BY <1>1, <1>5, <2>1, ExtentEffect
  <2> QED
    BY <1>5, <2>1, <2>2
<1>7. /\ ofile' \in [Slot -> [count : 0 .. 1, ino : AllInodes,
                     flag : OpenModes \cup {{}, {"W"}}, off : 0 .. NADDR * BLOCKSIZ]]
      /\ \A t \in Slot : /\ ofile'[t].count = ofile[t].count
                         /\ ofile'[t].ino = ofile[t].ino
                         /\ ofile'[t].flag = ofile[t].flag
                         /\ ofile'[t].off = IF t = s THEN end ELSE ofile[t].off
  BY <1>3, <1>4, <1>6 DEF IInv, TypeInv
<1>8. SameSlots(ofile')
  BY <1>7 DEF SameSlots
<1>9. CacheStep(i, Current(i))
  BY <1>4 DEF CacheStep, Changed, Current, IInv, TypeInv
<1>10. BlocksMoved(i, Current(i))
  BY <1>3, <1>4, <1>5, SameOrNoBlocks
<1>11. \A t \in Slot : ofile'[t].count > 0 =>
         ofile'[t].off <= IF ofile'[t].ino = i THEN Current(i).size
                                              ELSE Current(ofile'[t].ino).size
  <2>1. ASSUME NEW t \in Slot, ofile'[t].count > 0, NEW j, j = ofile'[t].ino
        PROVE  ofile'[t].off <= Current(j).size
    <3>1. ofile[t].count > 0 /\ ofile[t].ino = j
      BY <1>7, <2>1
    <3>2. CASE t = s
      BY <1>1, <1>6, <1>7, <3>1, <3>2
    <3>3. CASE t # s
      BY <1>7, <3>1, <3>3, OffsetsWithin
    <3> QED
      BY <3>2, <3>3
  <2> QED
    BY <2>1
<1>12. TablesMoved(i, Current(i)) /\ OpenSlots(i)' = OpenSlots(i)
  BY <1>3, <1>4, <1>5, <1>8, <1>9, <1>11, TablesSame
<1>13. FilesInv'
  BY <1>3, <1>4, <1>5, <1>9, <1>10, <1>12, FilesStep DEF IInv, InodeInv
<1>14. Listed(i) => i \in inodes' /\ Current(i).number > 0
  BY <1>3, <1>4, FilesAssumption DEF IInv, DirInv, Listed
<1>15. RoomInv /\ i \in inodes' /\ Current(i).number > 0 => Listed(i)
  BY <1>3, FilesAssumption DEF RoomInv
<1> QED
  BY <1>3, <1>4, <1>5, <1>9, <1>13, <1>14, <1>15, IInvStep

\* The places of di_addr that write() of n bytes at off touches.
Touched(off, n) == Index \cap (off \div BLOCKSIZ .. (off + n - 1) \div BLOCKSIZ)

\* The blocks of a file when write() has filled the ones it touches, and its size
\* when it has gone as far as the blocks reach: no hole, and nothing beyond.
LEMMA FilledBelowSize ==
  ASSUME NEW addr \in [Index -> Blocks \cup {Hole}], NEW size \in 0 .. NADDR * BLOCKSIZ,
         \A k \in Index : addr[k] # Hole <=> k * BLOCKSIZ < size,
         NEW off \in Nat, off <= size, NEW n \in Nat, n # 0,
         NEW a \in Extended(addr, Touched(off, n)), NEW end, end = Extent(a, off, n)
  PROVE  /\ end \in 0 .. NADDR * BLOCKSIZ
         /\ Most(size, end) \in 0 .. NADDR * BLOCKSIZ
         /\ size <= Most(size, end) /\ end <= Most(size, end)
         /\ \A k \in Index : a[k] # Hole <=> k * BLOCKSIZ < Most(size, end)
<1>1. PICK q, last \in Nat : q = off \div BLOCKSIZ /\ last = (off + n - 1) \div BLOCKSIZ
  <2>1. off + n - 1 \in Nat
    OBVIOUS
  <2> QED
    BY <2>1, Quotient
<1>2. /\ q * BLOCKSIZ <= off /\ last * BLOCKSIZ <= off + n - 1
      /\ q * BLOCKSIZ \in Nat /\ last * BLOCKSIZ \in Nat
  BY <1>1, Quotient, Products
<1>3. NADDR \in Nat /\ NADDR * BLOCKSIZ \in Nat /\ BLOCKSIZ \in Nat \ {0}
  BY Constants
<1>4. \A k \in Index : k \in Nat /\ k < NADDR /\ k * BLOCKSIZ \in Nat
  BY <1>3, Products DEF Index
<1>a. PICK touched : touched = Touched(off, n)
  OBVIOUS
<1>5. touched = {k \in Index : q <= k /\ k <= last}
  BY <1>1, <1>4, <1>a DEF Touched
<1>6. /\ a \in [Index -> Blocks \cup {Hole}]
      /\ \A k \in Index : addr[k] # Hole \/ k \notin touched => a[k] = addr[k]
      /\ \A j \in touched : a[j] = Hole => \A k \in touched : k > j => a[k] = addr[k]
  BY <1>a DEF Extended
<1>7. end \in Nat /\ off <= end /\ end <= off + n
  BY ExtentEffect
<1>8. CASE ~(q < NADDR)
  <2>1. end = off
    BY <1>1, <1>8, ExtentEffect
  <2>2. Most(size, end) = size
    BY <1>7, <2>1 DEF Most
  <2>3. \A k \in Index : k \notin touched
    BY <1>3, <1>4, <1>5, <1>8
  <2>4. \A k \in Index : a[k] = addr[k]
    BY <1>6, <2>3
  <2> QED
    BY <1>3, <1>7, <2>1, <2>2, <2>4
<1>9. CASE q < NADDR
  <2>1. PICK f \in Nat :
           /\ f <= NADDR /\ q <= f /\ (f = NADDR \/ a[f] = Hole)
           /\ \A k \in Nat : q <= k /\ k < f => a[k] # Hole
           /\ end = Most(off, Least(off + n, f * BLOCKSIZ))
    <3>1. q = off \div BLOCKSIZ /\ q < NADDR
      BY <1>1, <1>9
    <3>2. \E f \in Nat : StopsAt(a, off, n, q, f)
      BY <3>1, ExtentEffect
    <3> QED
      BY <3>2 DEF StopsAt
  <2>2. PICK g \in Nat : g = f * BLOCKSIZ /\ g <= NADDR * BLOCKSIZ
    BY <1>3, <2>1, Products
  <2>3. end = Most(off, Least(off + n, g))
    BY <2>1, <2>2
  <2>4. end \in 0 .. NADDR * BLOCKSIZ /\ end <= Most(size, end) /\ size <= Most(size, end)
        /\ Most(size, end) \in 0 .. NADDR * BLOCKSIZ
    BY <1>3, <1>7, <2>2, <2>3 DEF Most, Least
  <2>5. ASSUME NEW k \in Index, a[k] # Hole
        PROVE  k * BLOCKSIZ < Most(size, end)
    <3>1. CASE addr[k] # Hole
      <4>1. k * BLOCKSIZ < size
        BY <3>1
      <4> QED
        BY <1>3, <1>4, <2>4, <4>1
    <3>2. CASE addr[k] = Hole
      <4>1. k \in touched /\ q <= k /\ k <= last
        BY <1>5, <1>6, <2>5, <3>2
      <4>2. k < f
        <5>1. ASSUME ~(k < f) PROVE FALSE
          <6>1. k # f
            BY <1>4, <2>1, <2>5
          <6>2. f < k /\ f \in Index /\ f <= last /\ a[f] = Hole
            BY <1>1, <1>3, <1>4, <2>1, <4>1, <5>1, <6>1 DEF Index
          <6>3. f \in touched
            BY <1>5, <2>1, <6>2
          <6>4. a[k] = addr[k]
            BY <1>6, <4>1, <6>2, <6>3
          <6> QED
            BY <2>5, <3>2, <6>4
        <5> QED
          BY <5>1
      <4>3. k * BLOCKSIZ < g
        BY <1>3, <1>4, <2>1, <2>2, <4>2, Products
      <4>4. k * BLOCKSIZ < off + n
        <5>1. k * BLOCKSIZ <= last * BLOCKSIZ
          BY <1>1, <1>4, <4>1, Products
        <5> QED
          BY <1>2, <1>4, <5>1
      <4>5. k * BLOCKSIZ < end
        BY <1>4, <2>2, <2>3, <4>3, <4>4 DEF Most, Least
      <4> QED
        BY <1>4, <1>7, <2>4, <4>5
    <3> QED
      BY <3>1, <3>2
  <2>6. ASSUME NEW k \in Index, k * BLOCKSIZ < Most(size, end)
        PROVE  a[k] # Hole
    <3>1. CASE k * BLOCKSIZ < size
      <4>1. addr[k] # Hole
        BY <3>1
      <4> QED
        BY <1>6, <4>1
    <3>2. CASE ~(k * BLOCKSIZ < size)
      <4>1. k * BLOCKSIZ < end /\ size <= k * BLOCKSIZ /\ off < end
        BY <1>3, <1>4, <1>7, <2>6, <3>2 DEF Most
      <4>2. k * BLOCKSIZ < g
        BY <1>4, <2>2, <2>3, <4>1 DEF Most, Least
      <4>3. k < f
        BY <1>4, <2>1, <2>2, <4>2, Products
      <4>4. q <= k
        <5>1. q * BLOCKSIZ <= k * BLOCKSIZ
          BY <1>2, <1>3, <1>4, <4>1
        <5>2. k < q => k * BLOCKSIZ + BLOCKSIZ <= q * BLOCKSIZ
          BY <1>1, <1>4, Products
        <5> QED
          BY <1>1, <1>2, <1>3, <1>4, <5>1, <5>2
      <4> QED
        BY <1>4, <2>1, <4>3, <4>4
    <3> QED
      BY <3>1, <3>2
  <2> QED
    BY <2>4, <2>5, <2>6
<1> QED
  BY <1>8, <1>9

\* write() of n bytes at off to inode i, which was di: the blocks are a then, the
\* inode d, and the slot s stands at end.
Written(s, i, off, di, n, a, d, end) ==
  /\ end = Extent(a, off, n)
  /\ d.addr = a /\ d.size = Most(di.size, end)
  /\ d.number = di.number /\ d.owner = di.owner /\ d.mode = di.mode
  /\ di.size <= d.size /\ end <= d.size
  /\ \A k \in Index : a[k] # Hole <=> k * BLOCKSIZ < d.size
  /\ CacheStep(i, d) /\ core'[i].count = core[i].count /\ core'[i].di = d
  /\ blocks' = blocks \cup AddrBlocks([addr |-> a])
  /\ ofile' = [ofile EXCEPT ![s].off = end]

LEMMA WriteEffect ==
  ASSUME IInv, NEW u \in Users, NEW fd \in Fd, NEW n \in Sizes, Write(u, fd, n)
  PROVE  \E s, i, off, di :
           /\ s = uofile[u][fd] /\ i = ofile[s].ino /\ off = ofile[s].off /\ di = Current(i)
           /\ \E a \in Extended(di.addr, Touched(off, n)), d \in DinodeRecord,
                end \in 0 .. NADDR * BLOCKSIZ : Written(s, i, off, di, n, a, d, end)
<1>1. PICK s, i, off, di :
         /\ s = uofile[u][fd] /\ i = ofile[s].ino /\ off = ofile[s].off
         /\ di = Current(i)
  OBVIOUS
<1>2. uofile[u][fd] < SYSOPENFILE
  BY DEF Write
<1>3. /\ s \in Slot /\ s # None /\ ofile[s].count = 1 /\ s \in OpenSlots(i)
      /\ i \in Inodes /\ i \in inodes /\ i \in AllInodes
      /\ core[i].count \in Nat \ {0} /\ core[i].di = di
      /\ off \in 0 .. NADDR * BLOCKSIZ /\ off <= di.size
  BY <1>1, <1>2, OpenDescriptor
<1>4. PICK a \in Extended(di.addr, Touched(off, n)) :
        /\ core' = [core EXCEPT ![i].di.addr = a,
                                ![i].di.size = Most(@, Extent(a, off, n))]
        /\ blocks' = blocks \cup AddrBlocks([addr |-> a])
        /\ ofile' = [ofile EXCEPT ![s].off = Extent(a, off, n)]
  BY <1>1, <1>3 DEF Write, Touched
<1>5. disk' = disk /\ inodes' = inodes /\ dir' = dir /\ uofile' = uofile
  BY DEF Write
<1>6. PICK end : end = Extent(a, off, n)
  OBVIOUS
<1>7. /\ di \in DinodeRecord /\ di.addr \in [Index -> Blocks \cup {Hole}]
      /\ di.size \in 0 .. NADDR * BLOCKSIZ
      /\ off \in Nat /\ n \in Nat \ {0} /\ NADDR * BLOCKSIZ \in Nat
  <2>1. di \in DinodeRecord
    BY <1>1, <1>3, CurrentTyped DEF IInv
  <2>2. di.addr \in [Index -> Blocks \cup {Hole}] /\ di.size \in 0 .. NADDR * BLOCKSIZ
    BY <2>1 DEF DinodeRecord
  <2>3. off \in 0 .. NADDR * BLOCKSIZ /\ n \in Nat \ {0} /\ NADDR * BLOCKSIZ \in Nat
    BY <1>3, Constants
  <2>4. PICK m \in Nat : m = NADDR * BLOCKSIZ
    BY <2>3
  <2> QED
    BY <2>1, <2>2, <2>3, <2>4
<1>8. /\ AddrBlocks(di) \subseteq blocks
      /\ \A k, l \in Index : di.addr[k] = di.addr[l] /\ di.addr[k] # Hole => k = l
      /\ \A k \in Index : di.addr[k] # Hole <=> k * BLOCKSIZ < di.size
      /\ \A k \in Index : di.addr[k] \in {Hole} \cup AddrBlocks(di)
  <2>1. /\ AddrBlocks(Current(i)) \subseteq blocks
        /\ \A k, l \in Index :
             Current(i).addr[k] = Current(i).addr[l] /\ Current(i).addr[k] # Hole => k = l
        /\ \A k \in Index : Current(i).addr[k] # Hole <=> k * BLOCKSIZ < Current(i).size
        /\ \A k \in Index : Current(i).addr[k] \in {Hole} \cup AddrBlocks(Current(i))
    BY <1>3, OwnBlocks DEF IInv
  <2> QED
    BY <1>1, <2>1
<1>9. /\ end \in 0 .. NADDR * BLOCKSIZ
      /\ Most(di.size, end) \in 0 .. NADDR * BLOCKSIZ
      /\ di.size <= Most(di.size, end) /\ end <= Most(di.size, end)
      /\ \A k \in Index : a[k] # Hole <=> k * BLOCKSIZ < Most(di.size, end)
  <2>1. \A k \in Index : di.addr[k] # Hole <=> k * BLOCKSIZ < di.size
    BY <1>8
  <2>2. off \in Nat /\ off <= di.size /\ n \in Nat /\ n # 0
    BY <1>3, <1>7
  <2> QED
    BY <1>6, <1>7, <2>1, <2>2, FilledBelowSize
<1>10. /\ a \in [Index -> Blocks \cup {Hole}]
       /\ \A k \in Index : di.addr[k] # Hole => a[k] = di.addr[k]
       /\ \A j, k \in Index : a[j] # di.addr[j] =>
            a[j] \notin blocks /\ (a[j] = a[k] => j = k)
  BY DEF Extended
<1>11. PICK d : d = [di EXCEPT !.addr = a, !.size = Most(@, end)]
  OBVIOUS
<1>12. /\ d \in DinodeRecord /\ d.addr = a /\ d.size = Most(di.size, end)
       /\ d.number = di.number /\ d.owner = di.owner /\ d.mode = di.mode
  BY <1>7, <1>9, <1>10, <1>11 DEF DinodeRecord
<1>13. PICK c : c = [count |-> core[i].count, di |-> d]
  OBVIOUS
<1>14. c \in [count : Nat \ {0}, di : DinodeRecord] /\ c.di = d /\ c.count = core[i].count
  BY <1>3, <1>12, <1>13
<1>15. core' = [core EXCEPT ![i] = c]
  <2>1. core[i] \in [count : Nat, di : DinodeRecord] /\ core \in [AllInodes -> [count : Nat, di : DinodeRecord]]
    BY <1>3 DEF IInv, TypeInv
  <2>2. core[i] = [count |-> core[i].count, di |-> di]
    BY <1>3, <2>1
  <2>3. PICK c1 : c1 = [core EXCEPT ![i].di.addr = a]
    OBVIOUS
  <2>4. core' = [c1 EXCEPT ![i].di.size = Most(@, end)]
    BY <1>4, <1>6, <2>3
  <2>5. PICK e, r : e = [di EXCEPT !.addr = a] /\ r = [core[i] EXCEPT !.di = e]
    OBVIOUS
  <2>6. c1 = [core EXCEPT ![i] = r]
    BY <1>3, <2>3, <2>5
  <2>7. /\ r = [count |-> core[i].count, di |-> e] /\ e.size = di.size
        /\ c1 \in [AllInodes -> [count : Nat, di : DinodeRecord]]
        /\ c1[i] = r
    <3>1. e \in DinodeRecord /\ e.size = di.size
      BY <1>7, <1>10, <2>5 DEF DinodeRecord
    <3>2. r = [count |-> core[i].count, di |-> e]
      BY <2>2, <2>5
    <3> QED
      BY <1>3, <2>1, <2>6, <3>1, <3>2
  <2>8. d = [e EXCEPT !.size = Most(di.size, end)]
    BY <1>11, <2>5
  <2>9. c = [r EXCEPT !.di = d]
    BY <1>13, <2>7
  <2>10. core' = [c1 EXCEPT ![i] = c]
    <3>1. r.di = e /\ [r EXCEPT !.di = [r.di EXCEPT !.size = Most(@, end)]] = c
      BY <2>7, <2>8, <2>9
    <3>2. core' = [c1 EXCEPT ![i] = [c1[i] EXCEPT !.di = [c1[i].di EXCEPT !.size = Most(@, end)]]]
      BY <2>4
    <3> QED
      BY <2>7, <3>1, <3>2
  <2> QED
    BY <1>3, <2>1, <2>6, <2>10
<1>16. CacheStep(i, d) /\ core'[i].count = core[i].count
  BY <1>3, <1>5, <1>14, <1>15, IgetStep
<1>17. core'[i].di = d
  BY <1>3, <1>14, <1>15 DEF IInv, TypeInv
<1>18. Written(s, i, off, di, n, a, d, end)
  BY <1>4, <1>6, <1>9, <1>12, <1>16, <1>17 DEF Written
<1>19. \E b \in Extended(di.addr, Touched(off, n)), e \in DinodeRecord,
         to \in 0 .. NADDR * BLOCKSIZ : Written(s, i, off, di, n, b, e, to)
  BY <1>9, <1>12, <1>18
<1> QED
  BY <1>1, <1>19

LEMMA WriteInv ==
  ASSUME IInv, NEW u \in Users, NEW fd \in Fd, NEW n \in Sizes, Write(u, fd, n)
  PROVE  IInv' /\ (RoomInv => RoomInv')
<1>1. PICK s, i, off, di :
         /\ s = uofile[u][fd] /\ i = ofile[s].ino /\ off = ofile[s].off /\ di = Current(i)
         /\ \E a \in Extended(di.addr, Touched(off, n)), d \in DinodeRecord,
              end \in 0 .. NADDR * BLOCKSIZ : Written(s, i, off, di, n, a, d, end)
  BY WriteEffect
<1>2. uofile[u][fd] < SYSOPENFILE
  BY DEF Write
<1>3. /\ s \in Slot /\ s # None /\ ofile[s].count = 1 /\ s \in OpenSlots(i)
      /\ i \in Inodes /\ i \in inodes /\ i \in AllInodes
      /\ core[i].count \in Nat \ {0} /\ core[i].di = di
      /\ off \in 0 .. NADDR * BLOCKSIZ /\ off <= di.size
  BY <1>1, <1>2, OpenDescriptor
<1>4. PICK a \in Extended(di.addr, Touched(off, n)), d \in DinodeRecord,
           end \in 0 .. NADDR * BLOCKSIZ : Written(s, i, off, di, n, a, d, end)
  BY <1>1
<1>5. disk' = disk /\ inodes' = inodes /\ dir' = dir /\ uofile' = uofile
  BY DEF Write
<1>6. /\ blocks' = blocks \cup AddrBlocks([addr |-> a])
      /\ ofile' = [ofile EXCEPT ![s].off = end]
  BY <1>4 DEF Written
<1>7. /\ di \in DinodeRecord /\ di.addr \in [Index -> Blocks \cup {Hole}]
      /\ di.size \in 0 .. NADDR * BLOCKSIZ
      /\ off \in Nat /\ n \in Nat \ {0} /\ NADDR * BLOCKSIZ \in Nat
  <2>1. di \in DinodeRecord
    BY <1>1, <1>3, CurrentTyped DEF IInv
  <2>2. di.addr \in [Index -> Blocks \cup {Hole}] /\ di.size \in 0 .. NADDR * BLOCKSIZ
    BY <2>1 DEF DinodeRecord
  <2>3. off \in 0 .. NADDR * BLOCKSIZ /\ n \in Nat \ {0} /\ NADDR * BLOCKSIZ \in Nat
    BY <1>3, Constants
  <2>4. PICK m \in Nat : m = NADDR * BLOCKSIZ
    BY <2>3
  <2> QED
    BY <2>1, <2>2, <2>3, <2>4
<1>8. /\ AddrBlocks(di) \subseteq blocks
      /\ \A k, l \in Index : di.addr[k] = di.addr[l] /\ di.addr[k] # Hole => k = l
      /\ \A k \in Index : di.addr[k] # Hole <=> k * BLOCKSIZ < di.size
      /\ \A k \in Index : di.addr[k] \in {Hole} \cup AddrBlocks(di)
  <2>1. /\ AddrBlocks(Current(i)) \subseteq blocks
        /\ \A k, l \in Index :
             Current(i).addr[k] = Current(i).addr[l] /\ Current(i).addr[k] # Hole => k = l
        /\ \A k \in Index : Current(i).addr[k] # Hole <=> k * BLOCKSIZ < Current(i).size
        /\ \A k \in Index : Current(i).addr[k] \in {Hole} \cup AddrBlocks(Current(i))
    BY <1>3, OwnBlocks DEF IInv
  <2> QED
    BY <1>1, <2>1
<1>9. di.size <= d.size /\ end <= d.size /\ \A k \in Index : a[k] # Hole <=> k * BLOCKSIZ < d.size
  BY <1>4 DEF Written
<1>10. /\ a \in [Index -> Blocks \cup {Hole}]
       /\ \A k \in Index : di.addr[k] # Hole => a[k] = di.addr[k]
       /\ \A j, k \in Index : a[j] # di.addr[j] =>
            a[j] \notin blocks /\ (a[j] = a[k] => j = k)
  BY DEF Extended
<1>12. /\ d.addr = a /\ d.number = di.number /\ d.owner = di.owner /\ d.mode = di.mode
       /\ d.size \in 0 .. NADDR * BLOCKSIZ
  BY <1>4 DEF Written, DinodeRecord
<1>16. CacheStep(i, d) /\ core'[i].count = core[i].count
  BY <1>4 DEF Written
<1>17. BlocksMoved(i, d)
  <2>1. \A k, l \in Index : a[k] = a[l] /\ a[k] # Hole => k = l
    <3>1. ASSUME NEW k \in Index, NEW l \in Index, a[k] = a[l], a[k] # Hole
          PROVE  k = l
      <4>1. CASE a[k] # di.addr[k]
        BY <1>10, <3>1, <4>1
      <4>2. CASE a[l] # di.addr[l]
        BY <1>10, <3>1, <4>2
      <4>3. CASE a[k] = di.addr[k] /\ a[l] = di.addr[l]
        BY <1>8, <3>1, <4>3
      <4> QED
        BY <4>1, <4>2, <4>3
    <3> QED
      BY <3>1
  <2>2. \A k \in Index : a[k] \in {Hole} \cup AddrBlocks(di) \cup (Blocks \ blocks)
    BY <1>8, <1>10
  <2>3. AddrBlocks(d) = AddrBlocks([addr |-> a])
    BY <1>12 DEF AddrBlocks
  <2>4. AddrBlocks(di) \subseteq AddrBlocks(d)
    BY <1>10, <1>12 DEF AddrBlocks
  <2>5. blocks' = (blocks \ AddrBlocks(di)) \cup AddrBlocks(d)
    BY <1>6, <1>8, <2>3, <2>4
  <2> QED
    BY <1>1, <1>9, <1>12, <2>1, <2>2, <2>5 DEF BlocksMoved
<1>18. /\ ofile' \in [Slot -> [count : 0 .. 1, ino : AllInodes,
                      flag : OpenModes \cup {{}, {"W"}}, off : 0 .. NADDR * BLOCKSIZ]]
       /\ \A t \in Slot : /\ ofile'[t].count = ofile[t].count
                          /\ ofile'[t].ino = ofile[t].ino
                          /\ ofile'[t].flag = ofile[t].flag
                          /\ ofile'[t].off = IF t = s THEN end ELSE ofile[t].off
  BY <1>3, <1>6 DEF IInv, TypeInv
<1>19. SameSlots(ofile')
  BY <1>18 DEF SameSlots
<1>20. \A t \in Slot : ofile'[t].count > 0 =>
         ofile'[t].off <= IF ofile'[t].ino = i THEN d.size ELSE Current(ofile'[t].ino).size
  <2>1. ASSUME NEW t \in Slot, ofile'[t].count > 0, NEW j, j = ofile'[t].ino
        PROVE  ofile'[t].off <= IF j = i THEN d.size ELSE Current(j).size
    <3>1. ofile[t].count > 0 /\ ofile[t].ino = j
      BY <1>18, <2>1
    <3>2. CASE t = s
      BY <1>1, <1>9, <1>12, <1>18, <3>1, <3>2
    <3>3. CASE t # s /\ j = i
      <4>1. ofile[t].off <= di.size /\ ofile[t].off \in Nat
        <5>1. ofile[t].off <= di.size
          BY <1>1, <3>1, <3>3, OffsetsWithin
        <5>2. ofile[t].off \in 0 .. NADDR * BLOCKSIZ
          BY DEF IInv, TypeInv
        <5> QED
          BY <1>7, <5>1, <5>2
      <4> QED
        BY <1>7, <1>9, <1>12, <1>18, <3>3, <4>1
    <3>4. CASE t # s /\ j # i
      BY <1>18, <3>1, <3>4, OffsetsWithin
    <3> QED
      BY <3>2, <3>3, <3>4
  <2> QED
    BY <2>1
<1>21. TablesMoved(i, d) /\ OpenSlots(i)' = OpenSlots(i)
  BY <1>3, <1>5, <1>12, <1>16, <1>19, <1>20, TablesSame
<1>22. FilesInv'
  BY <1>1, <1>3, <1>5, <1>12, <1>16, <1>17, <1>21, FilesStep
<1>23. Listed(i) => i \in inodes' /\ d.number > 0
  BY <1>1, <1>3, <1>5, <1>12, FilesAssumption DEF IInv, DirInv, Listed
<1>24. RoomInv /\ i \in inodes' /\ d.number > 0 => Listed(i)
  BY <1>1, <1>3, <1>12, FilesAssumption DEF RoomInv
<1> QED
  BY <1>3, <1>5, <1>12, <1>16, <1>22, <1>23, <1>24, IInvStep

-----------------------------------------------------------------------------
(***************************************************************************)
(* The inductive invariant is one.                                         *)
(***************************************************************************)

LEMMA InitInv == Init => IInv /\ RoomInv
<1> SUFFICES ASSUME Init PROVE IInv /\ RoomInv
  OBVIOUS
<1>1. /\ Cwd \in AllInodes /\ Cwd # NoIno /\ Root \in Users
      /\ Dinode(1, Root, {}) \in DinodeRecord /\ EmptyDinode \in DinodeRecord
      /\ Dinode(1, Root, {}).number = 1
  <2>1. Root \in Users /\ {} \in Modes \cup {{}} /\ 1 \in 0 .. 1
    BY FilesAssumption
  <2> QED
    BY <2>1, BlankTyped, FilesAssumption DEF AllInodes, Dinode
<1>2. NotInCore \in [count : Nat, di : DinodeRecord] /\ NotInCore.count = 0
  BY BlankTyped DEF NotInCore
<1>3. /\ disk \in [AllInodes -> DinodeRecord]
      /\ core \in [AllInodes -> [count : Nat, di : DinodeRecord]]
      /\ core[Cwd].count = 1 /\ Current(Cwd) = Dinode(1, Root, {})
      /\ \A i \in AllInodes \ {Cwd} : core[i].count = 0 /\ disk[i] = EmptyDinode
      /\ \A i \in AllInodes \ {Cwd} : Current(i) = EmptyDinode
      /\ inodes = {Cwd} /\ blocks = {}
  BY <1>1, <1>2 DEF AllInodes, Current, Init
<1>4. /\ Closed \in [count : 0 .. 1, ino : AllInodes,
                     flag : OpenModes \cup {{}, {"W"}}, off : 0 .. NADDR * BLOCKSIZ]
      /\ Closed.count = 0
  BY <1>1, Constants DEF Closed
<1>a. ofile = [s \in Slot |-> Closed] /\ uofile = [u \in Users |-> [fd \in Fd |-> None]]
  BY DEF Init
<1>5. /\ dir \in Seq(DirRecord) /\ Len(dir) = 2
      /\ dir[1] = Entry(".", Cwd) /\ dir[2] = Entry("..", Cwd)
  BY <1>1 DEF Entry, DirRecord, Init
<1>6. TypeInv
  BY <1>1, <1>3, <1>4, <1>5, <1>a, Constants DEF TypeInv, DirRecord
<1>7. DirInv /\ RoomInv
  BY <1>3, <1>5 DEF DirInv, RoomInv, DotsStay, Entry
<1>8. \A s \in Slot : ofile[s].count = 0
  BY <1>4, <1>a
<1>9. InodeInv
  BY <1>1, <1>3 DEF InodeInv
<1>10. TableInv
  <2>1. SlotsOwned
    BY <1>8, <1>a, Constants DEF SlotsOwned
  <2>2. RefCounts
    <3>1. ASSUME NEW i \in AllInodes
          PROVE  core[i].count = Cardinality(OpenSlots(i)) + (IF i = Cwd THEN 1 ELSE 0)
      <4>1. OpenSlots(i) = {}
        BY <1>8 DEF OpenSlots
      <4>2. Cardinality(OpenSlots(i)) = 0
        BY <4>1, FS_EmptySet
      <4>3. CASE i = Cwd
        BY <1>3, <4>2, <4>3
      <4>4. CASE i # Cwd
        BY <1>3, <4>2, <4>4
      <4> QED
        BY <4>3, <4>4
    <3> QED
      BY <3>1 DEF RefCounts
  <2> QED
    BY <1>8, <2>1, <2>2 DEF TableInv
<1>11. \A i \in AllInodes : Current(i).addr = NoAddr /\ Current(i).size = 0
  BY <1>3, BlankTyped DEF Dinode
<1>12. \A k \in Index : NoAddr[k] = Hole
  BY DEF NoAddr
<1>13. BlocksAccounted
  <2>1. AddrBlocks(Current(Cwd)) = {}
    BY <1>1, <1>11, <1>12 DEF AddrBlocks
  <2>2. \A i \in inodes, k \in Index : Current(i).addr[k] = Hole
    BY <1>1, <1>3, <1>11, <1>12
  <2> QED
    BY <1>3, <2>1, <2>2 DEF BlocksAccounted
<1>14. NoHoles
  <2>1. \A k \in Index : ~(k * BLOCKSIZ < 0)
    BY Constants DEF Index
  <2> QED
    BY <1>8, <1>11, <1>12, <2>1 DEF NoHoles, AllInodes
<1>15. RightsHeld
  BY <1>a DEF RightsHeld
<1> QED
  BY <1>6, <1>7, <1>9, <1>10, <1>13, <1>14, <1>15 DEF IInv

LEMMA NextInv == IInv /\ [Next]_vars => IInv' /\ (Room /\ RoomInv => RoomInv')
<1> SUFFICES ASSUME IInv, [Next]_vars
             PROVE  IInv' /\ (Room /\ RoomInv => RoomInv')
  OBVIOUS
<1>1. ASSUME NEW u \in Users, NEW n \in Names, NEW kind \in Kinds, Denied(u, n, kind)
      PROVE  IInv' /\ (Room /\ RoomInv => RoomInv')
  BY <1>1, DeniedInv
<1>2. ASSUME NEW u \in Users, NEW n \in Names, CreatTruncate(u, n)
      PROVE  IInv' /\ (Room /\ RoomInv => RoomInv')
  BY <1>2, CreatTruncateInv
<1>3. ASSUME NEW u \in Users, NEW n \in Names, NEW m \in Modes, CreatNew(u, n, m)
      PROVE  IInv' /\ (Room /\ RoomInv => RoomInv')
  BY <1>3, CreatNewInv
<1>4. ASSUME NEW u \in Users, NEW n \in Names, NEW flag \in OpenModes, Open(u, n, flag)
      PROVE  IInv' /\ (Room /\ RoomInv => RoomInv')
  BY <1>4, OpenInv
<1>5. ASSUME NEW u \in Users, NEW n \in Names, OpenNoSlot(u, n)
      PROVE  IInv' /\ (Room /\ RoomInv => RoomInv')
  BY <1>5, OpenNoSlotInv
<1>6. ASSUME NEW n \in Names, CreatNoInode(n)
      PROVE  IInv' /\ (Room /\ RoomInv => RoomInv')
  BY <1>6, CreatNoInodeInv
<1>7. ASSUME NEW n \in Names, Delete(n)
      PROVE  IInv' /\ (Room /\ RoomInv => RoomInv')
  BY <1>7, DeleteInv
<1>8. ASSUME NEW u \in Users, NEW fd \in Fd, Close(u, fd)
      PROVE  IInv' /\ (Room /\ RoomInv => RoomInv')
  BY <1>8, CloseInv
<1>9. ASSUME NEW u \in Users, NEW fd \in Fd, NEW n \in Sizes, Read(u, fd, n)
      PROVE  IInv' /\ (Room /\ RoomInv => RoomInv')
  BY <1>9, ReadInv, Constants
<1>10. ASSUME NEW u \in Users, NEW fd \in Fd, NEW n \in Sizes, Write(u, fd, n)
       PROVE  IInv' /\ (Room /\ RoomInv => RoomInv')
  BY <1>10, WriteInv
<1>11. CASE UNCHANGED vars
  <2> USE <1>11 DEF vars
  <2>1. IInv'
    <3>1. TypeInv' /\ DirInv' /\ InodeInv'
      BY DEF IInv, TypeInv, DirInv, InodeInv, OpenSlots, Current
    <3>2. TableInv'
      BY DEF IInv, TableInv, SlotsOwned, RefCounts, OpenSlots
    <3>3. BlocksAccounted' /\ NoHoles'
      BY DEF IInv, BlocksAccounted, NoHoles, Current, AddrBlocks
    <3>4. RightsHeld'
      BY ZenonT(60) DEF IInv, RightsHeld, Access, Class
    <3> QED
      BY <3>1, <3>2, <3>3, <3>4 DEF IInv
  <2>2. RoomInv => RoomInv'
    BY DEF RoomInv, DotsStay, Listed, Current
  <2> QED
    BY <2>1, <2>2
<1> QED
  BY <1>1, <1>2, <1>3, <1>4, <1>5, <1>6, <1>7, <1>8, <1>9, <1>10, <1>11 DEF Next

\* The inductive invariant holds in every state of every behaviour, whatever the
\* number of sessions, names, inodes, blocks and places in the tables.
THEOREM Invariance == Spec => []IInv
<1>1. Init => IInv
  BY InitInv
<1>2. IInv /\ [Next]_vars => IInv'
  BY NextInv
<1> QED
  BY <1>1, <1>2, PTL DEF Spec

\* With room for all names in the directory, creat() and delete_file() keep an entry
\* for each file as well.
THEOREM RoomInvariance == ASSUME Room PROVE Spec => [](IInv /\ RoomInv)
<1>1. Init => IInv /\ RoomInv
  BY InitInv
<1>2. (IInv /\ RoomInv) /\ [Next]_vars => (IInv /\ RoomInv)'
  BY NextInv
<1> QED
  BY <1>1, <1>2, PTL DEF Spec

-----------------------------------------------------------------------------
(***************************************************************************)
(* The theorems.                                                           *)
(***************************************************************************)

\* Every variable stays within its type; i_count never exceeds the number of places
\* in the system open-file table, and di_size never exceeds what di_addr can hold.
THEOREM TypeCorrect == Spec => []TypeOK
<1>1. IInv => TypeOK
  <2> SUFFICES ASSUME IInv PROVE TypeOK
    OBVIOUS
  <2>1. \A i \in AllInodes : core[i].count \in 0 .. SYSOPENFILE
    BY CountBounds DEF IInv, TableInv
  <2>2. core \in [AllInodes -> [count : 0 .. SYSOPENFILE, di : DinodeRecord]]
    BY <2>1 DEF IInv, TypeInv
  <2> QED
    BY <2>2 DEF IInv, TypeInv, TypeOK
<1> QED
  BY <1>1, Invariance, PTL

\* i_count of every inode is the number of references to it, so that iput() frees
\* an inode exactly when nothing points to it any more.
THEOREM CountsRight == Spec => []RefCounts
<1>1. IInv => RefCounts
  BY DEF IInv, TableInv
<1> QED
  BY <1>1, Invariance, PTL

\* Descriptors and open slots belong together one to one.
THEOREM SlotsRight == Spec => []SlotsOwned
<1>1. IInv => SlotsOwned
  BY DEF IInv, TableInv
<1> QED
  BY <1>1, Invariance, PTL

\* No two places of files in use hold the same block, and the blocks in use are
\* exactly those of the files in use.
THEOREM BlocksRight == Spec => []BlocksAccounted
<1>1. IInv => BlocksAccounted
  BY DEF IInv
<1> QED
  BY <1>1, Invariance, PTL

\* A file has the blocks its size covers and no other, and no descriptor stands
\* beyond its end, however reads, writes and truncations by several sessions mix.
THEOREM HolesNever == Spec => []NoHoles
<1>1. IInv => NoHoles
  BY DEF IInv
<1> QED
  BY <1>1, Invariance, PTL

\* The permission a descriptor was opened with stays that of its session.
THEOREM RightsStay == Spec => []RightsHeld
<1>1. IInv => RightsHeld
  BY DEF IInv
<1> QED
  BY <1>1, Invariance, PTL

\* A name leads to one file, in a full directory too.
THEOREM NamesRight == Spec => []NamesUnique
<1>1. IInv => NamesUnique
  <2> SUFFICES ASSUME IInv, NEW x \in DOMAIN dir, NEW y \in DOMAIN dir,
                      dir[x].ino # NoIno, dir[y].ino # NoIno, dir[x].name = dir[y].name
               PROVE  x = y
    BY DEF NamesUnique
  <2>1. Len(dir) \in Nat /\ x \in 1 .. Len(dir) /\ y \in 1 .. Len(dir)
    BY DirTyped DEF IInv
  <2>2. dir[1].name = "." /\ dir[2].name = ".." /\ "." \notin Names /\ ".." \notin Names
        /\ "." # ".."
    BY FilesAssumption DEF IInv, DirInv, Entry
  <2>3. \A z \in 3 .. Len(dir) : dir[z].name \in Names
    BY DEF IInv, DirInv
  <2>4. CASE x \in 3 .. Len(dir) /\ y \in 3 .. Len(dir)
    BY <2>4 DEF IInv, DirInv
  <2>5. CASE ~(x \in 3 .. Len(dir)) \/ ~(y \in 3 .. Len(dir))
    <3>1. x \in {1, 2} \/ y \in {1, 2}
      BY <2>1, <2>5
    <3>2. /\ x \in {1, 2} \/ x \in 3 .. Len(dir)
          /\ y \in {1, 2} \/ y \in 3 .. Len(dir)
      BY <2>1
    <3> QED
      BY <2>2, <2>3, <3>1, <3>2
  <2> QED
    BY <2>4, <2>5
<1> QED
  BY <1>1, Invariance, PTL

\* In a directory with room for all names iname() never answers with the place of
\* ".": the first two entries stay what they are.
THEOREM DotsRight == ASSUME Room PROVE Spec => []DotsStay
<1>1. IInv /\ RoomInv => DotsStay
  BY DEF RoomInv
<1> QED
  BY <1>1, RoomInvariance, PTL

\* In a directory with room for all names an inode is in use exactly as long as an
\* entry or an open slot refers to it: none is lost and none is freed too early.
THEOREM InodesRight == ASSUME Room PROVE Spec => []InodesAccounted
<1>1. IInv /\ RoomInv => InodesAccounted
  <2> SUFFICES ASSUME IInv, RoomInv PROVE InodesAccounted
    OBVIOUS
  <2>1. inodes \subseteq AllInodes /\ Cwd \in inodes /\ Cwd \in AllInodes
        /\ NoIno \notin AllInodes
    BY FilesAssumption DEF IInv, TypeInv, InodeInv, AllInodes
  <2>2. ASSUME NEW i \in AllInodes, Listed(i)
        PROVE  i \in inodes \ {Cwd} /\ Current(i).number > 0
    BY <2>1, <2>2 DEF IInv, DirInv, Listed
  <2>3. ASSUME NEW i \in AllInodes, OpenSlots(i) # {}
        PROVE  i \in inodes
    BY <2>3 DEF IInv, TableInv, OpenSlots
  <2>4. ASSUME NEW i \in inodes, i # Cwd
        PROVE  Listed(i) \/ OpenSlots(i) # {}
    <3>1. Current(i).number \in 0 .. 1
      BY <2>1, CurrentTyped DEF IInv, DinodeRecord
    <3>2. CASE Current(i).number = 0
      BY <3>2 DEF IInv, InodeInv
    <3>3. CASE Current(i).number > 0
      BY <2>4, <3>3 DEF RoomInv
    <3> QED
      BY <3>1, <3>2, <3>3
  <2>5. inodes = {i \in AllInodes : i = Cwd \/ Listed(i) \/ OpenSlots(i) # {}}
    BY <2>1, <2>2, <2>3, <2>4
  <2>6. ASSUME NEW i \in AllInodes, Current(i).number > 0, i # Cwd
        PROVE  Listed(i)
    <3>1. i \in inodes
      <4>1. ASSUME i \notin inodes PROVE FALSE
        <5>1. Current(i) = EmptyDinode
          BY <4>1 DEF IInv, InodeInv, Current
        <5> QED
          BY <2>6, <5>1, BlankTyped
      <4> QED
        BY <4>1
    <3> QED
      BY <2>6, <3>1 DEF RoomInv
  <2> QED
    BY <2>2, <2>5, <2>6 DEF InodesAccounted
<1> QED
  BY <1>1, RoomInvariance, PTL

-----------------------------------------------------------------------------
(***************************************************************************)
(* The bytes of the files, as Bytes has them.                              *)
(***************************************************************************)

\* What the blocks of an inode hold up to its size.
BytesOf(d) == [p \in 1 .. d.size |-> ByteOf(d, p - 1)]

DataInv == data \in [Blocks -> [Offset -> Byte]]

\* Every byte below the size of a file is in one of its blocks.
LEMMA InBlock ==
  ASSUME NEW d \in DinodeRecord, \A k \in Index : d.addr[k] # Hole <=> k * BLOCKSIZ < d.size,
         NEW p \in Nat, p < d.size
  PROVE  /\ p \div BLOCKSIZ \in Index /\ p % BLOCKSIZ \in Offset
         /\ p = (p \div BLOCKSIZ) * BLOCKSIZ + (p % BLOCKSIZ)
         /\ d.addr[p \div BLOCKSIZ] \in Blocks
<1>1. PICK b \in Nat \ {0} : b = BLOCKSIZ
  BY Constants
<1>2. PICK q, r : q = p \div b /\ r = p % b
  OBVIOUS
<1>3. q \in Nat /\ r \in 0 .. b - 1 /\ p = q * b + r
  BY <1>1, <1>2, Z3
<1>4. q * BLOCKSIZ \in Nat /\ q * BLOCKSIZ <= p
  BY <1>1, <1>3, Products
<1>5. d.size \in Nat /\ d.size <= NADDR * BLOCKSIZ /\ d.addr \in [Index -> Blocks \cup {Hole}]
  BY Constants DEF DinodeRecord
<1>6. q < NADDR
  BY <1>3, <1>4, <1>5, Constants, Products
<1>7. q \in Index
  BY <1>3, <1>6, Constants DEF Index
<1>8. q * BLOCKSIZ < d.size
  BY <1>4, <1>5
<1>9. d.addr[q] \in Blocks
  BY <1>5, <1>7, <1>8
<1> QED
  BY <1>1, <1>2, <1>3, <1>7, <1>9 DEF Offset

LEMMA BytesTyped ==
  ASSUME DataInv, NEW d \in DinodeRecord,
         \A k \in Index : d.addr[k] # Hole <=> k * BLOCKSIZ < d.size
  PROVE  /\ BytesOf(d) \in Seq(Byte) /\ Len(BytesOf(d)) = d.size /\ d.size \in Nat
         /\ d.size <= NADDR * BLOCKSIZ
         /\ \A p \in 1 .. d.size : BytesOf(d)[p] = ByteOf(d, p - 1)
<1>1. d.size \in Nat /\ d.size <= NADDR * BLOCKSIZ
  BY Constants DEF DinodeRecord
<1>2. \A p \in 1 .. d.size : ByteOf(d, p - 1) \in Byte
  <2> SUFFICES ASSUME NEW p \in 1 .. d.size PROVE ByteOf(d, p - 1) \in Byte
    OBVIOUS
  <2>1. PICK x : x = p - 1
    OBVIOUS
  <2>2. x \in Nat /\ x < d.size
    BY <1>1, <2>1
  <2>3. x % BLOCKSIZ \in Offset /\ d.addr[x \div BLOCKSIZ] \in Blocks
    BY <2>2, InBlock
  <2> QED
    BY <2>1, <2>3 DEF ByteOf, DataInv
<1>3. PICK s, n : s = BytesOf(d) /\ n = d.size
  OBVIOUS
<1>4. s \in [1 .. n -> Byte] /\ \A p \in 1 .. n : s[p] = ByteOf(d, p - 1)
  BY <1>2, <1>3 DEF BytesOf
<1>5. s \in Seq(Byte) /\ Len(s) = n
  BY <1>1, <1>3, <1>4
<1> QED
  BY <1>1, <1>3, <1>4, <1>5

LEMMA ContentOf ==
  ASSUME IInv, DataInv, NEW i \in Inodes
  PROVE  /\ Contents[i] = BytesOf(Current(i)) /\ Contents[i] \in Seq(Byte)
         /\ Len(Contents[i]) = Current(i).size /\ Current(i).size \in Nat
         /\ Current(i).size <= NADDR * BLOCKSIZ
         /\ \A p \in 1 .. Current(i).size : Contents[i][p] = ByteOf(Current(i), p - 1)
<1>1. Current(i) \in DinodeRecord
  BY CurrentTyped DEF IInv, AllInodes
<1>2. \A k \in Index : Current(i).addr[k] # Hole <=> k * BLOCKSIZ < Current(i).size
  BY DEF IInv, NoHoles
<1>3. Contents[i] = BytesOf(Current(i))
  BY DEF Contents, BytesOf
<1> QED
  BY <1>1, <1>2, <1>3, BytesTyped

\* As long as the blocks are left alone, a step changes what one file holds.
LEMMA ContentsStep ==
  ASSUME NEW i \in Inodes, NEW d \in DinodeRecord, CacheStep(i, d), data' = data
  PROVE  Contents' = [Contents EXCEPT ![i] = BytesOf(d)]
<1>1. \A j \in Inodes : Current(j)' = IF j = i THEN d ELSE Current(j)
  BY DEF CacheStep, Changed, AllInodes
<1>2. \A j \in Inodes :
        [p \in 1 .. Current(j).size |-> ByteOf(Current(j), p - 1)]' =
          IF j = i THEN BytesOf(d) ELSE Contents[j]
  BY <1>1 DEF Contents, ByteOf, BytesOf
<1> QED
  BY <1>2 DEF Contents

LEMMA ContentsSame ==
  ASSUME NEW i \in Inodes, NEW d \in DinodeRecord, CacheStep(i, d), data' = data,
         d.addr = Current(i).addr, d.size = Current(i).size
  PROVE  Contents' = Contents
<1>1. BytesOf(d) = Contents[i]
  BY DEF BytesOf, ByteOf, Contents
<1>2. Contents' = [Contents EXCEPT ![i] = Contents[i]]
  BY <1>1, ContentsStep
<1> QED
  BY <1>2 DEF Contents

LEMMA ContentsEmptied ==
  ASSUME NEW i \in Inodes, NEW d \in DinodeRecord, CacheStep(i, d), data' = data,
         d.size = 0
  PROVE  Contents' = Flat!Emptied(i)
<1>1. BytesOf(d) = <<>>
  BY DEF BytesOf
<1> QED
  BY <1>1, ContentsStep DEF Flat!Emptied

-----------------------------------------------------------------------------
(***************************************************************************)
(* The cursors.                                                            *)
(***************************************************************************)

LEMMA CursorOf ==
  ASSUME NEW s \in Slot
  PROVE  /\ ofile[s].count = 0 => Cursors[s] = Closed
         /\ ofile[s].count # 0 => /\ Cursors[s] = Flat!At(ofile[s].ino, ofile[s].off)
                                  /\ Cursors[s] # Closed
                                  /\ Cursors[s].file = ofile[s].ino
                                  /\ Cursors[s].off = ofile[s].off
<1>1. \A i, o : [file |-> i, off |-> o] # Closed
  <2>1. "count" \in DOMAIN Closed
    BY DEF Closed
  <2>2. \A i, o : "count" \notin DOMAIN [file |-> i, off |-> o]
    OBVIOUS
  <2> QED
    BY <2>1, <2>2
<1> QED
  BY <1>1 DEF Cursors, Flat!At

LEMMA CursorsOn ==
  ASSUME TypeInv, NEW i
  PROVE  Flat!Cursors(i) = OpenSlots(i)
<1>1. \A s \in Slot : ofile[s].count # 0 <=> ofile[s].count > 0
  BY DEF TypeInv
<1> QED
  BY <1>1, CursorOf DEF Flat!Cursors, OpenSlots

LEMMA CursorsSame ==
  ASSUME \A s \in Slot : /\ ofile'[s].count = ofile[s].count
                         /\ ofile'[s].ino = ofile[s].ino
                         /\ ofile'[s].off = ofile[s].off
  PROVE  Cursors' = Cursors
BY DEF Cursors

LEMMA CursorsLinked ==
  ASSUME NEW s \in Slot, ofile[s].count = 0, NEW i, NEW off, NEW flag,
         ofile'[s] = [count |-> 1, ino |-> i, flag |-> flag, off |-> off],
         \A t \in Slot \ {s} : ofile'[t] = ofile[t]
  PROVE  /\ Cursors[s] = Closed
         /\ Cursors' = [Cursors EXCEPT ![s] = Flat!At(i, off)]
<1>1. \A t \in Slot : Cursors'[t] = IF t = s THEN Flat!At(i, off) ELSE Cursors[t]
  BY DEF Cursors, Flat!At
<1> QED
  BY <1>1, CursorOf DEF Cursors

LEMMA CursorsRewound ==
  ASSUME TypeInv, NEW i
  PROVE  Flat!Rewound(i) =
           [s \in Slot |-> IF Rewound(i)[s].count = 0 THEN Closed
                           ELSE [file |-> Rewound(i)[s].ino, off |-> Rewound(i)[s].off]]
<1>1. \A s \in Slot : /\ Rewound(i)[s].count = ofile[s].count
                      /\ Rewound(i)[s].ino = ofile[s].ino
                      /\ Rewound(i)[s].off = IF s \in OpenSlots(i) THEN 0 ELSE ofile[s].off
  BY DEF TypeInv, Rewound, OpenSlots
<1>2. \A s \in OpenSlots(i) : ofile[s].count # 0 /\ ofile[s].ino = i
  BY DEF OpenSlots, TypeInv
<1>3. \A s \in Slot :
        (IF s \in OpenSlots(i) THEN Flat!At(i, 0) ELSE Cursors[s]) =
           IF Rewound(i)[s].count = 0 THEN Closed
           ELSE [file |-> Rewound(i)[s].ino, off |-> Rewound(i)[s].off]
  BY <1>1, <1>2 DEF Cursors, Flat!At
<1> QED
  BY <1>3, CursorsOn DEF Flat!Rewound

-----------------------------------------------------------------------------
(***************************************************************************)
(* Every call is one of a flat file, or one that nobody notices.           *)
(***************************************************************************)

FlatStep == Flat!Next(Sizes, Strings)
FlatSame == Contents' = Contents /\ Cursors' = Cursors

\* The slots as they are, linked to a file at its beginning or at its end.
LEMMA LinkFlat ==
  ASSUME TypeInv, SlotsOwned, NEW u \in Users, CanOpen(u), NEW i \in Inodes,
         NEW flag \in OpenModes \cup {{}, {"W"}}, NEW off \in 0 .. NADDR * BLOCKSIZ,
         Link(u, i, flag, off, ofile), off \in {0, Len(Contents[i])},
         Contents' = Contents, buf' = <<>>
  PROVE  FlatStep
<1>1. PICK s \in Slot :
        /\ ofile[s].count = 0
        /\ ofile'[s] = [count |-> 1, ino |-> i, flag |-> flag, off |-> off]
        /\ \A t \in Slot \ {s} : ofile'[t] = ofile[t]
  <2>1. SameSlots(ofile) /\ i \in AllInodes
    BY RewoundSame DEF AllInodes
  <2> QED
    BY <2>1, TablesLinked
<1>2. Cursors[s] = Closed /\ Cursors' = [Cursors EXCEPT ![s] = Flat!At(i, off)]
  BY <1>1, CursorsLinked
<1>3. Flat!Open(s, i)
  BY <1>2 DEF Flat!Open
<1> QED
  BY <1>3 DEF FlatStep, Flat!Next

LEMMA OpenFlat ==
  ASSUME IInv, DataInv, NEW u \in Users, NEW n \in Names, NEW flag \in OpenModes,
         Open(u, n, flag), buf' = <<>>, data' = data
  PROVE  FlatStep
<1>1. PICK i, c, off : /\ i = dir[Namei(n)].ino /\ c = Iget(i)
                       /\ off = IF "A" \in flag THEN Current(i).size ELSE 0
  OBVIOUS
<1>2. /\ Exists(n) /\ CanOpen(u) /\ core' = [core EXCEPT ![i] = c]
      /\ Link(u, i, flag, off, ofile) /\ disk' = disk /\ inodes' = inodes
  BY <1>1 DEF Open
<1>3. i \in Inodes /\ i \in inodes /\ i \in AllInodes
  BY <1>1, <1>2, FoundEntry DEF IInv, AllInodes
<1>4. Current(i) \in DinodeRecord /\ core[i].count \in Nat
  BY <1>3, CurrentTyped DEF IInv, TypeInv
<1>5. c \in [count : Nat \ {0}, di : DinodeRecord] /\ c.di = Current(i)
  BY <1>1, <1>4 DEF Iget
<1>6. Contents' = Contents
  BY <1>2, <1>3, <1>4, <1>5, IgetStep, ContentsSame
<1>7. off \in 0 .. NADDR * BLOCKSIZ /\ off \in {0, Len(Contents[i])}
  BY <1>1, <1>3, ContentOf, Constants
<1>8. flag \in OpenModes \cup {{}, {"W"}}
  OBVIOUS
<1> QED
  BY <1>2, <1>3, <1>6, <1>7, <1>8, LinkFlat DEF IInv, TableInv

LEMMA CreatTruncateFlat ==
  ASSUME IInv, NEW u \in Users, NEW n \in Names, CreatTruncate(u, n), buf' = <<>>, data' = data
  PROVE  FlatStep
<1>1. PICK i, c, used : /\ i = dir[Namei(n)].ino
                        /\ c = [Iget(i) EXCEPT !.di.addr = NoAddr, !.di.size = 0]
                        /\ used = blocks \ AddrBlocks(Current(i))
  OBVIOUS
<1>2. Exists(n)
  BY DEF CreatTruncate
<1>3. /\ i \in Inodes /\ i \in inodes /\ i \in AllInodes
      /\ Current(i) \in DinodeRecord /\ core[i].count \in Nat /\ Current(i).number = 1
  BY <1>1, <1>2, FoundEntry, CurrentTyped DEF IInv, AllInodes, TypeInv
<1>4. PICK d : d = [Current(i) EXCEPT !.addr = NoAddr, !.size = 0]
  OBVIOUS
<1>5. d \in DinodeRecord /\ d.addr = NoAddr /\ d.size = 0 /\ d.number = 1
  BY <1>3, <1>4, BlankTyped, Constants DEF DinodeRecord
<1>6. c = [count |-> core[i].count + 1, di |-> d]
  BY <1>1, <1>4 DEF Iget
<1>7. c \in [count : Nat \ {0}, di : DinodeRecord] /\ c.di = d
  BY <1>3, <1>5, <1>6
<1>8. CASE /\ CanOpen(u) /\ core' = [core EXCEPT ![i] = c]
           /\ Link(u, i, {"W"}, 0, Rewound(i))
           /\ UNCHANGED <<disk, inodes>>
  <2>1. CacheStep(i, d)
    BY <1>3, <1>7, <1>8, IgetStep
  <2>2. Contents' = Flat!Emptied(i)
    BY <1>3, <1>5, <2>1, ContentsEmptied
  <2>3. PICK s \in Slot :
          /\ ofile[s].count = 0
          /\ ofile'[s] = [count |-> 1, ino |-> i, flag |-> {"W"}, off |-> 0]
          /\ \A t \in Slot \ {s} : ofile'[t] = Rewound(i)[t]
    <3>1. SameSlots(Rewound(i)) /\ 0 \in 0 .. NADDR * BLOCKSIZ /\ TypeInv /\ SlotsOwned
      BY RewoundSame, Constants DEF IInv, TableInv
    <3>2. PICK table, flag, off : table = Rewound(i) /\ flag = {"W"} /\ off = 0
      OBVIOUS
    <3>3. /\ SameSlots(table) /\ Link(u, i, flag, off, table) /\ CanOpen(u)
          /\ flag \in OpenModes \cup {{}, {"W"}} /\ off \in 0 .. NADDR * BLOCKSIZ
      BY <1>8, <3>1, <3>2
    <3>4. \E t \in Slot, fd \in Fd :
            /\ ofile[t].count = 0
            /\ uofile[u][fd] = None
            /\ ofile'[t] = [count |-> 1, ino |-> i, flag |-> flag, off |-> off]
            /\ \A r \in Slot \ {t} : ofile'[r] = table[r]
            /\ uofile' = [uofile EXCEPT ![u][fd] = t]
            /\ OpenSlots(i)' = OpenSlots(i) \cup {t} /\ t \notin OpenSlots(i)
            /\ \A j \in AllInodes \ {i} : OpenSlots(j)' = OpenSlots(j)
      BY <1>3, <3>1, <3>3, TablesLinked
    <3> QED
      BY <3>2, <3>4
  <2>4. Cursors[s] = Closed
    BY <2>3, CursorOf
  <2>5. Cursors' = [Flat!Rewound(i) EXCEPT ![s] = Flat!At(i, 0)]
    <3>1. PICK c0 : c0 = Flat!Rewound(i)
      OBVIOUS
    <3>2. c0 = [t \in Slot |-> IF Rewound(i)[t].count = 0 THEN Closed
                  ELSE [file |-> Rewound(i)[t].ino, off |-> Rewound(i)[t].off]]
      BY <3>1, CursorsRewound DEF IInv
    <3>3. \A t \in Slot : Cursors'[t] = IF t = s THEN Flat!At(i, 0) ELSE c0[t]
      BY <2>3, <3>2 DEF Cursors, Flat!At
    <3>4. Cursors' = [c0 EXCEPT ![s] = Flat!At(i, 0)]
      BY <3>2, <3>3 DEF Cursors
    <3> QED
      BY <3>1, <3>4
  <2>6. Flat!Truncate(i)
    BY <2>2, <2>4, <2>5 DEF Flat!Truncate
  <2> QED
    BY <1>3, <2>6 DEF FlatStep, Flat!Next
<1>9. CASE ~CanOpen(u) /\ Iput(i, c, used) /\ ofile' = Rewound(i)
  <2>1. CacheStep(i, d)
    <3>1. c.di.addr = NoAddr /\ c.di.size = 0 /\ c.di.number # 0
      BY <1>5, <1>7
    <3>2. PICK e \in DinodeRecord :
            /\ CacheStep(i, e) /\ BlocksMoved(i, e) /\ core'[i].count = c.count - 1
            /\ \/ i \in inodes' /\ e = c.di /\ ~(c.count = 1 /\ c.di.number = 0)
               \/ /\ i \notin inodes' /\ e = EmptyDinode /\ disk'[i] = EmptyDinode
                  /\ c.count = 1 /\ c.di.number = 0
      <4>1. Iput(i, c, used) /\ used = blocks \ AddrBlocks(Current(i))
        BY <1>1, <1>9
      <4> QED
        BY <1>3, <1>7, <3>1, <4>1, IputStep
    <3> QED
      BY <1>7, <3>1, <3>2
  <2>2. Contents' = Flat!Emptied(i)
    BY <1>3, <1>5, <2>1, ContentsEmptied
  <2>3. Cursors' = Flat!Rewound(i)
    BY <1>9, CursorsRewound DEF Cursors, IInv
  <2>4. Flat!Truncate(i)
    BY <2>2, <2>3 DEF Flat!Truncate
  <2> QED
    BY <1>3, <2>4 DEF FlatStep, Flat!Next
<1> QED
  BY <1>1, <1>8, <1>9 DEF CreatTruncate

LEMMA CreatNewFlat ==
  ASSUME IInv, DataInv, NEW u \in Users, NEW n \in Names, NEW m \in Modes, CreatNew(u, n, m),
         buf' = <<>>, data' = data
  PROVE  FlatStep
<1>1. PICK i \in Inodes \ inodes :
        LET c == [count |-> Iget(i).count,
                  di |-> [Dinode(1, u, m) EXCEPT !.addr = Iget(i).di.addr]]
        IN  /\ inodes' = inodes \cup {i}
            /\ \/ /\ CanOpen(u)
                  /\ core' = [core EXCEPT ![i] = c]
                  /\ disk' = [disk EXCEPT ![i] = Dinode(1, Root, {})]
                  /\ Link(u, i, {"W"}, 0, ofile)
               \/ /\ disk' = [disk EXCEPT ![i] = c.di]
                  /\ UNCHANGED <<core, ofile>>
  BY DEF CreatNew
<1>2. /\ i \in AllInodes /\ core[i].count = 0 /\ disk[i] = EmptyDinode
      /\ Current(i) = EmptyDinode /\ Current(i).addr = NoAddr /\ Current(i).size = 0
      /\ core \in [AllInodes -> [count : Nat, di : DinodeRecord]]
      /\ disk \in [AllInodes -> DinodeRecord] /\ inodes \subseteq AllInodes
  BY BlankTyped DEF AllInodes, IInv, InodeInv, TypeInv, Current
<1>3. PICK d : d = [Dinode(1, u, m) EXCEPT !.addr = Iget(i).di.addr]
  OBVIOUS
<1>4. /\ d \in DinodeRecord /\ d.addr = NoAddr /\ d.size = 0
      /\ Dinode(1, Root, {}) \in DinodeRecord
  <2>1. Iget(i).di.addr = NoAddr
    BY <1>2 DEF Iget
  <2>2. m \in Modes \cup {{}} /\ {} \in Modes \cup {{}} /\ 1 \in 0 .. 1 /\ Root \in Users
    BY FilesAssumption
  <2>3. PICK e : e = Dinode(1, u, m)
    OBVIOUS
  <2>4. /\ e \in DinodeRecord /\ e.addr = NoAddr /\ e.size = 0
        /\ Dinode(1, Root, {}) \in DinodeRecord
    BY <2>2, <2>3, BlankTyped DEF Dinode
  <2>5. d = [e EXCEPT !.addr = NoAddr]
    BY <1>3, <2>1, <2>3
  <2>6. d = e
    BY <2>4, <2>5 DEF DinodeRecord
  <2> QED
    BY <2>4, <2>6
<1>5. PICK c : c = [count |-> 1, di |-> d]
  OBVIOUS
<1>6. /\ inodes' = inodes \cup {i}
      /\ \/ /\ CanOpen(u)
            /\ core' = [core EXCEPT ![i] = c]
            /\ disk' = [disk EXCEPT ![i] = Dinode(1, Root, {})]
            /\ Link(u, i, {"W"}, 0, ofile)
         \/ /\ disk' = [disk EXCEPT ![i] = d]
            /\ core' = core /\ ofile' = ofile
  <2>1. Iget(i).count = 1
    BY <1>2 DEF Iget
  <2> QED
    BY <1>1, <1>3, <1>5, <2>1
<1>7. CacheStep(i, d)
  <2>1. disk' \in [AllInodes -> DinodeRecord]
        /\ core' \in [AllInodes -> [count : Nat, di : DinodeRecord]]
    <3>1. c \in [count : Nat, di : DinodeRecord]
      BY <1>4, <1>5
    <3> QED
      BY <1>2, <1>4, <1>6, <3>1
  <2>2. \A j \in AllInodes \ {i} : core'[j] = core[j] /\ disk'[j] = disk[j]
    BY <1>2, <1>6
  <2>3. Current(i)' = d
    <3>1. CASE core' = [core EXCEPT ![i] = c]
      BY <1>2, <1>5, <3>1 DEF Current
    <3>2. CASE core' = core /\ disk' = [disk EXCEPT ![i] = d]
      BY <1>2, <3>2 DEF Current
    <3> QED
      BY <1>6, <3>1, <3>2
  <2>4. \A j \in AllInodes : j # i => Current(j)' = Current(j)
    BY <2>2 DEF Current
  <2> QED
    BY <1>2, <1>6, <2>1, <2>2, <2>3, <2>4 DEF CacheStep, Changed
<1>8. Contents' = Contents /\ Contents[i] = <<>>
  <2>1. Contents' = Contents
    BY <1>2, <1>4, <1>7, ContentsSame
  <2>2. Contents[i] \in Seq(Byte) /\ Len(Contents[i]) = 0
    BY <1>2, ContentOf
  <2> QED
    BY <2>1, <2>2
<1>9. CASE CanOpen(u) /\ Link(u, i, {"W"}, 0, ofile)
  <2>1. 0 \in 0 .. NADDR * BLOCKSIZ
    BY Constants
  <2> QED
    BY <1>8, <1>9, <2>1, OpenFlags, LinkFlat DEF IInv, TableInv
<1>10. CASE ofile' = ofile
  <2>1. Cursors' = Cursors
    BY <1>10, CursorsSame
  <2>2. Flat!Emptied(i) = Contents
    BY <1>8 DEF Flat!Emptied, Contents
  <2>3. Flat!Remove(i)
    BY <1>8, <2>1, <2>2 DEF Flat!Remove
  <2> QED
    BY <2>3 DEF FlatStep, Flat!Next
<1> QED
  BY <1>6, <1>9, <1>10

\* iput() of the last reference to a deleted file empties it; no other one shows.
LEMMA IputFlat ==
  ASSUME IInv, NEW i \in Inodes, i \in inodes,
         NEW c \in [count : Nat \ {0}, di : DinodeRecord], Iput(i, c, blocks),
         c.di.addr = Current(i).addr, c.di.size = Current(i).size, data' = data
  PROVE  Contents' = IF c.count = 1 /\ c.di.number = 0 THEN Flat!Emptied(i) ELSE Contents
<1>1. PICK d \in DinodeRecord :
        /\ CacheStep(i, d)
        /\ \/ d = c.di /\ ~(c.count = 1 /\ c.di.number = 0)
           \/ d = EmptyDinode /\ c.count = 1 /\ c.di.number = 0
  BY IputStep
<1> QED
  BY <1>1, BlankTyped, ContentsSame, ContentsEmptied

LEMMA DeleteFlat ==
  ASSUME IInv, NEW n \in Names, Delete(n), buf' = <<>>, data' = data
  PROVE  FlatStep
<1>1. PICK i, c : /\ i = dir[Namei(n)].ino
                  /\ c = [Iget(i) EXCEPT !.di.number = IF @ > 0 THEN @ - 1 ELSE 0]
  OBVIOUS
<1>2. Exists(n) /\ Iput(i, c, blocks) /\ ofile' = ofile
  BY <1>1 DEF Delete
<1>3. /\ i \in Inodes /\ i \in inodes /\ i \in AllInodes /\ i # Cwd
      /\ Current(i) \in DinodeRecord /\ core[i].count \in Nat /\ Current(i).number = 1
  BY <1>1, <1>2, FoundEntry, CurrentTyped, FilesAssumption DEF IInv, AllInodes, TypeInv
<1>4. PICK e : e = [Current(i) EXCEPT !.number = 0]
  OBVIOUS
<1>5. /\ e \in DinodeRecord /\ e.number = 0
      /\ e.addr = Current(i).addr /\ e.size = Current(i).size
  BY <1>3, <1>4 DEF DinodeRecord
<1>6. c = [count |-> core[i].count + 1, di |-> e]
  BY <1>1, <1>3, <1>4 DEF Iget
<1>7. c \in [count : Nat \ {0}, di : DinodeRecord] /\ c.di = e /\ c.count = core[i].count + 1
  BY <1>3, <1>5, <1>6
<1>8. Contents' = IF core[i].count = 0 THEN Flat!Emptied(i) ELSE Contents
  <2>1. c.count = 1 <=> core[i].count = 0
    BY <1>3, <1>7
  <2> QED
    BY <1>2, <1>3, <1>5, <1>7, <2>1, IputFlat
<1>9. core[i].count = 0 <=> Flat!Cursors(i) = {}
  BY <1>3, CountBounds, CursorsOn DEF IInv, TableInv
<1>10. Cursors' = Cursors
  BY <1>2, CursorsSame
<1>11. Flat!Remove(i)
  BY <1>8, <1>9, <1>10 DEF Flat!Remove
<1> QED
  BY <1>3, <1>11 DEF FlatStep, Flat!Next

LEMMA CloseFlat ==
  ASSUME IInv, NEW u \in Users, NEW fd \in Fd, Close(u, fd), buf' = <<>>, data' = data
  PROVE  FlatStep
<1>1. PICK s, i, c : s = uofile[u][fd] /\ i = ofile[s].ino /\ c = core[i]
  OBVIOUS
<1>2. uofile[u][fd] < SYSOPENFILE /\ Iput(i, c, blocks) /\ ofile' = [ofile EXCEPT ![s] = Closed]
  BY <1>1 DEF Close
<1>3. /\ s \in Slot /\ ofile[s].count = 1 /\ s \in OpenSlots(i)
      /\ i \in Inodes /\ i \in inodes /\ i \in AllInodes /\ i # Cwd
      /\ c \in [count : Nat \ {0}, di : DinodeRecord] /\ c.di = Current(i)
  <2>1. i \in Inodes => i # Cwd
    BY FilesAssumption
  <2> QED
    BY <1>1, <1>2, <2>1, OpenDescriptor, SMTT(30)
<1>4. \/ Contents' = Contents
      \/ c.count = 1 /\ Contents' = Flat!Emptied(i)
  BY <1>2, <1>3, IputFlat
<1>5. c.count = 1 => Flat!Cursors(i) = {s}
  BY <1>1, <1>3, CountBounds, CursorsOn DEF IInv, TableInv
<1>6. Cursors[s] # Closed /\ Cursors[s].file = i
  BY <1>1, <1>3, CursorOf
<1>7. Cursors' = [Cursors EXCEPT ![s] = Closed]
  <2>1. \A t \in Slot : ofile'[t] = IF t = s THEN Closed ELSE ofile[t]
    BY <1>2, <1>3 DEF IInv, TypeInv
  <2>2. Closed.count = 0
    BY DEF Closed
  <2> QED
    BY <2>1, <2>2 DEF Cursors
<1>8. Flat!Close(s)
  BY <1>4, <1>5, <1>6, <1>7 DEF Flat!Close
<1> QED
  BY <1>3, <1>8 DEF FlatStep, Flat!Next

\* Nobody notices that an inode was looked at.
LEMMA TouchFlat ==
  ASSUME IInv, NEW n \in Names, Exists(n), NEW i, i = dir[Namei(n)].ino,
         Iput(i, Iget(i), blocks), ofile' = ofile, data' = data
  PROVE  FlatSame
<1>1. /\ i \in Inodes /\ i \in inodes /\ i \in AllInodes
      /\ Current(i) \in DinodeRecord /\ core[i].count \in Nat /\ Current(i).number = 1
  BY FoundEntry, CurrentTyped DEF IInv, AllInodes, TypeInv
<1>2. PICK c : c = Iget(i)
  OBVIOUS
<1>3. c \in [count : Nat \ {0}, di : DinodeRecord] /\ c.di = Current(i)
  BY <1>1, <1>2 DEF Iget
<1>4. Contents' = Contents
  BY <1>1, <1>2, <1>3, IputFlat
<1> QED
  BY <1>4, CursorsSame DEF FlatSame

LEMMA RefusedFlat ==
  ASSUME IInv, Refused
  PROVE  FlatSame
<1>1. data' = data
  BY DEF Refused
<1>2. ASSUME NEW u \in Users, NEW n \in Names, NEW kind \in Kinds, Denied(u, n, kind)
      PROVE  FlatSame
  BY <1>1, <1>2, TouchFlat DEF Denied
<1>3. ASSUME NEW u \in Users, NEW n \in Names, OpenNoSlot(u, n)
      PROVE  FlatSame
  BY <1>1, <1>3, TouchFlat DEF OpenNoSlot
<1>4. ASSUME NEW n \in Names, CreatNoInode(n)
      PROVE  FlatSame
  <2>1. disk' = disk /\ core' = core /\ ofile' = ofile
    BY <1>4 DEF CreatNoInode
  <2> QED
    BY <1>1, <2>1, CursorsSame DEF FlatSame, Contents, Current, ByteOf
<1> QED
  BY <1>2, <1>3, <1>4 DEF Refused

\* A transfer that stays below the size of a file goes all the way.
LEMMA WholeTransfer ==
  ASSUME NEW addr, NEW size \in Nat, size <= NADDR * BLOCKSIZ,
         \A k \in Index : addr[k] # Hole <=> k * BLOCKSIZ < size,
         NEW off \in Nat, NEW r \in Nat, r # 0, off + r <= size
  PROVE  Extent(addr, off, r) = off + r
<1>1. PICK q \in Nat : q = off \div BLOCKSIZ /\ q * BLOCKSIZ <= off
  BY Quotient
<1>2. NADDR \in Nat /\ NADDR * BLOCKSIZ \in Nat /\ q * BLOCKSIZ \in Nat
  BY Constants, Products
<1>3. q < NADDR
  <2>1. q * BLOCKSIZ < NADDR * BLOCKSIZ
    BY <1>1, <1>2
  <2> QED
    BY <1>2, <2>1, Products
<1>4. PICK f \in Nat :
        /\ f <= NADDR /\ (f = NADDR \/ addr[f] = Hole)
        /\ Extent(addr, off, r) = Most(off, Least(off + r, f * BLOCKSIZ))
  <2>1. \E f \in Nat : StopsAt(addr, off, r, q, f)
    BY <1>1, <1>3, ExtentEffect
  <2> QED
    BY <2>1 DEF StopsAt
<1>5. f * BLOCKSIZ \in Nat /\ size <= f * BLOCKSIZ
  <2>1. f * BLOCKSIZ \in Nat
    BY Products
  <2>2. CASE f = NADDR
    BY <2>1, <2>2
  <2>3. CASE f # NADDR
    <3>1. f \in Index /\ addr[f] = Hole
      BY <1>2, <1>4, <2>3 DEF Index
    <3>2. ~(f * BLOCKSIZ < size)
      BY <3>1
    <3> QED
      BY <2>1, <3>2
  <2> QED
    BY <2>2, <2>3
<1>6. PICK g \in Nat : g = f * BLOCKSIZ /\ size <= g
  BY <1>5
<1>7. Extent(addr, off, r) = Most(off, Least(off + r, g))
  BY <1>4, <1>6
<1> QED
  BY <1>6, <1>7 DEF Most, Least

LEMMA ReadFlat ==
  ASSUME IInv, DataInv, NEW u \in Users, NEW fd \in Fd, NEW n \in Sizes, ReadBytes(u, fd, n)
  PROVE  FlatStep
<1>1. PICK s, i, off, size, r :
         /\ s = uofile[u][fd] /\ i = ofile[s].ino /\ off = ofile[s].off
         /\ size = Current(i).size /\ r = Least(n, size - off)
  OBVIOUS
<1>2. uofile[u][fd] < SYSOPENFILE
  BY DEF ReadBytes, Read
<1>3. /\ s \in Slot /\ ofile[s].count = 1
      /\ i \in Inodes /\ i \in AllInodes
      /\ core[i].di = Current(i)
      /\ off \in 0 .. NADDR * BLOCKSIZ
  BY <1>1, <1>2, OpenDescriptor, SMTT(30)
<1>4. /\ off < size /\ ofile' = [ofile EXCEPT ![s].off = Extent(Current(i).addr, off, r)]
      /\ disk' = disk /\ core' = core /\ data' = data
      /\ buf' = [x \in 1 .. ofile'[s].off - off |-> ByteOf(Current(i), off + x - 1)]
  BY <1>1, <1>3, ZenonT(60) DEF ReadBytes, Read
<1>5. /\ off \in Nat /\ size \in Nat /\ size <= NADDR * BLOCKSIZ /\ n \in Nat \ {0}
      /\ Contents[i] \in Seq(Byte) /\ Len(Contents[i]) = size
      /\ \A p \in 1 .. size : Contents[i][p] = ByteOf(Current(i), p - 1)
  <2>1. off \in Nat /\ n \in Nat \ {0}
    BY <1>3, Constants
  <2> QED
    BY <1>1, <1>3, <2>1, ContentOf
<1>6. r \in Nat \ {0} /\ off + r <= size /\ (r = n \/ off + r = size) /\ r <= n
  <2>1. off < size /\ off \in Nat /\ size \in Nat /\ n \in Nat \ {0} /\ r = Least(n, size - off)
    BY <1>1, <1>4, <1>5
  <2> QED
    BY <2>1 DEF Least
<1>7. ofile' = [ofile EXCEPT ![s].off = off + r]
  <2>1. \A k \in Index : Current(i).addr[k] # Hole <=> k * BLOCKSIZ < size
    BY <1>1, <1>3 DEF IInv, NoHoles
  <2>2. Extent(Current(i).addr, off, r) = off + r
    <3>1. PICK addr : addr = Current(i).addr
      OBVIOUS
    <3>2. \A k \in Index : addr[k] # Hole <=> k * BLOCKSIZ < size
      BY <2>1, <3>1
    <3>3. Extent(addr, off, r) = off + r
      <4>1. off \in Nat /\ size \in Nat /\ size <= NADDR * BLOCKSIZ /\ r \in Nat /\ r # 0
            /\ off + r <= size
        BY <1>5, <1>6
      <4> QED
        BY <3>2, <4>1, WholeTransfer
    <3> QED
      BY <3>1, <3>3
  <2> QED
    BY <1>4, <2>2
<1>8. buf' = [x \in 1 .. r |-> ByteOf(Current(i), off + x - 1)]
  <2>1. ofile'[s].off = off + r
    BY <1>3, <1>7 DEF IInv, TypeInv
  <2>2. ofile'[s].off - off = r
    BY <1>5, <1>6, <2>1
  <2> QED
    BY <1>4, <2>2
<1>9. buf' = SubSeq(Contents[i], off + 1, IF off + n < Len(Contents[i]) THEN off + n
                                          ELSE Len(Contents[i]))
      /\ Len(buf') = r
  <2>1. PICK c, b, d : c = Contents[i] /\ b = buf' /\ d = SubSeq(c, off + 1, off + r)
    OBVIOUS
  <2>2. c \in Seq(Byte) /\ Len(c) = size /\ \A p \in off + 1 .. off + r : c[p] \in Byte
    BY <1>5, <1>6, <2>1
  <2>3. off + 1 \in Int /\ off + r \in Int
    BY <1>5, <1>6
  <2>4. /\ d \in Seq(Byte) /\ Len(d) = r
        /\ \A x \in 1 .. r : d[x] = c[off + x]
    <3>1. PICK a, e \in Int : a = off + 1 /\ e = off + r
      BY <2>3
    <3>2. /\ SubSeq(c, a, e) \in Seq(Byte)
          /\ Len(SubSeq(c, a, e)) = IF a <= e THEN e - a + 1 ELSE 0
          /\ \A x \in 1 .. e - a + 1 : SubSeq(c, a, e)[x] = c[a + x - 1]
      BY <2>2, <3>1, SubSeqProperties
    <3>3. d = SubSeq(c, a, e)
      BY <2>1, <3>1
    <3>4. e - a + 1 = r /\ a <= e /\ \A x \in 1 .. r : a + x - 1 = off + x
      BY <1>5, <1>6, <3>1
    <3> QED
      BY <3>2, <3>3, <3>4
  <2>5. \A x \in 1 .. r : c[off + x] = ByteOf(Current(i), off + x - 1) /\ c[off + x] \in Byte
    BY <1>5, <1>6, <2>1, <2>2
  <2>6. b \in [1 .. r -> Byte] /\ \A x \in 1 .. r : b[x] = c[off + x]
    BY <1>8, <2>1, <2>5
  <2>7. b \in Seq(Byte) /\ Len(b) = r
    BY <1>6, <2>6
  <2>8. b = d
    BY <2>4, <2>6, <2>7, SeqEqual
  <2>9. off + r = IF off + n < Len(c) THEN off + n ELSE Len(c)
    <3>1. off \in Nat /\ size \in Nat /\ n \in Nat /\ r \in Nat /\ off + r <= size /\ r <= n
          /\ (r = n \/ off + r = size) /\ Len(c) = size
      BY <1>5, <1>6, <2>2
    <3> QED
      BY <3>1
  <2> QED
    BY <2>1, <2>7, <2>8, <2>9
<1>10. Contents' = Contents
  BY <1>4 DEF Contents, Current, ByteOf
<1>11. /\ Cursors[s] # Closed /\ Cursors[s].file = i /\ Cursors[s].off = off
       /\ Cursors[s] = Flat!At(i, off)
  BY <1>1, <1>3, CursorOf
<1>12. Cursors' = [Cursors EXCEPT ![s].off = @ + Len(buf')]
  <2>1. Cursors' = [Cursors EXCEPT ![s] = Flat!At(i, off + r)]
    <3>1. \A t \in Slot : ofile'[t].count = ofile[t].count /\ ofile'[t].ino = ofile[t].ino
                          /\ ofile'[t].off = IF t = s THEN off + r ELSE ofile[t].off
      BY <1>3, <1>7 DEF IInv, TypeInv
    <3>2. \A t \in Slot : Cursors'[t] = IF t = s THEN Flat!At(i, off + r) ELSE Cursors[t]
      <4>1. \A t \in Slot : t # s => Cursors'[t] = Cursors[t]
        BY <3>1 DEF Cursors
      <4>2. ofile'[s].count = 1 /\ ofile'[s].ino = i /\ ofile'[s].off = off + r
        BY <1>1, <1>3, <3>1
      <4>3. Cursors'[s] = Flat!At(i, off + r)
        BY <1>3, <4>2 DEF Cursors, Flat!At
      <4> QED
        BY <4>1, <4>3
    <3> QED
      BY <3>2 DEF Cursors
  <2>2. [Cursors[s] EXCEPT !.off = @ + Len(buf')] = Flat!At(i, off + r)
    <3>1. PICK c, l : c = Cursors[s] /\ l = Len(buf')
      OBVIOUS
    <3>2. c = [file |-> i, off |-> off] /\ l = r
      BY <1>9, <1>11, <3>1 DEF Flat!At
    <3>3. [c EXCEPT !.off = @ + l] = [file |-> i, off |-> off + r]
      BY <3>2
    <3> QED
      BY <3>1, <3>3 DEF Flat!At
  <2>3. [Cursors EXCEPT ![s].off = @ + Len(buf')]
          = [Cursors EXCEPT ![s] = [Cursors[s] EXCEPT !.off = @ + Len(buf')]]
    OBVIOUS
  <2> QED
    BY <2>1, <2>2, <2>3
<1>13. Flat!Read(s, n)
  BY <1>9, <1>10, <1>11, <1>12 DEF Flat!Read
<1> QED
  BY <1>3, <1>13 DEF FlatStep, Flat!Next

-----------------------------------------------------------------------------
(***************************************************************************)
(* Writing.                                                                *)
(***************************************************************************)

\* What a file holds once n bytes are put over it at o.
LEMMA OverAt ==
  ASSUME NEW c \in Seq(Byte), NEW bytes \in Seq(Byte), NEW o \in 0 .. Len(c),
         NEW n \in 0 .. Len(bytes)
  PROVE  /\ Flat!Over(c, o, bytes, n) \in Seq(Byte)
         /\ Len(Flat!Over(c, o, bytes, n)) = Most(Len(c), o + n)
         /\ \A p \in 1 .. Most(Len(c), o + n) :
              Flat!Over(c, o, bytes, n)[p] = IF o < p /\ p <= o + n THEN bytes[p - o] ELSE c[p]
<1>1. PICK l \in Nat : l = Len(c)
  OBVIOUS
<1>2. PICK x, y, z : /\ x = SubSeq(c, 1, o) /\ y = SubSeq(bytes, 1, n)
                     /\ z = SubSeq(c, o + n + 1, Len(c))
  OBVIOUS
<1>3. o \in Nat /\ n \in Nat /\ o <= l /\ (\A p \in 1 .. l : c[p] \in Byte)
      /\ \A p \in 1 .. n : bytes[p] \in Byte
  BY <1>1
<1>4. x \in Seq(Byte) /\ Len(x) = o /\ \A p \in 1 .. o : x[p] = c[p]
  <2>1. /\ SubSeq(c, 1, o) \in Seq(Byte)
        /\ Len(SubSeq(c, 1, o)) = IF 1 <= o THEN o - 1 + 1 ELSE 0
        /\ \A p \in 1 .. o - 1 + 1 : SubSeq(c, 1, o)[p] = c[1 + p - 1]
    BY <1>3, SubSeqProperties
  <2> QED
    BY <1>2, <1>3, <2>1
<1>5. y \in Seq(Byte) /\ Len(y) = n /\ \A p \in 1 .. n : y[p] = bytes[p]
  <2>1. /\ SubSeq(bytes, 1, n) \in Seq(Byte)
        /\ Len(SubSeq(bytes, 1, n)) = IF 1 <= n THEN n - 1 + 1 ELSE 0
        /\ \A p \in 1 .. n - 1 + 1 : SubSeq(bytes, 1, n)[p] = bytes[1 + p - 1]
    BY <1>3, SubSeqProperties
  <2> QED
    BY <1>2, <1>3, <2>1
<1>6. /\ z \in Seq(Byte) /\ Len(z) = (IF o + n < l THEN l - (o + n) ELSE 0)
      /\ \A p \in 1 .. l - (o + n) : z[p] = c[o + n + p]
  <2>1. PICK m \in Int : m = o + n + 1
    BY <1>3
  <2>2. /\ SubSeq(c, m, l) \in Seq(Byte)
        /\ Len(SubSeq(c, m, l)) = IF m <= l THEN l - m + 1 ELSE 0
        /\ \A p \in 1 .. l - m + 1 : SubSeq(c, m, l)[p] = c[m + p - 1]
    <3>1. \A p \in m .. l : c[p] \in Byte
      BY <1>3, <2>1
    <3> QED
      BY <3>1, SubSeqProperties
  <2>3. z = SubSeq(c, m, l)
    BY <1>1, <1>2, <2>1
  <2>4. l - m + 1 = l - (o + n) /\ (m <= l <=> o + n < l)
        /\ \A p \in 1 .. l - (o + n) : m + p - 1 = o + n + p
    BY <1>3, <2>1
  <2> QED
    BY <2>2, <2>3, <2>4
<1>7. PICK v : v = x \o y
  OBVIOUS
<1>8. /\ v \in Seq(Byte) /\ Len(v) = o + n
      /\ \A p \in 1 .. o + n : v[p] = IF p <= o THEN c[p] ELSE bytes[p - o]
  <2>1. /\ v \in Seq(Byte) /\ Len(v) = Len(x) + Len(y)
        /\ \A p \in 1 .. Len(x) + Len(y) : v[p] = IF p <= Len(x) THEN x[p] ELSE y[p - Len(x)]
    BY <1>4, <1>5, <1>7, ConcatProperties
  <2> QED
    BY <1>3, <1>4, <1>5, <2>1
<1>9. PICK w : w = v \o z
  OBVIOUS
<1>10. PICK e \in Nat : e = o + n
  BY <1>3
<1>11. PICK len \in Nat : len = Most(l, e)
  BY DEF Most
<1>12. /\ w \in Seq(Byte) /\ Len(w) = len
       /\ \A p \in 1 .. len : w[p] = IF p <= e THEN v[p] ELSE c[p]
  <2>1. /\ w \in Seq(Byte) /\ Len(w) = Len(v) + Len(z)
        /\ \A p \in 1 .. Len(v) + Len(z) : w[p] = IF p <= Len(v) THEN v[p] ELSE z[p - Len(v)]
    BY <1>6, <1>8, <1>9, ConcatProperties
  <2>2. Len(v) = e /\ Len(z) = (IF e < l THEN l - e ELSE 0)
        /\ \A p \in 1 .. l - e : z[p] = c[e + p]
    BY <1>6, <1>8, <1>10
  <2>3. Len(v) + Len(z) = len
    BY <1>11, <2>2 DEF Most
  <2>4. ASSUME NEW p \in 1 .. len, ~(p <= e) PROVE w[p] = c[p]
    <3>1. p - e \in 1 .. l - e /\ e + (p - e) = p
      BY <1>11, <2>4 DEF Most
    <3> QED
      BY <2>1, <2>2, <2>3, <2>4, <3>1
  <2> QED
    BY <2>1, <2>2, <2>3, <2>4
<1>13. Flat!Over(c, o, bytes, n) = w
  BY <1>2, <1>7, <1>9 DEF Flat!Over
<1>14. \A p \in 1 .. len : w[p] = IF o < p /\ p <= e THEN bytes[p - o] ELSE c[p]
  BY <1>3, <1>8, <1>10, <1>12
<1> QED
  BY <1>1, <1>10, <1>11, <1>12, <1>13, <1>14

\* Blocks that belong to one place of one file each are no fewer than the places
\* that have one, and as many when none is left.
LEMMA StorageCount ==
  ASSUME IsFiniteSet(Blocks), NEW place \in [Inodes -> [Index -> Blocks \cup {Hole}]],
         \A i, j \in Inodes, k, l \in Index :
            place[i][k] = place[j][l] /\ place[i][k] # Hole => i = j /\ k = l,
         NEW S, S = {b \in Inodes \X Index : place[b[1]][b[2]] # Hole}
  PROVE  /\ IsFiniteSet(S) /\ Cardinality(S) <= Cardinality(Blocks)
         /\ (\A b \in Blocks : \E i \in Inodes, k \in Index : place[i][k] = b)
              => Cardinality(S) = Cardinality(Blocks)
<1>1. PICK f : f = [b \in S |-> place[b[1]][b[2]]]
  OBVIOUS
<1>2. \A b \in S : b \in Inodes \X Index /\ f[b] = place[b[1]][b[2]] /\ f[b] \in Blocks
  BY <1>1
<1>3. f \in [S -> Blocks]
  BY <1>1, <1>2
<1>4. f \in Injection(S, Blocks)
  <2>1. ASSUME NEW b \in S, NEW e \in S, f[b] = f[e]
        PROVE  b = e
    <3>1. b = <<b[1], b[2]>> /\ e = <<e[1], e[2]>>
          /\ b[1] \in Inodes /\ e[1] \in Inodes /\ b[2] \in Index /\ e[2] \in Index
      BY <1>2
    <3>2. place[b[1]][b[2]] = place[e[1]][e[2]] /\ place[b[1]][b[2]] # Hole
      BY <1>2, <2>1, FilesAssumption
    <3>3. b[1] = e[1] /\ b[2] = e[2]
      BY <3>1, <3>2
    <3> QED
      BY <3>1, <3>3
  <2> QED
    BY <1>3, <2>1 DEF Injection, IsInjective
<1>5. /\ IsFiniteSet(S) /\ Cardinality(S) <= Cardinality(Blocks)
      /\ Cardinality(S) = Cardinality(Blocks) <=> f \in Surjection(S, Blocks)
  BY <1>4, FS_Injection
<1>6. ASSUME \A b \in Blocks : \E i \in Inodes, k \in Index : place[i][k] = b
      PROVE  f \in Surjection(S, Blocks)
  <2>1. ASSUME NEW b \in Blocks PROVE \E e \in S : f[e] = b
    <3>1. PICK i \in Inodes, k \in Index : place[i][k] = b
      BY <1>6
    <3>2. <<i, k>> \in S
      BY <3>1, FilesAssumption
    <3> QED
      BY <1>2, <3>1, <3>2
  <2> QED
    BY <1>3, <2>1 DEF Surjection
<1> QED
  BY <1>5, <1>6

\* The blocks when the bytes of str are put into the file whose blocks are a.
Filled(a, off, end, str) ==
  [b \in Blocks |-> IF b \in AddrBlocks([addr |-> a]) THEN Stored(a, b, off, end, str)
                    ELSE data[b]]

\* A file that was di is d, and the bytes from off to end are the ones in question.
Lengthened(di, d, off, end) ==
  /\ di \in DinodeRecord /\ d \in DinodeRecord
  /\ \A k \in Index : d.addr[k] # Hole <=> k * BLOCKSIZ < d.size
  /\ \A k \in Index : di.addr[k] # Hole <=> k * BLOCKSIZ < di.size
  /\ \A k \in Index : di.addr[k] # Hole => d.addr[k] = di.addr[k]
  /\ \A k, l \in Index : d.addr[k] = d.addr[l] /\ d.addr[k] # Hole => k = l
  /\ off \in Nat /\ end \in Nat /\ off <= di.size /\ d.size = Most(di.size, end)

\* Byte p of such a file once they are written.
LEMMA ByteWritten ==
  ASSUME NEW di, NEW d, NEW off, NEW end, Lengthened(di, d, off, end),
         NEW str, data' = Filled(d.addr, off, end, str),
         NEW p \in Nat, p < d.size
  PROVE  ByteOf(d, p)' = IF off <= p /\ p < end THEN str[p - off + 1] ELSE ByteOf(di, p)
<1>1. PICK k, j : k = p \div BLOCKSIZ /\ j = p % BLOCKSIZ
  OBVIOUS
<1>2. PICK a, b : a = d.addr /\ b = a[k]
  OBVIOUS
<1>3. k \in Index /\ j \in Offset /\ p = k * BLOCKSIZ + j /\ b \in Blocks
  BY <1>1, <1>2, InBlock DEF Lengthened
<1>4. b # Hole /\ b \in AddrBlocks([addr |-> a])
  BY <1>2, <1>3, FilesAssumption DEF AddrBlocks
<1>5. Position(a, b, j) = p
  <2>1. PICK x : x = CHOOSE l \in Index : a[l] = b
    OBVIOUS
  <2>2. x \in Index /\ a[x] = b
    BY <1>2, <1>3, <2>1, Zenon
  <2>3. x = k
    BY <1>2, <1>3, <1>4, <2>2 DEF Lengthened
  <2> QED
    BY <1>3, <2>1, <2>3 DEF Position
<1>6. ByteOf(d, p)' = data'[b][j]
  BY <1>1, <1>2 DEF ByteOf
<1>7. data'[b] = Stored(a, b, off, end, str)
  BY <1>2, <1>3, <1>4 DEF Filled
<1>8. data'[b][j] = IF p \in off .. end - 1 THEN str[p - off + 1] ELSE data[b][j]
  BY <1>3, <1>5, <1>7 DEF Stored
<1>9. p \in off .. end - 1 <=> off <= p /\ p < end
  BY DEF Lengthened
<1>10. CASE off <= p /\ p < end
  BY <1>6, <1>8, <1>9, <1>10
<1>11. CASE ~(off <= p /\ p < end)
  <2>1. p < di.size
    <3>1. di.size \in Nat
      BY Constants DEF DinodeRecord, Lengthened
    <3> QED
      BY <1>11, <3>1 DEF Most, Lengthened
  <2>2. di.addr[k] = b
    <3>1. di.addr[k] \in Blocks
      BY <1>1, <2>1, InBlock DEF Lengthened
    <3> QED
      BY <1>2, <1>3, <3>1, FilesAssumption DEF Lengthened
  <2>3. ByteOf(di, p) = data[b][j]
    BY <1>1, <2>2 DEF ByteOf
  <2> QED
    BY <1>6, <1>8, <1>9, <1>11, <2>3
<1> QED
  BY <1>10, <1>11

\* A byte of another file stays.
LEMMA ByteKept ==
  ASSUME NEW e \in DinodeRecord,
         \A k \in Index : e.addr[k] # Hole <=> k * BLOCKSIZ < e.size,
         NEW a, \A k, l \in Index : e.addr[k] # Hole => e.addr[k] # a[l],
         NEW off, NEW end, NEW str, data' = Filled(a, off, end, str),
         NEW p \in Nat, p < e.size
  PROVE  ByteOf(e, p)' = ByteOf(e, p)
<1>1. p \div BLOCKSIZ \in Index /\ e.addr[p \div BLOCKSIZ] \in Blocks
  BY InBlock
<1>2. PICK b : b = e.addr[p \div BLOCKSIZ]
  OBVIOUS
<1>3. b \in Blocks /\ b \notin AddrBlocks([addr |-> a])
  BY <1>1, <1>2, FilesAssumption DEF AddrBlocks
<1>4. data'[b] = data[b]
  BY <1>3 DEF Filled
<1> QED
  BY <1>2, <1>4 DEF ByteOf

\* Blocks filled with bytes hold bytes.
LEMMA FilledTyped ==
  ASSUME DataInv, NEW a, NEW off \in Nat, NEW end \in Nat, NEW str \in Seq(Byte),
         end <= off + Len(str), data' = Filled(a, off, end, str)
  PROVE  DataInv'
<1>1. ASSUME NEW b \in Blocks, NEW j \in Offset, NEW q, q \in off .. end - 1
      PROVE  str[q - off + 1] \in Byte
  <2>1. q - off + 1 \in 1 .. Len(str)
    BY <1>1
  <2> QED
    BY <2>1
<1>2. ASSUME NEW b \in Blocks PROVE Stored(a, b, off, end, str) \in [Offset -> Byte]
  BY <1>1 DEF Stored, DataInv
<1>3. Filled(a, off, end, str) \in [Blocks -> [Offset -> Byte]]
  BY <1>2 DEF Filled, DataInv
<1> QED
  BY <1>3 DEF DataInv

\* What write() does, with all that is known of it.
WroteBytes(s, i, off, di, str, a, d, end) ==
  /\ Written(s, i, off, di, Len(str), a, d, end)
  /\ s \in Slot /\ ofile[s].count = 1 /\ ofile[s].ino = i /\ ofile[s].off = off
  /\ i \in Inodes /\ i \in inodes /\ i \in inodes' /\ di = Current(i) /\ d = Current(i)'
  /\ Lengthened(di, d, off, end) /\ off <= end /\ end <= off + Len(str)
  /\ a \in Extended(di.addr, Touched(off, Len(str)))
  /\ \A j \in Inodes \ {i} : Current(j)' = Current(j)
  /\ data' = Filled(a, off, end, str)
  /\ buf' = <<>>

LEMMA WriteBytesEffect ==
  ASSUME IInv, IInv', NEW u \in Users, NEW fd \in Fd, NEW str \in Strings,
         WriteBytes(u, fd, str)
  PROVE  \E s, i, off, di, a, d, end : WroteBytes(s, i, off, di, str, a, d, end)
<1>1. Len(str) \in Sizes /\ Len(str) \in Nat \ {0} /\ Write(u, fd, Len(str))
  BY BytesAssumption, Constants DEF WriteBytes
<1>2. PICK n : n = Len(str)
  OBVIOUS
<1>3. PICK s, i, off, di :
        /\ s = uofile[u][fd] /\ i = ofile[s].ino /\ off = ofile[s].off /\ di = Current(i)
        /\ \E a \in Extended(di.addr, Touched(off, n)), d \in DinodeRecord,
             end \in 0 .. NADDR * BLOCKSIZ : Written(s, i, off, di, n, a, d, end)
  <2>1. n \in Sizes /\ Write(u, fd, n)
    BY <1>1, <1>2
  <2> QED
    BY <2>1, WriteEffect
<1>4. PICK a \in Extended(di.addr, Touched(off, n)), d \in DinodeRecord,
           end \in 0 .. NADDR * BLOCKSIZ : Written(s, i, off, di, n, a, d, end)
  BY <1>3
<1>5. /\ s \in Slot /\ ofile[s].count = 1 /\ i \in Inodes /\ i \in inodes /\ i \in AllInodes
      /\ off \in 0 .. NADDR * BLOCKSIZ /\ off <= di.size
  <2>1. uofile[u][fd] < SYSOPENFILE
    BY <1>1 DEF Write
  <2> QED
    BY <1>3, <2>1, OpenDescriptor
<1>6. /\ off \in Nat /\ end \in Nat /\ n \in Nat \ {0}
  <2>1. PICK m \in Nat : m = NADDR * BLOCKSIZ
    BY Constants
  <2> QED
    BY <1>1, <1>2, <1>5, <2>1
<1>7. off <= end /\ end <= off + n
  <2>1. end = Extent(a, off, n)
    BY <1>4 DEF Written
  <2>2. n \in Nat
    BY <1>6
  <2> QED
    BY <1>6, <2>1, <2>2, ExtentEffect
<1>8. inodes' = inodes
  BY <1>1 DEF Write
<1>9. /\ d.addr = a /\ CacheStep(i, d) /\ core'[i].di = d
      /\ ofile' = [ofile EXCEPT ![s].off = end]
  BY <1>4 DEF Written
<1>10. d = Current(i)' /\ \A j \in Inodes \ {i} : Current(j)' = Current(j)
  BY <1>5, <1>9 DEF CacheStep, Changed, AllInodes
<1>11. di \in DinodeRecord /\ \A k \in Index : di.addr[k] # Hole <=> k * BLOCKSIZ < di.size
  BY <1>3, <1>5, CurrentTyped DEF IInv, NoHoles
<1>12. /\ \A k \in Index : di.addr[k] # Hole => d.addr[k] = di.addr[k]
       /\ \A k, l \in Index : d.addr[k] = d.addr[l] /\ d.addr[k] # Hole => k = l
  <2>1. \A k \in Index : di.addr[k] # Hole => a[k] = di.addr[k]
    BY <1>4 DEF Extended
  <2>2. \A k, l \in Index : d.addr[k] = d.addr[l] /\ d.addr[k] # Hole => k = l
    BY <1>5, <1>8, <1>10 DEF IInv, BlocksAccounted
  <2> QED
    BY <1>9, <2>1, <2>2
<1>13. data' = Filled(a, off, end, str) /\ buf' = <<>>
  <2>1. PICK addr, to : addr = core'[i].di.addr /\ to = ofile'[s].off
    OBVIOUS
  <2>2. /\ data' = [b \in Blocks |-> IF b \in AddrBlocks([addr |-> addr])
                       THEN Stored(addr, b, off, to, str) ELSE data[b]]
        /\ buf' = <<>>
    BY <1>3, <2>1 DEF WriteBytes
  <2>3. addr = a
    BY <1>9, <2>1
  <2>4. to = end
    BY <1>5, <1>9, <2>1 DEF IInv, TypeInv
  <2> QED
    BY <2>2, <2>3, <2>4 DEF Filled
<1>14. Lengthened(di, d, off, end)
  <2>1. d.size = Most(di.size, end) /\ \A k \in Index : d.addr[k] # Hole <=> k * BLOCKSIZ < d.size
    BY <1>4 DEF Written
  <2> QED
    BY <1>5, <1>6, <1>11, <1>12, <2>1 DEF Lengthened
<1>15. WroteBytes(s, i, off, di, str, a, d, end)
  BY <1>2, <1>3, <1>4, <1>5, <1>7, <1>8, <1>10, <1>13, <1>14 DEF WroteBytes
<1> QED
  BY <1>15

\* write() puts the bytes over what the file held, and leaves other files alone.
LEMMA WriteContents ==
  ASSUME IInv, IInv', DataInv, NEW str \in Strings,
         NEW s, NEW i, NEW off, NEW di, NEW a, NEW d, NEW end,
         WroteBytes(s, i, off, di, str, a, d, end)
  PROVE  /\ DataInv' /\ end - off \in 0 .. Len(str) /\ off \in 0 .. Len(Contents[i])
         /\ Len(Contents[i]) = di.size /\ d.size = Most(di.size, end)
         /\ Contents' = [Contents EXCEPT ![i] = Flat!Over(Contents[i], off, str, end - off)]
<1>1. str \in Seq(Byte) /\ Len(str) \in Nat
  BY BytesAssumption
<1>2. /\ i \in Inodes /\ i \in inodes /\ di = Current(i) /\ d = Current(i)'
      /\ Lengthened(di, d, off, end) /\ di \in DinodeRecord /\ d \in DinodeRecord
      /\ off \in Nat /\ off <= di.size /\ end \in Nat /\ off <= end /\ end <= off + Len(str)
      /\ \A j \in Inodes \ {i} : Current(j)' = Current(j)
      /\ i \in inodes'
  BY DEF WroteBytes, Lengthened
<1>3. data' = Filled(d.addr, off, end, str) /\ d.size = Most(di.size, end) /\ d.addr = a
  BY DEF WroteBytes, Written
<1>4. DataInv'
  BY <1>1, <1>2, <1>3, FilledTyped
<1>5. PICK c, n : c = Contents[i] /\ n = end - off
  OBVIOUS
<1>6. /\ c \in Seq(Byte) /\ Len(c) = di.size /\ di.size \in Nat
      /\ \A p \in 1 .. di.size : c[p] = ByteOf(di, p - 1)
  BY <1>2, <1>5, ContentOf
<1>7. n \in 0 .. Len(str) /\ off \in 0 .. Len(c) /\ off + n = end
  BY <1>1, <1>2, <1>5, <1>6
<1>8. PICK w : w = Flat!Over(c, off, str, n)
  OBVIOUS
<1>9. /\ w \in Seq(Byte) /\ Len(w) = d.size /\ d.size \in Nat
      /\ \A p \in 1 .. d.size : w[p] = IF off < p /\ p <= end THEN str[p - off] ELSE c[p]
  <2>1. /\ w \in Seq(Byte) /\ Len(w) = Most(Len(c), off + n)
        /\ \A p \in 1 .. Most(Len(c), off + n) :
             w[p] = IF off < p /\ p <= off + n THEN str[p - off] ELSE c[p]
    BY <1>1, <1>6, <1>7, <1>8, OverAt
  <2> QED
    BY <1>3, <1>6, <1>7, <2>1
<1>11. Contents[i]' = w
  <2>1. PICK m : m = d.size
    OBVIOUS
  <2>2. PICK g : g = Contents[i]'
    OBVIOUS
  <2>3. g = [p \in 1 .. m |-> ByteOf(d, p - 1)']
    <3>1. Contents[i]' = [p \in 1 .. d.size |-> ByteOf(d, p - 1)']
      BY <1>2 DEF Contents, ByteOf
    <3> QED
      BY <2>1, <2>2, <3>1
  <2>4. ASSUME NEW p \in 1 .. m PROVE ByteOf(d, p - 1)' = w[p]
    <3>1. PICK x \in Nat : x = p - 1 /\ x < d.size
      BY <1>9, <2>1
    <3>2. ByteOf(d, x)' = IF off <= x /\ x < end THEN str[x - off + 1] ELSE ByteOf(di, x)
      BY <1>2, <1>3, <3>1, ByteWritten
    <3>3. (off <= x /\ x < end <=> off < p /\ p <= end) /\ x - off + 1 = p - off
      BY <1>2, <3>1
    <3>4. ~(off < p /\ p <= end) => p \in 1 .. di.size
      BY <1>2, <1>3, <1>6, <2>1 DEF Most
    <3>5. ~(off < p /\ p <= end) => ByteOf(di, x) = c[p]
      BY <1>6, <3>1, <3>4
    <3>6. ByteOf(d, x)' = w[p]
      BY <1>9, <2>1, <3>2, <3>3, <3>5
    <3> QED
      BY <3>1, <3>6
  <2>5. w = [p \in 1 .. m |-> w[p]]
    BY <1>9, <2>1
  <2> QED
    BY <2>2, <2>3, <2>4, <2>5
<1>12. ASSUME NEW j \in Inodes \ {i} PROVE Contents[j]' = Contents[j]
  <2>1. PICK e : e = Current(j)
    OBVIOUS
  <2>2. /\ e \in DinodeRecord /\ e = Current(j)'
        /\ \A k \in Index : e.addr[k] # Hole <=> k * BLOCKSIZ < e.size
    BY <1>2, <2>1, CurrentTyped DEF IInv, AllInodes, NoHoles
  <2>3. \A k, l \in Index : e.addr[k] # Hole => e.addr[k] # d.addr[l]
    <3>1. CASE j \in inodes'
      <4>1. \A k, l \in Index :
              Current(j)'.addr[k] = Current(i)'.addr[l] /\ Current(j)'.addr[k] # Hole => j = i
        BY <1>2, <3>1 DEF IInv, BlocksAccounted
      <4> QED
        BY <1>2, <2>2, <4>1
    <3>2. CASE j \notin inodes'
      <4>1. core'[j].count = 0 /\ disk'[j] = EmptyDinode
        BY <3>2 DEF IInv, InodeInv, AllInodes
      <4>2. e = EmptyDinode
        BY <2>2, <4>1 DEF Current
      <4>3. \A k \in Index : e.addr[k] = Hole
        BY <4>2, BlankTyped DEF NoAddr
      <4> QED
        BY <4>3
    <3> QED
      BY <3>1, <3>2
  <2>4. \A p \in 1 .. e.size : ByteOf(e, p - 1)' = ByteOf(e, p - 1)
    <3> SUFFICES ASSUME NEW p \in 1 .. e.size PROVE ByteOf(e, p - 1)' = ByteOf(e, p - 1)
      OBVIOUS
    <3>1. PICK x \in Nat : x = p - 1 /\ x < e.size
      BY <2>2, Constants DEF DinodeRecord
    <3>2. ByteOf(e, x)' = ByteOf(e, x)
      BY <1>3, <2>2, <2>3, <3>1, ByteKept
    <3> QED
      BY <3>1, <3>2
  <2>5. Contents[j]' = [p \in 1 .. e.size |-> ByteOf(e, p - 1)']
    BY <2>2 DEF Contents, ByteOf
  <2>6. Contents[j] = [p \in 1 .. e.size |-> ByteOf(e, p - 1)]
    BY <2>1 DEF Contents
  <2> QED
    BY <2>4, <2>5, <2>6
<1>13. Contents' = [Contents EXCEPT ![i] = w]
  <2>1. \A j \in Inodes : Contents'[j] = IF j = i THEN w ELSE Contents[j]
    BY <1>11, <1>12
  <2> QED
    BY <2>1 DEF Contents
<1> QED
  BY <1>3, <1>4, <1>5, <1>6, <1>7, <1>8, <1>13

\* The storage of all files when the one at i has len bytes.
StorageOf(i, len) ==
  {b \in Inodes \X Index : b[2] * BLOCKSIZ < IF b[1] = i THEN len ELSE Current(b[1]).size}

\* The cardinality FlatFile speaks of is the one this module speaks of.
LEMMA FlatCardinality ==
  ASSUME NEW S
  PROVE  Flat!Cardinality(S) = Cardinality(S)
BY DEF Flat!Cardinality, Cardinality

LEMMA FitsStorage ==
  ASSUME IInv, DataInv, NEW i \in Inodes, NEW c
  PROVE  Flat!Fits(i, c) <=> /\ Len(c) <= NADDR * BLOCKSIZ
                             /\ Cardinality(StorageOf(i, Len(c))) <= Cardinality(Blocks)
<1>1. PICK after : after = [Contents EXCEPT ![i] = c]
  OBVIOUS
<1>2. \A j \in Inodes : Len(after[j]) = IF j = i THEN Len(c) ELSE Current(j).size
  BY <1>1, ContentOf DEF Contents
<1>3. {b \in Inodes \X (0 .. NADDR - 1) : b[2] * BLOCKSIZ < Len(after[b[1]])}
        = StorageOf(i, Len(c))
  BY <1>2 DEF StorageOf, Index
<1>4. {b \in Inodes \X (0 .. NADDR - 1) :
          b[2] * BLOCKSIZ < Len([Contents EXCEPT ![i] = c][b[1]])} = StorageOf(i, Len(c))
  BY <1>1, <1>3
<1>5. Flat!Fits(i, c) <=>
        /\ Len(c) <= NADDR * BLOCKSIZ
        /\ Cardinality({b \in Inodes \X (0 .. NADDR - 1) :
             b[2] * BLOCKSIZ < Len([Contents EXCEPT ![i] = c][b[1]])}) <= Cardinality(Blocks)
  BY FlatCardinality DEF Flat!Fits
<1> QED
  BY <1>4, <1>5

\* The storage after write() is what the files have blocks for.
LEMMA WriteStorage ==
  ASSUME IInv, IInv', NEW str, NEW s, NEW i, NEW off, NEW di, NEW a, NEW d, NEW end,
         WroteBytes(s, i, off, di, str, a, d, end)
  PROVE  /\ IsFiniteSet(StorageOf(i, d.size))
         /\ Cardinality(StorageOf(i, d.size)) <= Cardinality(Blocks)
         /\ Blocks \subseteq blocks' =>
              Cardinality(StorageOf(i, d.size)) = Cardinality(Blocks)
<1>1. /\ i \in Inodes /\ d \in DinodeRecord /\ d = Current(i)'
      /\ \A j \in Inodes \ {i} : Current(j)' = Current(j)
  BY DEF WroteBytes, Lengthened
<1>2. PICK place : place = [j \in Inodes |-> IF j = i THEN d.addr ELSE Current(j).addr]
  OBVIOUS
<1>3. \A j \in Inodes : place[j] = Current(j)'.addr
  BY <1>1, <1>2
<1>4. \A j \in Inodes : Current(j)' \in DinodeRecord
  <2>1. ASSUME NEW j \in Inodes PROVE Current(j)' \in DinodeRecord
    <3>1. CASE j = i
      BY <1>1, <3>1
    <3>2. CASE j # i
      BY <1>1, <3>2, CurrentTyped DEF IInv, AllInodes
    <3> QED
      BY <3>1, <3>2
  <2> QED
    BY <2>1
<1>5. place \in [Inodes -> [Index -> Blocks \cup {Hole}]]
  <2>1. \A j \in Inodes : place[j] \in [Index -> Blocks \cup {Hole}]
    BY <1>3, <1>4 DEF DinodeRecord
  <2> QED
    BY <1>2, <2>1
<1>6. \A j \in Inodes, k \in Index : place[j][k] # Hole => j \in inodes'
  <2>1. ASSUME NEW j \in Inodes, NEW k \in Index, j \notin inodes' PROVE place[j][k] = Hole
    <3>1. core'[j].count = 0 /\ disk'[j] = EmptyDinode
      BY <2>1 DEF IInv, InodeInv, AllInodes
    <3>2. Current(j)' = EmptyDinode
      BY <3>1 DEF Current
    <3> QED
      BY <1>3, <3>2, BlankTyped DEF NoAddr
  <2> QED
    BY <2>1
<1>7. \A j, e \in Inodes, k, l \in Index :
        place[j][k] = place[e][l] /\ place[j][k] # Hole => j = e /\ k = l
  <2>1. \A j, e \in inodes', k, l \in Index :
          Current(j)'.addr[k] = Current(e)'.addr[l] /\ Current(j)'.addr[k] # Hole
            => j = e /\ k = l
    BY DEF IInv, BlocksAccounted
  <2> QED
    BY <1>3, <1>6, <2>1
<1>8. StorageOf(i, d.size) = {b \in Inodes \X Index : place[b[1]][b[2]] # Hole}
  <2>1. \A j \in Inodes, k \in Index : place[j][k] # Hole <=>
          k * BLOCKSIZ < IF j = i THEN d.size ELSE Current(j).size
    <3>1. \A j \in Inodes, k \in Index :
            Current(j)'.addr[k] # Hole <=> k * BLOCKSIZ < Current(j)'.size
      BY DEF IInv, NoHoles
    <3> QED
      BY <1>1, <1>3, <3>1
  <2> QED
    BY <2>1 DEF StorageOf
<1>9. ASSUME Blocks \subseteq blocks', NEW b \in Blocks
      PROVE  \E j \in Inodes, k \in Index : place[j][k] = b
  <2>1. PICK j \in inodes' : b \in AddrBlocks(Current(j)')
    BY <1>9 DEF IInv, BlocksAccounted
  <2>2. PICK k \in Index : Current(j)'.addr[k] = b
    BY <2>1 DEF AddrBlocks
  <2>3. j # Cwd
    <3>1. Current(Cwd)' = Dinode(1, Root, {})
      BY DEF IInv, InodeInv
    <3>2. \A l \in Index : Current(Cwd)'.addr[l] = Hole
      BY <3>1 DEF Dinode, NoAddr
    <3> QED
      BY <2>2, <3>2, FilesAssumption
  <2>4. j \in Inodes
    BY <2>3 DEF IInv, TypeInv, AllInodes
  <2> QED
    BY <1>3, <2>2, <2>4
<1>10. IsFiniteSet(Blocks)
  BY BytesAssumption
<1> QED
  BY <1>5, <1>7, <1>8, <1>9, <1>10, StorageCount

\* One place more than the files have blocks for is one too many, when write() has
\* stopped short.
LEMMA WriteFull ==
  ASSUME IInv, IInv', NEW str \in Strings, NEW s, NEW i, NEW off, NEW di, NEW a, NEW d, NEW end,
         WroteBytes(s, i, off, di, str, a, d, end),
         NEW m \in Nat, end < off + m, m <= Len(str)
  PROVE  \/ NADDR * BLOCKSIZ < off + m
         \/ ~(Cardinality(StorageOf(i, Most(di.size, off + m))) <= Cardinality(Blocks))
<1>1. /\ i \in Inodes /\ d = Current(i)' /\ d.addr = a
      /\ end = Extent(a, off, Len(str)) /\ d.size = Most(di.size, end)
      /\ off \in Nat /\ end \in Nat /\ off <= end
      /\ a \in Extended(di.addr, Touched(off, Len(str)))
      /\ blocks' = blocks \cup AddrBlocks([addr |-> a])
      /\ \A k \in Index : a[k] # Hole <=> k * BLOCKSIZ < d.size
      /\ di \in DinodeRecord
  BY DEF WroteBytes, Written, Lengthened
<1>2. PICK n \in Nat : n = Len(str) /\ m <= n
  BY BytesAssumption
<1>3. PICK q, last : q = off \div BLOCKSIZ /\ last = (off + n - 1) \div BLOCKSIZ
  OBVIOUS
<1>4. /\ q \in Nat /\ q * BLOCKSIZ \in Nat /\ off < q * BLOCKSIZ + BLOCKSIZ
      /\ last \in Nat /\ last * BLOCKSIZ \in Nat /\ off + n - 1 < last * BLOCKSIZ + BLOCKSIZ
  <2>1. off + n - 1 \in Nat
    BY <1>1, <1>2
  <2> QED
    BY <1>1, <1>3, <2>1, Quotient, Products
<1>5. NADDR \in Nat /\ NADDR * BLOCKSIZ \in Nat /\ BLOCKSIZ \in Nat
  BY Constants
<1>6. CASE ~(q < NADDR)
  <2>1. NADDR * BLOCKSIZ <= q * BLOCKSIZ
    BY <1>4, <1>5, <1>6, Products
  <2>2. q * BLOCKSIZ <= off
    BY <1>1, <1>3, Quotient
  <2> QED
    BY <1>1, <1>4, <1>5, <2>1, <2>2
<1>7. CASE q < NADDR
  <2>1. PICK f \in Nat : f <= NADDR /\ q <= f /\ (f = NADDR \/ a[f] = Hole)
                        /\ end = Most(off, Least(off + n, f * BLOCKSIZ))
    <3>1. \E f \in Nat : StopsAt(a, off, n, q, f)
      BY <1>1, <1>2, <1>3, <1>7, ExtentEffect
    <3> QED
      BY <1>1, <1>2, <3>1 DEF StopsAt
  <2>2. PICK g \in Nat : g = f * BLOCKSIZ
    BY <2>1, Products
  <2>3. g <= end /\ g < off + m
    <3>1. end = Most(off, Least(off + n, g))
      BY <2>1, <2>2
    <3> QED
      BY <1>1, <1>2, <3>1 DEF Most, Least
  <2>4. CASE f = NADDR
    BY <2>2, <2>3, <2>4
  <2>5. CASE f # NADDR
    <3>1. f \in Index /\ a[f] = Hole
      BY <1>5, <2>1, <2>5 DEF Index
    <3>2. f \in Touched(off, n)
      <4>1. ASSUME last < f PROVE FALSE
        <5>1. last * BLOCKSIZ + BLOCKSIZ <= g
          BY <1>4, <2>1, <2>2, <4>1, Products
        <5> QED
          BY <1>1, <1>2, <1>4, <1>5, <2>2, <2>3, <5>1
      <4> QED
        BY <1>3, <1>4, <2>1, <3>1, <4>1 DEF Touched
    <3>3. Blocks \subseteq blocks'
      <4>1. a \in Extended(di.addr, Touched(off, n))
        BY <1>1, <1>2
      <4> QED
        BY <1>1, <3>1, <3>2, <4>1 DEF Extended
    <3>4. PICK S, T : S = StorageOf(i, d.size) /\ T = StorageOf(i, Most(di.size, off + m))
      OBVIOUS
    <3>5. IsFiniteSet(S) /\ Cardinality(S) = Cardinality(Blocks)
      BY <3>3, <3>4, WriteStorage
    <3>6. PICK z : z = Most(di.size, off + m)
      OBVIOUS
    <3>7. di.size \in Nat /\ z \in Nat /\ d.size \in Nat /\ d.size <= z /\ off + m <= z
      <4>1. di.size \in Nat
        BY <1>1, Constants DEF DinodeRecord
      <4>2. z = Most(di.size, off + m) /\ d.size = Most(di.size, end)
        BY <1>1, <3>6
      <4> QED
        BY <1>1, <4>1, <4>2 DEF Most
    <3>8. S \subseteq T /\ <<i, f>> \in T /\ <<i, f>> \notin S
      <4>1. ASSUME NEW b \in S PROVE b \in T
        <5>1. b[2] * BLOCKSIZ \in Nat
          BY <3>4, Products, Constants DEF StorageOf
        <5>2. CASE b[1] = i
          <6>1. b \in Inodes \X Index /\ b[2] * BLOCKSIZ < d.size
            BY <3>4, <5>2 DEF StorageOf
          <6>2. b[2] * BLOCKSIZ < z
            BY <3>7, <5>1, <6>1
          <6> QED
            BY <3>4, <3>6, <5>2, <6>1, <6>2 DEF StorageOf
        <5>3. CASE b[1] # i
          BY <3>4, <5>3 DEF StorageOf
        <5> QED
          BY <5>2, <5>3
      <4>2. f * BLOCKSIZ < z
        BY <1>1, <2>2, <2>3, <3>7
      <4>3. ~(f * BLOCKSIZ < d.size)
        BY <1>1, <3>1
      <4>4. <<i, f>> \in T
        BY <1>1, <3>1, <3>4, <3>6, <4>2 DEF StorageOf
      <4>5. <<i, f>> \notin S
        BY <3>4, <4>3 DEF StorageOf
      <4> QED
        BY <4>1, <4>4, <4>5
    <3>9. IsFiniteSet(T)
      <4>1. PICK I : I = {i} \X Index
        OBVIOUS
      <4>2. IsFiniteSet(I)
        <5>1. IsFiniteSet({i})
          BY FS_Singleton
        <5>2. 0 \in Int /\ NADDR - 1 \in Int
          BY <1>5
        <5>3. IsFiniteSet(0 .. NADDR - 1)
          BY <5>2, FS_Interval
        <5> QED
          BY <4>1, <5>1, <5>3, FS_Product DEF Index
      <4>3. IsFiniteSet(S \cup I)
        BY <3>5, <4>2, FS_Union
      <4>4. ASSUME NEW b \in T PROVE b \in S \cup I
        <5>1. b \in Inodes \X Index /\ b = <<b[1], b[2]>> /\ b[2] \in Index
          BY <3>4 DEF StorageOf
        <5>2. CASE b[1] = i
          BY <4>1, <5>1, <5>2
        <5>3. CASE b[1] # i
          BY <3>4, <5>3 DEF StorageOf
        <5> QED
          BY <5>2, <5>3
      <4> QED
        BY <4>3, <4>4, FS_Subset
    <3>10. PICK U : U = S \cup {<<i, f>>}
      OBVIOUS
    <3>11. Cardinality(U) = Cardinality(Blocks) + 1 /\ Cardinality(U) <= Cardinality(T)
      <4>1. Cardinality(U) = Cardinality(S) + 1
        BY <3>5, <3>8, <3>10, FS_AddElement
      <4>2. U \in SUBSET T
        BY <3>8, <3>10
      <4> QED
        BY <3>5, <3>9, <4>1, <4>2, FS_Subset
    <3>12. Cardinality(Blocks) \in Nat /\ Cardinality(T) \in Nat
      BY <3>9, BytesAssumption, FS_CardinalityType
    <3>13. ~(Cardinality(T) <= Cardinality(Blocks))
      BY <3>11, <3>12
    <3> QED
      BY <3>4, <3>13
  <2> QED
    BY <2>4, <2>5
<1> QED
  BY <1>6, <1>7

\* write() puts in what there is room for.
LEMMA WriteFlat ==
  ASSUME IInv, IInv', DataInv, NEW u \in Users, NEW fd \in Fd, NEW str \in Strings,
         WriteBytes(u, fd, str)
  PROVE  DataInv' /\ FlatStep
<1>1. PICK s, i, off, di, a, d, end : WroteBytes(s, i, off, di, str, a, d, end)
  BY WriteBytesEffect
<1>2. PICK c, n : c = Contents[i] /\ n = end - off
  OBVIOUS
<1>3. /\ DataInv' /\ n \in 0 .. Len(str) /\ off \in 0 .. Len(c)
      /\ Len(c) = di.size /\ d.size = Most(di.size, end)
      /\ Contents' = [Contents EXCEPT ![i] = Flat!Over(c, off, str, n)]
  BY <1>1, <1>2, WriteContents
<1>4. /\ s \in Slot /\ ofile[s].count = 1 /\ ofile[s].ino = i /\ ofile[s].off = off
      /\ i \in Inodes /\ off \in Nat /\ end \in Nat /\ off <= end
      /\ d \in DinodeRecord /\ buf' = <<>>
      /\ ofile' = [ofile EXCEPT ![s].off = end]
  BY <1>1 DEF WroteBytes, Written, Lengthened
<1>5. c \in Seq(Byte) /\ str \in Seq(Byte) /\ Len(str) \in Nat
  BY <1>2, <1>4, ContentOf, BytesAssumption
<1>6. \A m \in 0 .. Len(str) : Len(Flat!Over(c, off, str, m)) = Most(di.size, off + m)
  <2>1. ASSUME NEW m \in 0 .. Len(str)
        PROVE  Len(Flat!Over(c, off, str, m)) = Most(Len(c), off + m)
    BY <1>3, <1>5, OverAt
  <2> QED
    BY <1>3, <2>1
<1>7. off + n = end
  BY <1>2, <1>4
<1>8. Flat!Fits(i, Flat!Over(c, off, str, n))
  <2>1. Len(Flat!Over(c, off, str, n)) = d.size
    BY <1>3, <1>6, <1>7
  <2>2. d.size <= NADDR * BLOCKSIZ
    BY <1>4, Constants DEF DinodeRecord
  <2>3. Cardinality(StorageOf(i, d.size)) <= Cardinality(Blocks)
    BY <1>1, WriteStorage
  <2> QED
    BY <1>4, <2>1, <2>2, <2>3, FitsStorage
<1>9. ASSUME NEW m \in n + 1 .. Len(str)
      PROVE  ~Flat!Fits(i, Flat!Over(c, off, str, m))
  <2>1. m \in Nat /\ m \in 0 .. Len(str) /\ end < off + m /\ m <= Len(str)
    BY <1>3, <1>4, <1>5, <1>7
  <2>2. PICK l : l = Most(di.size, off + m)
    OBVIOUS
  <2>3. Len(Flat!Over(c, off, str, m)) = l
    BY <1>6, <2>1, <2>2
  <2>4. NADDR * BLOCKSIZ < off + m \/ ~(Cardinality(StorageOf(i, l)) <= Cardinality(Blocks))
    BY <1>1, <2>1, <2>2, WriteFull
  <2>5. NADDR * BLOCKSIZ < off + m => ~(l <= NADDR * BLOCKSIZ)
    <3>1. PICK b \in Nat : b = NADDR * BLOCKSIZ
      BY Constants
    <3>2. di.size \in Nat
      BY <1>3, <1>5
    <3> QED
      BY <1>4, <2>1, <2>2, <3>1, <3>2 DEF Most
  <2> QED
    BY <1>4, <2>3, <2>4, <2>5, FitsStorage
<1>10. /\ Cursors[s] # Closed /\ Cursors[s].file = i /\ Cursors[s].off = off
       /\ Cursors[s] = Flat!At(i, off)
  BY <1>4, CursorOf
<1>11. Cursors' = [Cursors EXCEPT ![s].off = off + n]
  <2>1. \A t \in Slot : /\ ofile'[t].count = ofile[t].count /\ ofile'[t].ino = ofile[t].ino
                        /\ ofile'[t].off = IF t = s THEN end ELSE ofile[t].off
    BY <1>4 DEF IInv, TypeInv
  <2>2. \A t \in Slot : Cursors'[t] = IF t = s THEN Flat!At(i, end) ELSE Cursors[t]
    <3>1. \A t \in Slot : t # s => Cursors'[t] = Cursors[t]
      BY <2>1 DEF Cursors
    <3>2. Cursors'[s] = Flat!At(i, end)
      BY <1>4, <2>1 DEF Cursors, Flat!At
    <3> QED
      BY <3>1, <3>2
  <2>3. Cursors' = [Cursors EXCEPT ![s] = Flat!At(i, end)]
    BY <2>2 DEF Cursors
  <2>4. [Cursors[s] EXCEPT !.off = end] = Flat!At(i, end)
    BY <1>10 DEF Flat!At
  <2>5. [Cursors EXCEPT ![s].off = end] = [Cursors EXCEPT ![s] = [Cursors[s] EXCEPT !.off = end]]
    OBVIOUS
  <2> QED
    BY <1>7, <2>3, <2>4, <2>5
<1>12. Flat!Write(s, str)
  <2>1. \E k \in 0 .. Len(str) :
          /\ Flat!Fits(i, Flat!Over(Contents[i], off, str, k))
          /\ \A m \in k + 1 .. Len(str) : ~Flat!Fits(i, Flat!Over(Contents[i], off, str, m))
          /\ Contents' = [Contents EXCEPT ![i] = Flat!Over(Contents[i], off, str, k)]
          /\ Cursors' = [Cursors EXCEPT ![s].off = off + k]
    BY <1>2, <1>3, <1>8, <1>9, <1>11
  <2> QED
    BY <1>4, <1>10, <2>1 DEF Flat!Write
<1> QED
  BY <1>3, <1>4, <1>12 DEF FlatStep, Flat!Next

-----------------------------------------------------------------------------
(***************************************************************************)
(* The refinement.                                                         *)
(***************************************************************************)

\* A call of Bytes is one of Files.
LEMMA BytesCall == BytesNext => [Next]_vars
<1> SUFFICES ASSUME BytesNext PROVE [Next]_vars
  OBVIOUS
<1>1. ASSUME NEW u \in Users, NEW fd \in Fd, NEW n \in Sizes, ReadBytes(u, fd, n)
      PROVE  Next
  BY <1>1 DEF ReadBytes, Next
<1>2. ASSUME NEW u \in Users, NEW fd \in Fd, NEW str \in Strings, WriteBytes(u, fd, str)
      PROVE  Next
  <2>1. Len(str) \in Sizes /\ Write(u, fd, Len(str))
    BY <1>2, BytesAssumption DEF WriteBytes
  <2> QED
    BY <2>1 DEF Next
<1>3. CASE Others
  BY <1>3 DEF Others, Next
<1>4. CASE Refused
  BY <1>4 DEF Refused, Next
<1> QED
  BY <1>1, <1>2, <1>3, <1>4 DEF BytesNext

LEMMA BytesInitial ==
  ASSUME BytesInit
  PROVE  IInv /\ DataInv /\ Flat!Init
<1>1. IInv /\ DataInv
  BY InitInv DEF BytesInit, DataInv
<1>2. \A i \in Inodes : Current(i) = EmptyDinode
  BY FilesAssumption DEF BytesInit, Init, Current, NotInCore
<1>3. \A i \in Inodes : Contents[i] = <<>>
  <2>1. ASSUME NEW i \in Inodes PROVE Contents[i] = <<>>
    <3>1. Contents[i] \in Seq(Byte) /\ Len(Contents[i]) = 0
      BY <1>1, <1>2, ContentOf, BlankTyped
    <3> QED
      BY <3>1
  <2> QED
    BY <2>1
<1>4. Contents = [i \in Inodes |-> <<>>]
  BY <1>3 DEF Contents
<1>5. \A s \in Slot : Cursors[s] = Closed
  BY DEF BytesInit, Init, Cursors, Closed
<1>6. Cursors = [s \in Slot |-> Closed]
  BY <1>5 DEF Cursors
<1> QED
  BY <1>1, <1>4, <1>6 DEF Flat!Init, BytesInit

LEMMA BytesStep ==
  ASSUME IInv, IInv', DataInv, BytesNext
  PROVE  DataInv' /\ [FlatStep]_Flat!vars
<1>1. ASSUME NEW u \in Users, NEW fd \in Fd, NEW n \in Sizes, ReadBytes(u, fd, n)
      PROVE  DataInv' /\ FlatStep
  BY <1>1, ReadFlat DEF ReadBytes, DataInv
<1>2. ASSUME NEW u \in Users, NEW fd \in Fd, NEW str \in Strings, WriteBytes(u, fd, str)
      PROVE  DataInv' /\ FlatStep
  BY <1>2, WriteFlat
<1>3. CASE Others
  <2>1. buf' = <<>> /\ data' = data
    BY <1>3 DEF Others
  <2>2. ASSUME NEW u \in Users, NEW n \in Names, CreatTruncate(u, n)
        PROVE  FlatStep
    BY <2>1, <2>2, CreatTruncateFlat
  <2>3. ASSUME NEW u \in Users, NEW n \in Names, NEW m \in Modes, CreatNew(u, n, m)
        PROVE  FlatStep
    BY <2>1, <2>3, CreatNewFlat
  <2>4. ASSUME NEW u \in Users, NEW n \in Names, NEW flag \in OpenModes, Open(u, n, flag)
        PROVE  FlatStep
    BY <2>1, <2>4, OpenFlat
  <2>5. ASSUME NEW n \in Names, Delete(n)
        PROVE  FlatStep
    BY <2>1, <2>5, DeleteFlat
  <2>6. ASSUME NEW u \in Users, NEW fd \in Fd, Close(u, fd)
        PROVE  FlatStep
    BY <2>1, <2>6, CloseFlat
  <2>7. FlatStep
    BY <1>3, <2>2, <2>3, <2>4, <2>5, <2>6 DEF Others
  <2> QED
    BY <2>1, <2>7 DEF DataInv
<1>4. CASE Refused
  BY <1>4, RefusedFlat DEF Refused, FlatSame, Flat!vars, DataInv
<1> QED
  BY <1>1, <1>2, <1>3, <1>4 DEF BytesNext

\* What sessions see of files made of blocks, inodes and slots is what FlatFile
\* promises, however the calls interleave and whatever was in the blocks before: a
\* read returns what was last written there, and a write stops short only when the
\* file has all the blocks an inode can name or the disk none left.
THEOREM ImplementsFlatFile == BytesSpec => ImplementsFlat
<1>1. BytesInit => IInv /\ DataInv /\ Flat!Init
  BY BytesInitial
<1>2. IInv /\ DataInv /\ [BytesNext]_bvars =>
        IInv' /\ DataInv' /\ [Flat!Next(Sizes, Strings)]_Flat!vars
  <2> SUFFICES ASSUME IInv, DataInv, [BytesNext]_bvars
               PROVE  IInv' /\ DataInv' /\ [Flat!Next(Sizes, Strings)]_Flat!vars
    OBVIOUS
  <2>1. [Next]_vars
    BY BytesCall DEF bvars
  <2>2. IInv'
    BY <2>1, NextInv
  <2>3. CASE BytesNext
    BY <2>2, <2>3, BytesStep DEF FlatStep
  <2>4. CASE UNCHANGED bvars
    <3>1. Contents' = Contents /\ Cursors' = Cursors /\ buf' = buf /\ DataInv'
      BY <2>4 DEF bvars, vars, Contents, Cursors, Current, ByteOf, DataInv
    <3> QED
      BY <2>2, <3>1 DEF Flat!vars
  <2> QED
    BY <2>3, <2>4
<1> QED
  BY <1>1, <1>2, PTL DEF BytesSpec, ImplementsFlat
================================================================================
