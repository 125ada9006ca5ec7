------------------------------ MODULE Superblock ------------------------------
(***************************************************************************)
(* The superblock of the virtual disk (struct filsys, include/Core.h) and  *)
(* the four operations of class BlockManager on it, as operators from old  *)
(* values to new ones, so that every module whose handlers call balloc(),  *)
(* bfree(), ialloc() or ifree() composes the same definitions.             *)
(*                                                                         *)
(* The free data blocks form a stack of groups: s_free holds the newest    *)
(* group, and the bottom block of each group stores the group below it.    *)
(* The free disk inodes form one stack, s_inode, refilled by a scan of the *)
(* inode area that starts at the remembered inode s_rinode.                *)
(***************************************************************************)
EXTENDS Integers

CONSTANTS
  NICFREE,      \* capacity of s_free (50 in the code)
  FILEBLK,      \* number of data blocks (512)
  NICINOD,      \* capacity of s_inode (50)
  NINODE        \* number of disk inodes, DINODEBLK * (BLOCKSIZ / DINODESIZ)

\* Block numbers, inode numbers and s_pinode are of type uint16_t.
MaxWord == 65535

ASSUME SuperblockAssumption ==
  /\ NICFREE \in Nat \ {0}
  /\ NICINOD \in 1 .. MaxWord
  /\ FILEBLK \in (NICFREE + 3) .. MaxWord
  /\ NINODE \in Nat /\ NINODE >= 4

DISKFULL == MaxWord

Block == 0 .. FILEBLK - 1
Inode == 0 .. NINODE - 1

\* format() gives blocks 0, 1 and 2 to the root directory, /etc and the
\* password file, and inodes 1, 2 and 3 to the same files; inode 0 is never used.
FormatBlocks == 0 .. 2
FormatInodes == 0 .. 3

Wrap16(x) == x % (MaxWord + 1)

\* What the allocator reads of a data block: its first word, and the NICFREE
\* words that follow it.
Words == [n : Nat, ids : [0 .. NICFREE - 1 -> Nat]]
ZeroWords == [n |-> 0, ids |-> [i \in 0 .. NICFREE - 1 |-> 0]]

IsLink(w) == w.n \in 1 .. NICFREE

\* struct filsys.  s_isize, s_fsize and s_fmod are written and never read.
Filsys ==
  [s_nfree  : 0 .. NICFREE,
   s_pfree  : 0 .. NICFREE,
   s_free   : [0 .. NICFREE - 1 -> Nat],
   s_ninode : Nat,
   s_pinode : 0 .. MaxWord,
   s_inode  : [0 .. NICINOD - 1 -> Inode],
   s_rinode : 0 .. NINODE]

-----------------------------------------------------------------------------
(***************************************************************************)
(* Format: the chain of free groups.                                       *)
(***************************************************************************)

TotalFree == FILEBLK - 3

\* Number of groups that do not fit in s_free and are linked on the disk.
Sections == (TotalFree - 1) \div NICFREE

\* The k-th group of free_blocks[], k = 0 being the one kept in s_free.
Section(k) ==
  LET rest == TotalFree - k * NICFREE
      size == IF rest < NICFREE THEN rest ELSE NICFREE
  IN  [n   |-> size,
       ids |-> [i \in 0 .. NICFREE - 1 |->
                  IF i < size THEN 3 + k * NICFREE + i ELSE 0]]

\* The first block of a group stores the next group; the first block of the
\* last group, and every other block, is left zeroed.
FormatWords(b) ==
  IF b >= 3 /\ (b - 3) % NICFREE = 0 /\ (b - 3) \div NICFREE < Sections
  THEN Section((b - 3) \div NICFREE + 1)
  ELSE ZeroWords

FormatNinode == IF NINODE - 4 < NICINOD THEN NINODE - 4 ELSE NICINOD

FormatSuperblock ==
  [s_nfree  |-> NICFREE,
   s_pfree  |-> NICFREE - 1,
   s_free   |-> Section(0).ids,
   s_ninode |-> FormatNinode,
   s_pinode |-> Wrap16(FormatNinode - 1),
   s_inode  |-> [k \in 0 .. NICINOD - 1 |->
                   IF k < FormatNinode THEN NINODE - 1 - k ELSE 0],
   s_rinode |-> 4]

-----------------------------------------------------------------------------
(***************************************************************************)
(* balloc() and bfree().  s_free is followed in memory by s_ninode, so the *)
(* word at index NICFREE, one past the array, is s_ninode.                 *)
(***************************************************************************)

FreeWord(sb, i) == IF i < NICFREE THEN sb.s_free[i] ELSE sb.s_ninode

SetFreeWord(sb, i, b) ==
  IF i < NICFREE THEN [sb EXCEPT !.s_free[i] = b] ELSE [sb EXCEPT !.s_ninode = b]

\* The block that balloc() returns.
BallocBlock(sb) == IF sb.s_nfree = 0 THEN DISKFULL ELSE FreeWord(sb, sb.s_pfree)

\* memcpy of a group read from disk over the first g.n entries of s_free.
LoadGroup(sb, g) ==
  [sb EXCEPT !.s_free = [i \in 0 .. NICFREE - 1 |->
                           IF i < g.n THEN g.ids[i] ELSE sb.s_free[i]],
             !.s_nfree = g.n,
             !.s_pfree = g.n - 1]

\* Mutant: the last block of a group is handed out without loading the group
\* it stores.
BallocSbNoLoad(sb, blk) ==
  IF sb.s_nfree > 1 THEN [sb EXCEPT !.s_pfree = @ - 1, !.s_nfree = @ - 1]
                    ELSE [sb EXCEPT !.s_nfree = 0, !.s_pfree = 0]

\* Mutant: the stack pointer follows s_nfree one step late after a load.
BallocSbLatePointer(sb, blk) ==
  IF sb.s_nfree = 0 THEN sb
  ELSE IF sb.s_nfree > 1
       THEN [sb EXCEPT !.s_pfree = @ - 1, !.s_nfree = @ - 1]
       ELSE LET g == blk[FreeWord(sb, sb.s_pfree)]
            IN  IF IsLink(g) THEN [LoadGroup(sb, g) EXCEPT !.s_pfree = 0]
                             ELSE [sb EXCEPT !.s_nfree = 0, !.s_pfree = 0]

\* The superblock that balloc() leaves, the data blocks being blk.
BallocSb(sb, blk) ==
  IF sb.s_nfree = 0 THEN sb
  ELSE IF sb.s_nfree > 1
       THEN [sb EXCEPT !.s_pfree = @ - 1, !.s_nfree = @ - 1]
       ELSE LET g == blk[FreeWord(sb, sb.s_pfree)]
            IN  IF IsLink(g) THEN LoadGroup(sb, g)
                             ELSE [sb EXCEPT !.s_nfree = 0, !.s_pfree = 0]

\* Mutant: the test for a full group is off by one.
BfreeSbOffByOne(sb, b) ==
  IF sb.s_nfree > NICFREE
  THEN [sb EXCEPT !.s_free[0] = b, !.s_nfree = 1, !.s_pfree = 0]
  ELSE SetFreeWord([sb EXCEPT !.s_pfree = @ + 1, !.s_nfree = @ + 1],
                   sb.s_pfree + 1, b)

BfreeSb(sb, b) ==
  IF sb.s_nfree = NICFREE
  THEN [sb EXCEPT !.s_free[0] = b, !.s_nfree = 1, !.s_pfree = 0]
  ELSE SetFreeWord([sb EXCEPT !.s_pfree = @ + 1, !.s_nfree = @ + 1],
                   sb.s_pfree + 1, b)

\* Mutant: the full group is not written into the freed block.
BfreeBlkNoSpill(sb, blk, b) == blk

\* A full group is spilled into the block being freed.
BfreeBlk(sb, blk, b) ==
  IF sb.s_nfree = NICFREE
  THEN [blk EXCEPT ![b] = [n |-> NICFREE, ids |-> sb.s_free]]
  ELSE blk

-----------------------------------------------------------------------------
(***************************************************************************)
(* ialloc() and ifree().  num[i] is di_number of disk inode i.             *)
(***************************************************************************)

\* Mutant: the refill loop does not look at di_number.
FoundAny(sb, num) == {i \in Inode : i >= sb.s_rinode}

\* What the refill loop of ialloc() finds free.
FoundFree(sb, num) == {i \in Inode : i >= sb.s_rinode /\ num[i] = 0}

\* Mutant: the scan remembers nothing of what lies between found inodes.
ScannedAny(sb, num, c, f) ==
  /\ \A k \in 0 .. c - 1 : f[k] \in FoundFree(sb, num)
  /\ \A j, k \in 0 .. c - 1 : j < k => f[j] < f[k]
  /\ \A k \in c .. NICINOD - 1 : f[k] = sb.s_inode[k]

\* The refill loop leaves in f the first c free inodes at or above s_rinode, in
\* ascending order; it stops early only when s_inode is full.
Scanned(sb, num, c, f) ==
  /\ \A k \in 0 .. c - 1 : f[k] \in FoundFree(sb, num)
  /\ \A j, k \in 0 .. c - 1 : j < k => f[j] < f[k]
  /\ \A i \in FoundFree(sb, num) :
        c < NICINOD \/ i < f[c - 1] => \E k \in 0 .. c - 1 : f[k] = i
  /\ \A k \in c .. NICINOD - 1 : f[k] = sb.s_inode[k]

\* The superblocks a refill can leave: one, or none when nothing is found.
Refilled(sb, num) ==
  {[sb EXCEPT !.s_inode = cf[2], !.s_ninode = cf[1], !.s_pinode = cf[1] - 1,
              !.s_rinode = IF cf[1] = NICINOD THEN cf[2][cf[1] - 1] + 1 ELSE @] :
     cf \in {x \in (1 .. NICINOD) \X [0 .. NICINOD - 1 -> Inode] :
                Scanned(sb, num, x[1], x[2])}}

\* The stack ialloc() pops from: as it is, or refilled when it is empty.
Stocked(sb, num) == IF sb.s_ninode = 0 THEN Refilled(sb, num) ELSE {sb}

TopInode(sb) == sb.s_inode[sb.s_pinode]

PopInode(sb) == [sb EXCEPT !.s_pinode = Wrap16(@ - 1), !.s_ninode = @ - 1]

\* Mutant: a free inode below the remembered one is forgotten.
IfreeSbKeepRinode(sb, i) ==
  IF sb.s_ninode < NICINOD
  THEN [sb EXCEPT !.s_ninode = @ + 1, !.s_pinode = Wrap16(@ + 1),
                  !.s_inode[Wrap16(sb.s_pinode + 1)] = i]
  ELSE sb

\* Mutant: the test for a full stack is off by one.
IfreeSbOffByOne(sb, i) ==
  LET pushed == IF sb.s_ninode <= NICINOD
                THEN [sb EXCEPT !.s_ninode = @ + 1, !.s_pinode = Wrap16(@ + 1),
                                !.s_inode[Wrap16(sb.s_pinode + 1)] = i]
                ELSE sb
  IN  [pushed EXCEPT !.s_rinode = IF i < @ THEN i ELSE @]

\* Mutant: the pointer of an empty stack is not wrapped back to 0.
IfreeSbFirstAtOne(sb, i) ==
  LET top == IF sb.s_ninode = 0 THEN 1 ELSE sb.s_pinode + 1
      pushed == IF sb.s_ninode < NICINOD
                THEN [sb EXCEPT !.s_ninode = @ + 1, !.s_pinode = top,
                                !.s_inode[top] = i]
                ELSE sb
  IN  [pushed EXCEPT !.s_rinode = IF i < @ THEN i ELSE @]

\* A freed inode is pushed if there is room, and remembered if it lies below
\* s_rinode whether or not it was pushed.
IfreeSb(sb, i) ==
  LET pushed == IF sb.s_ninode < NICINOD
                THEN [sb EXCEPT !.s_ninode = @ + 1, !.s_pinode = Wrap16(@ + 1),
                                !.s_inode[Wrap16(sb.s_pinode + 1)] = i]
                ELSE sb
  IN  [pushed EXCEPT !.s_rinode = IF i < @ THEN i ELSE @]
===============================================================================
