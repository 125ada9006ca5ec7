------------------------------- MODULE InodeList -------------------------------
(***************************************************************************)
(* The free disk inodes and their users.  ialloc() pops the stack of the   *)
(* superblock and marks the inode used on disk at once; ifree() pushes it  *)
(* back, or leaves it to be found by a later scan of the inode area when   *)
(* the stack is full.                                                      *)
(***************************************************************************)
EXTENDS Superblock

VARIABLES
  sb,           \* the superblock in memory
  num,          \* di_number of each disk inode, as it is on disk
  held,         \* inodes that belong to a file or directory
  got           \* what the last ialloc() returned

vars == <<sb, num, held, got>>

\* ialloc() returns a null pointer.
NoInode == -1

Init ==
  /\ sb = FormatSuperblock
  /\ num = [i \in Inode |-> IF i \in 1 .. 3 THEN 1 ELSE 0]
  /\ held = FormatInodes
  /\ got = NoInode

\* Mutant: ialloc() leaves the disk inode as it is.
IallocUnmarked ==
  \E s \in Stocked(sb, num) :
    /\ got' = TopInode(s)
    /\ sb' = PopInode(s)
    /\ held' = held \cup {got'}
    /\ UNCHANGED num

\* ialloc() that finds an inode, and writes di_number = 1 to its disk slot.
Ialloc ==
  \E s \in Stocked(sb, num) :
    /\ got' = TopInode(s)
    /\ sb' = PopInode(s)
    /\ num' = [num EXCEPT ![got'] = 1]
    /\ held' = held \cup {got'}

\* ialloc() with an empty stack and nothing left for the scan to find.
IallocNone ==
  /\ sb.s_ninode = 0
  /\ FoundFree(sb, num) = {}
  /\ got' = NoInode
  /\ UNCHANGED <<sb, num, held>>

\* iput() drops the last reference to a deleted file: ifree(), then the disk
\* inode is zeroed.
Ifree(i) ==
  /\ sb' = IfreeSb(sb, i)
  /\ num' = [num EXCEPT ![i] = 0]
  /\ held' = held \ {i}
  /\ UNCHANGED got

\* mkdir() when ialloc() succeeds and balloc() does not: ifree() of the new
\* inode, then iput(), which writes it back with di_number still 1.
MkdirNoSpace ==
  \E s \in Stocked(sb, num) :
    /\ sb' = IfreeSb(PopInode(s), TopInode(s))
    /\ num' = [num EXCEPT ![TopInode(s)] = 1]
    /\ UNCHANGED <<held, got>>

Next ==
  \/ Ialloc
  \/ IallocNone
  \/ MkdirNoSpace
  \/ \E i \in held \ FormatInodes : Ifree(i)

Spec == Init /\ [][Next]_vars

-----------------------------------------------------------------------------
(***************************************************************************)
(* Properties.                                                             *)
(***************************************************************************)

TypeOK ==
  /\ sb \in Filsys
  /\ sb.s_ninode <= NICINOD
  /\ sb.s_rinode >= 4
  /\ num \in [Inode -> 0 .. 1]
  /\ held \subseteq Inode
  /\ got \in Inode \cup {NoInode}

\* The entries ialloc() will pop.
OnStack == 0 .. sb.s_ninode - 1
Stacked(i) == \E k \in OnStack : sb.s_inode[k] = i

\* The 16-bit stack pointer designates the top entry, and 65535, one before the
\* first entry, when the stack is empty.
PointerAtTop == sb.s_pinode = Wrap16(sb.s_ninode - 1)

\* An inode is on the stack once at most, and never while a file uses it: what
\* would give two files the same inode.
NoInodeTwice ==
  /\ \A j, k \in OnStack : sb.s_inode[j] = sb.s_inode[k] => j = k
  /\ \A k \in OnStack : sb.s_inode[k] \notin held

\* A used inode is marked used on the disk, so that no scan picks it up.
UsedOnDisk == \A i \in held \ FormatInodes : num[i] # 0

\* A free inode is not forgotten: it is on the stack, or it lies where the next
\* scan looks and is marked free there.  This is what s_rinode is for.
NoInodeLost ==
  \A i \in Inode \ held : Stacked(i) \/ (num[i] = 0 /\ i >= sb.s_rinode)

\* The contract: an inode handed out belonged to no file, and ialloc() fails
\* only when every inode of the disk is in use.
Pool == INSTANCE FreePool WITH Ids <- Inode, Reserved <- FormatInodes,
                               Refusal <- NoInode

ImplementsPool == Pool!Spec
===============================================================================
