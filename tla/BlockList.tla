------------------------------- MODULE BlockList -------------------------------
(***************************************************************************)
(* The free data blocks of the virtual disk and their users.  Files and    *)
(* directories take blocks with balloc(), write data of their own into     *)
(* them, and give them back with bfree(); the list of free blocks lives    *)
(* partly in the superblock and partly inside the free blocks themselves,  *)
(* which are reused for data as soon as they leave it.                     *)
(***************************************************************************)
EXTENDS Superblock, Sequences

CONSTANTS
  Payloads,     \* what the words of a block may read as once a file or a
                \* directory has written it
  RefillsEmpty  \* whether a block may be freed while the list is empty

ASSUME BlockListAssumption ==
  /\ Payloads \subseteq Words
  /\ RefillsEmpty \in BOOLEAN

VARIABLES
  sb,           \* the superblock in memory
  blk,          \* the data blocks on disk, as the allocator reads them
  held,         \* blocks that belong to a file or directory
  got,          \* what the last balloc() returned
  groups        \* history: the groups spilled to disk, oldest first

vars == <<sb, blk, held, got, groups>>

Init ==
  /\ sb = FormatSuperblock
  /\ blk = [b \in Block |-> FormatWords(b)]
  /\ held = FormatBlocks
  /\ got = DISKFULL
  /\ groups = [g \in 1 .. Sections |-> Section(Sections + 1 - g)]

\* The newest spilled group, which balloc() brings back, or a spill by bfree().
GroupsLoaded ==
  IF sb.s_nfree = 1 /\ groups # << >> THEN SubSeq(groups, 1, Len(groups) - 1)
                                      ELSE groups
GroupsSpilled ==
  IF sb.s_nfree = NICFREE
  THEN Append(groups, [n |-> NICFREE, ids |-> sb.s_free])
  ELSE groups

\* What block b may read as after a write: all of it is new data, or a write of
\* a few bytes replaced the first word and left the others as they were.
Stored(b) == Payloads \cup {[blk[b] EXCEPT !.n = w.n] : w \in Payloads}

\* balloc() that finds a block, and the data its caller stores in it at once.
Balloc ==
  /\ sb.s_nfree # 0
  /\ got' = BallocBlock(sb)
  /\ sb' = BallocSb(sb, blk)
  /\ \E w \in Stored(got') : blk' = [blk EXCEPT ![got'] = w]
  /\ held' = held \cup {got'}
  /\ groups' = GroupsLoaded

\* balloc() that reports a full disk.
BallocFull ==
  /\ sb.s_nfree = 0
  /\ got' = BallocBlock(sb)
  /\ UNCHANGED <<sb, blk, held, groups>>

\* bfree() of a block that its user gives up.
Bfree(b) ==
  /\ RefillsEmpty \/ sb.s_nfree # 0
  /\ sb' = BfreeSb(sb, b)
  /\ blk' = BfreeBlk(sb, blk, b)
  /\ held' = held \ {b}
  /\ groups' = GroupsSpilled
  /\ UNCHANGED got

\* write() or writeback_dir() stores data in a block its file already owns.
Write(b) ==
  /\ \E w \in Stored(b) : blk' = [blk EXCEPT ![b] = w]
  /\ UNCHANGED <<sb, held, got, groups>>

Next ==
  \/ Balloc
  \/ BallocFull
  \/ \E b \in held \ FormatBlocks : Bfree(b) \/ Write(b)

Spec == Init /\ [][Next]_vars

-----------------------------------------------------------------------------
(***************************************************************************)
(* Properties.                                                             *)
(***************************************************************************)

TypeOK ==
  /\ sb \in Filsys
  /\ blk \in [Block -> Words]
  /\ held \subseteq Block
  /\ got \in Block \cup {DISKFULL}
  /\ groups \in Seq(Words)

\* The free groups, oldest first, the one in the superblock last.
Group(g) ==
  IF g <= Len(groups) THEN groups[g] ELSE [n |-> sb.s_nfree, ids |-> sb.s_free]

Level == 1 .. Len(groups) + 1

\* The places of the free list, and the block in each.
Places == {p \in Level \X (0 .. NICFREE - 1) : p[2] < Group(p[1]).n}
BlockAt(p) == Group(p[1]).ids[p[2]]
FreeBlocks == {BlockAt(p) : p \in Places}

\* A block is in at most one place of the free list, and never there while a
\* file or directory still owns it: what would make balloc() hand the same
\* block out twice.
NoBlockTwice ==
  /\ \A p, q \in Places : BlockAt(p) = BlockAt(q) => p = q
  /\ \A p \in Places : BlockAt(p) \notin held

\* No block leaks: one that no file owns can be reached by balloc(), through
\* s_free or through the groups linked on the disk.
NoBlockLost == \A b \in Block : b \in held \/ \E p \in Places : BlockAt(p) = b

\* The list is where balloc() and bfree() look for it.  The stack pointer
\* designates the last of the s_nfree entries; the links on the disk are the
\* groups that were spilled, in order, in spite of all the data written since:
\* the bottom block of each group holds the group below, and the bottom of the
\* oldest reads as the end of the chain.
ChainIntact ==
  /\ sb.s_nfree # 0 => sb.s_pfree = sb.s_nfree - 1
  /\ \A g \in Level \ {1} : blk[Group(g).ids[0]] = groups[g - 1]
  /\ sb.s_nfree # 0 => ~IsLink(blk[Group(1).ids[0]])

\* The contract: a block handed out belonged to nobody, and DISKFULL means that
\* every block of the disk is owned.
Pool == INSTANCE FreePool WITH Ids <- Block, Reserved <- FormatBlocks,
                               Refusal <- DISKFULL

ImplementsPool == Pool!Spec

\* "Allocate a free disk block": balloc() never returns a block that a file or
\* directory owns.
ReturnsFreeBlock == [][Balloc => got' \notin held]_vars
===============================================================================
