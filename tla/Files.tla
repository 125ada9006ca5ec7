--------------------------------- MODULE Files ---------------------------------
(***************************************************************************)
(* Regular files of one directory: class FileOperator over class           *)
(* InodeCache.  Sessions create, open, read, write, close and delete files *)
(* in any order; an inode stays in memory as long as something refers to   *)
(* it, and a deleted file keeps its blocks until its last close.           *)
(*                                                                         *)
(* balloc(), bfree(), ialloc() and ifree() are what FreePool promises, and *)
(* BlockList and InodeList implement: any free identifier, or a refusal    *)
(* when there is none.                                                     *)
(***************************************************************************)
EXTENDS Integers, Sequences, FiniteSets

CONSTANTS
  Users,        \* the sessions; Root may do everything
  Root,
  Gid,          \* u_gid of each session
  Names,        \* file names
  Modes,        \* the permission sets creat() may be asked for
  Cwd,          \* the inode of the current directory
  Inodes,       \* the inodes ialloc() may hand out
  Blocks,       \* the blocks balloc() may hand out
  Hole,         \* 0 in di_addr
  BLOCKSIZ, NADDR, SYSOPENFILE, NOFILE, DIRNUM,
  Sizes         \* the sizes read() and write() are asked for

Kinds == {"R", "W"}
NoIno == 0                      \* d_ino of a free directory entry

ASSUME FilesAssumption ==
  /\ Root \in Users
  /\ Modes \subseteq SUBSET ({"owner", "group", "other"} \X Kinds)
  /\ Cwd \notin Inodes /\ NoIno \notin Inodes \cup {Cwd}
  /\ Names \cap {".", ".."} = {}
  /\ Hole \notin Blocks
  /\ {BLOCKSIZ, NADDR, SYSOPENFILE, NOFILE, DIRNUM} \cup Sizes \subseteq Nat \ {0}
  /\ DIRNUM >= 2

VARIABLES
  disk,         \* the disk inodes
  core,         \* the inodes in memory, with i_count = 0 for one that is not
  blocks,       \* blocks in use
  inodes,       \* inodes in use
  dir,          \* entries of the current directory, "." and ".." first
  ofile,        \* the system open-file table
  uofile        \* u_ofile of each session

vars == <<disk, core, blocks, inodes, dir, ofile, uofile>>

None == SYSOPENFILE + 1         \* a free place in u_ofile
Slot == 1 .. SYSOPENFILE - 1    \* slot 0 of m_ofile is never handed out
Fd == 0 .. NOFILE - 1
Index == 0 .. NADDR - 1

NoAddr == [k \in Index |-> Hole]
Dinode(n, u, m) ==
  [number |-> n, owner |-> u, mode |-> m, size |-> 0, addr |-> NoAddr]
EmptyDinode == Dinode(0, Root, {})
NotInCore == [count |-> 0, di |-> EmptyDinode]
Closed == [count |-> 0, ino |-> Cwd, flag |-> {}, off |-> 0]

AddrBlocks(di) == {di.addr[k] : k \in Index} \ {Hole}
Entry(n, i) == [name |-> n, ino |-> i]
First(S) == CHOOSE x \in S : \A y \in S : x <= y

Init ==
  /\ disk = [i \in Inodes \cup {Cwd} |->
               IF i = Cwd THEN Dinode(1, Root, {}) ELSE EmptyDinode]
  /\ core = [i \in Inodes \cup {Cwd} |->
               IF i = Cwd THEN [count |-> 1, di |-> disk[i]] ELSE NotInCore]
  /\ blocks = {}
  /\ inodes = {Cwd}
  /\ dir = <<Entry(".", Cwd), Entry("..", Cwd)>>
  /\ ofile = [s \in Slot |-> Closed]
  /\ uofile = [u \in Users |-> [fd \in Fd |-> None]]

-----------------------------------------------------------------------------
(***************************************************************************)
(* The inode cache.                                                        *)
(***************************************************************************)

\* The inode as a program sees it: in memory if it is there, else on disk.
Current(i) == IF core[i].count > 0 THEN core[i].di ELSE disk[i]

\* What iget() returns.
Iget(i) == [count |-> core[i].count + 1, di |-> Current(i)]

\* Mutant: iput() of the last reference forgets the blocks of a deleted file.
IputNoBfree(i, c, used) ==
  /\ core' = [core EXCEPT ![i] = IF c.count > 1 THEN [c EXCEPT !.count = @ - 1]
                                                ELSE NotInCore]
  /\ disk' = IF c.count > 1 THEN disk
             ELSE [disk EXCEPT ![i] = IF c.di.number = 0 THEN EmptyDinode ELSE c.di]
  /\ blocks' = used
  /\ inodes' = IF c.count = 1 /\ c.di.number = 0 THEN inodes \ {i} ELSE inodes

\* iput() of inode i, whose copy in memory is c, when the blocks used are in use:
\* the last reference writes the inode back, or frees it if its file is deleted.
Iput(i, c, used) ==
  LET last == c.count = 1
      gone == c.di.number = 0
  IN  /\ core' = [core EXCEPT ![i] = IF last THEN NotInCore
                                             ELSE [c EXCEPT !.count = @ - 1]]
      /\ disk' = IF last THEN [disk EXCEPT ![i] = IF gone THEN EmptyDinode ELSE c.di]
                         ELSE disk
      /\ blocks' = IF last /\ gone THEN used \ AddrBlocks(c.di) ELSE used
      /\ inodes' = IF last /\ gone THEN inodes \ {i} ELSE inodes

-----------------------------------------------------------------------------
(***************************************************************************)
(* Names, permissions and the open-file tables.                            *)
(***************************************************************************)

\* Mutant: the search for a name stops before the last entry.
MatchesAllButLast(n) ==
  {x \in 1 .. Len(dir) - 1 : dir[x].name = n /\ dir[x].ino # NoIno}

\* The indices of the live entries that namei() compares with n.
Matches(n) == {x \in DOMAIN dir : dir[x].name = n /\ dir[x].ino # NoIno}
Exists(n) == Matches(n) # {}
Namei(n) == First(Matches(n))

\* iname(): the first free place after "." and "..", or 0 in a full directory.
\* Entry s of the C++ vector is element s + 1 of dir.
Iname ==
  LET places == {s \in 2 .. DIRNUM - 1 : s >= Len(dir) \/ dir[s + 1].ino = NoIno}
  IN  IF places = {} THEN 0 ELSE First(places)

\* The directory once iname() has copied the name into that place.
Named(n) ==
  IF Iname = 0 THEN dir
  ELSE IF Iname >= Len(dir) THEN Append(dir, Entry(n, NoIno))
  ELSE [dir EXCEPT ![Iname + 1].name = n]

Class(u, di) == IF u = di.owner THEN "owner"
                ELSE IF Gid[u] = Gid[di.owner] THEN "group" ELSE "other"

Access(u, di, kind) == u = Root \/ <<Class(u, di), kind>> \in di.mode

FreeSlots == {s \in Slot : ofile[s].count = 0}
FreeFds(u) == {fd \in Fd : uofile[u][fd] = None}
CanOpen(u) == FreeSlots # {} /\ FreeFds(u) # {}

\* The first free slot and the first free descriptor are linked to inode i.
Link(u, i, flag, off, table) ==
  /\ ofile' = [table EXCEPT ![First(FreeSlots)] =
                 [count |-> 1, ino |-> i, flag |-> flag, off |-> off]]
  /\ uofile' = [uofile EXCEPT ![u][First(FreeFds(u))] = First(FreeSlots)]

\* Mutant: truncation leaves the offsets of open slots alone.
NotRewound(i) == ofile

\* Every open slot of the file goes back to its beginning.
Rewound(i) ==
  [s \in Slot |-> IF ofile[s].count > 0 /\ ofile[s].ino = i
                  THEN [ofile[s] EXCEPT !.off = 0] ELSE ofile[s]]

-----------------------------------------------------------------------------
(***************************************************************************)
(* creat(), open(), close() and delete_file().                             *)
(***************************************************************************)

\* creat() or open() refused for lack of permission: iget() and iput() again.
Denied(u, n, kind) ==
  /\ Exists(n)
  /\ LET i == dir[Namei(n)].ino
     IN  ~Access(u, Current(i), kind) /\ Iput(i, Iget(i), blocks)
  /\ UNCHANGED <<dir, ofile, uofile>>

\* creat() of an existing file truncates it; only then does it look for places
\* in the tables, and without one it gives the inode up again.
CreatTruncate(u, n) ==
  /\ Exists(n)
  /\ LET i == dir[Namei(n)].ino
         c == [Iget(i) EXCEPT !.di.addr = NoAddr, !.di.size = 0]
         used == blocks \ AddrBlocks(Current(i))
     IN  /\ Access(u, Current(i), "W")
         /\ \/ /\ CanOpen(u)
               /\ core' = [core EXCEPT ![i] = c]
               /\ blocks' = used
               /\ Link(u, i, {"W"}, 0, Rewound(i))
               /\ UNCHANGED <<disk, inodes>>
            \/ /\ ~CanOpen(u)
               /\ Iput(i, c, used)
               /\ ofile' = Rewound(i)
               /\ UNCHANGED uofile
  /\ UNCHANGED dir

\* creat() of a new file: ialloc() marks the inode used on disk and the entry
\* is made before the tables are looked at.
CreatNew(u, n, m) ==
  /\ ~Exists(n)
  /\ \E i \in Inodes \ inodes :
       LET c == [count |-> Iget(i).count,
                 di |-> [Dinode(1, u, m) EXCEPT !.addr = Iget(i).di.addr]]
       IN  /\ dir' = [Named(n) EXCEPT ![Iname + 1].ino = i]
           /\ \/ /\ CanOpen(u)
                 /\ core' = [core EXCEPT ![i] = c]
                 /\ disk' = [disk EXCEPT ![i] = Dinode(1, Root, {})]
                 /\ inodes' = inodes \cup {i}
                 /\ Link(u, i, {"W"}, 0, ofile)
                 /\ UNCHANGED blocks
              \/ /\ ~CanOpen(u)
                 /\ disk' = [disk EXCEPT ![i] = c.di]
                 /\ inodes' = inodes \cup {i}
                 /\ UNCHANGED <<core, blocks, ofile, uofile>>

\* creat() when ialloc() fails: the name stays behind in a free entry.
CreatNoInode(n) ==
  /\ ~Exists(n)
  /\ Inodes \subseteq inodes
  /\ dir' = Named(n)
  /\ UNCHANGED <<disk, core, blocks, inodes, ofile, uofile>>

Needs(flag) == (IF "R" \in flag THEN {"R"} ELSE {})
               \cup (IF flag \cap {"W", "A"} # {} THEN {"W"} ELSE {})

\* Mutant: only the first permission bit asked for is checked.
OpenReadCheck(u, n, flag) ==
  /\ Exists(n)
  /\ CanOpen(u)
  /\ LET i == dir[Namei(n)].ino
     IN  /\ "R" \in flag => Access(u, Current(i), "R")
         /\ core' = [core EXCEPT ![i] = Iget(i)]
         /\ Link(u, i, flag, IF "A" \in flag THEN Current(i).size ELSE 0, ofile)
  /\ UNCHANGED <<disk, blocks, inodes, dir>>

Open(u, n, flag) ==
  /\ Exists(n)
  /\ CanOpen(u)
  /\ LET i == dir[Namei(n)].ino
     IN  /\ \A kind \in Needs(flag) : Access(u, Current(i), kind)
         /\ core' = [core EXCEPT ![i] = Iget(i)]
         /\ Link(u, i, flag, IF "A" \in flag THEN Current(i).size ELSE 0, ofile)
  /\ UNCHANGED <<disk, blocks, inodes, dir>>

\* Mutant: the inode is not given up when the tables are full.
OpenNoSlotLeak(u, n) ==
  /\ Exists(n)
  /\ ~CanOpen(u)
  /\ LET i == dir[Namei(n)].ino IN core' = [core EXCEPT ![i] = Iget(i)]
  /\ UNCHANGED <<disk, blocks, inodes, dir, ofile, uofile>>

\* open() without a place in one of the tables.
OpenNoSlot(u, n) ==
  /\ Exists(n)
  /\ ~CanOpen(u)
  /\ LET i == dir[Namei(n)].ino IN Iput(i, Iget(i), blocks)
  /\ UNCHANGED <<dir, ofile, uofile>>

\* Mutant: the descriptor keeps designating the closed slot.
CloseKeepsFd(u, fd) ==
  /\ uofile[u][fd] < SYSOPENFILE
  /\ LET s == uofile[u][fd]
         i == ofile[s].ino
     IN  Iput(i, core[i], blocks) /\ ofile' = [ofile EXCEPT ![s] = Closed]
  /\ UNCHANGED <<dir, uofile>>

Close(u, fd) ==
  /\ uofile[u][fd] < SYSOPENFILE
  /\ LET s == uofile[u][fd]
         i == ofile[s].ino
     IN  /\ Iput(i, core[i], blocks)
         /\ ofile' = [ofile EXCEPT ![s] = Closed]
         /\ uofile' = [uofile EXCEPT ![u][fd] = None]
  /\ UNCHANGED dir

\* Mutant: the entry before the one found is erased.
WithoutPrevious(x) == SubSeq(dir, 1, x - 2) \o SubSeq(dir, x, Len(dir))

Without(x) == SubSeq(dir, 1, x - 1) \o SubSeq(dir, x + 1, Len(dir))

\* Mutant: the entry stays when the file goes.
DeleteKeepsEntry(n) ==
  /\ Exists(n)
  /\ LET i == dir[Namei(n)].ino
     IN  Iput(i, [Iget(i) EXCEPT !.di.number = 0], blocks)
  /\ UNCHANGED <<dir, ofile, uofile>>

\* delete_file(): the last link takes the entry with it, and the entries after
\* it move up.
Delete(n) ==
  /\ Exists(n)
  /\ LET i == dir[Namei(n)].ino
         c == [Iget(i) EXCEPT !.di.number = IF @ > 0 THEN @ - 1 ELSE 0]
     IN  /\ dir' = IF c.di.number = 0 THEN Without(Namei(n)) ELSE dir
         /\ Iput(i, c, blocks)
  /\ UNCHANGED <<ofile, uofile>>

-----------------------------------------------------------------------------
(***************************************************************************)
(* read() and write().                                                     *)
(***************************************************************************)

Least(a, b) == IF a < b THEN a ELSE b
Most(a, b) == IF a < b THEN b ELSE a

\* Mutant: a write goes on beyond the last block of the inode.
ExtentUnbounded(addr, off, n) == off + n

\* The offset where a transfer of n bytes from off ends: both loops stop at the
\* end of di_addr and at a block that is not there.
Extent(addr, off, n) ==
  LET stops == {k \in off \div BLOCKSIZ .. NADDR : k = NADDR \/ addr[k] = Hole}
  IN  IF off \div BLOCKSIZ >= NADDR THEN off
      ELSE Most(off, Least(off + n, First(stops) * BLOCKSIZ))

Read(u, fd, n) ==
  /\ uofile[u][fd] < SYSOPENFILE
  /\ LET s == uofile[u][fd]
         di == core[ofile[s].ino].di
         off == ofile[s].off
     IN  /\ "R" \in ofile[s].flag
         /\ off < di.size
         /\ ofile' = [ofile EXCEPT ![s].off =
                        Extent(di.addr, off, Least(n, di.size - off))]
  /\ UNCHANGED <<disk, core, blocks, inodes, dir, uofile>>

\* What balloc() can make of di_addr while write() fills the blocks touched:
\* free blocks for the missing ones, in order, until the disk is full.
Extended(addr, touched) ==
  {a \in [Index -> Blocks \cup {Hole}] :
     /\ \A k \in Index : addr[k] # Hole \/ k \notin touched => a[k] = addr[k]
     /\ \A j, k \in Index : a[j] # addr[j] =>
           a[j] \notin blocks /\ (a[j] = a[k] => j = k)
     /\ \A j \in touched : a[j] = Hole =>
           /\ Blocks \subseteq blocks \cup AddrBlocks([addr |-> a])
           /\ \A k \in touched : k > j => a[k] = addr[k]}

Write(u, fd, n) ==
  /\ uofile[u][fd] < SYSOPENFILE
  /\ LET s == uofile[u][fd]
         i == ofile[s].ino
         off == ofile[s].off
         touched == Index \cap (off \div BLOCKSIZ .. (off + n - 1) \div BLOCKSIZ)
     IN  /\ ofile[s].flag \cap {"W", "A"} # {}
         /\ \E a \in Extended(core[i].di.addr, touched) :
               LET end == Extent(a, off, n)
               IN  /\ core' = [core EXCEPT ![i].di.addr = a,
                                           ![i].di.size = Most(@, end)]
                   /\ blocks' = blocks \cup AddrBlocks([addr |-> a])
                   /\ ofile' = [ofile EXCEPT ![s].off = end]
  /\ UNCHANGED <<disk, inodes, dir, uofile>>

\* The combinations the shell opens files with: FREAD, and FWRITE | FAPPEND.
OpenModes == {{"R"}, {"W", "A"}}

Next ==
  \/ \E u \in Users, n \in Names :
       \/ \E kind \in Kinds : Denied(u, n, kind)
       \/ CreatTruncate(u, n)
       \/ \E m \in Modes : CreatNew(u, n, m)
       \/ \E flag \in OpenModes : Open(u, n, flag)
       \/ OpenNoSlot(u, n)
  \/ \E n \in Names : CreatNoInode(n) \/ Delete(n)
  \/ \E u \in Users, fd \in Fd :
       \/ Close(u, fd)
       \/ \E n \in Sizes : Read(u, fd, n) \/ Write(u, fd, n)

Spec == Init /\ [][Next]_vars

-----------------------------------------------------------------------------
(***************************************************************************)
(* Properties.                                                             *)
(***************************************************************************)

AllInodes == Inodes \cup {Cwd}

DinodeRecord ==
  [number : 0 .. 1, owner : Users, mode : Modes \cup {{}},
   size : 0 .. NADDR * BLOCKSIZ, addr : [Index -> Blocks \cup {Hole}]]

TypeOK ==
  /\ disk \in [AllInodes -> DinodeRecord]
  /\ core \in [AllInodes -> [count : 0 .. SYSOPENFILE, di : DinodeRecord]]
  /\ blocks \subseteq Blocks
  /\ inodes \subseteq AllInodes
  /\ dir \in Seq([name : Names \cup {".", ".."}, ino : AllInodes \cup {NoIno}])
  /\ Len(dir) \in 2 .. DIRNUM
  /\ ofile \in [Slot -> [count : 0 .. 1, ino : AllInodes,
                         flag : OpenModes \cup {{}, {"W"}}, off : 0 .. NADDR * BLOCKSIZ]]
  /\ uofile \in [Users -> [Fd -> Slot \cup {None}]]

OpenSlots(i) == {s \in Slot : ofile[s].count > 0 /\ ofile[s].ino = i}
Listed(i) == \E x \in 3 .. Len(dir) : dir[x].ino = i

\* i_count of every inode is the number of references to it: what keeps iput()
\* from freeing an inode that an open slot still points to, and from keeping
\* one in memory for ever.
RefCounts ==
  \A i \in AllInodes :
    core[i].count = Cardinality(OpenSlots(i)) + (IF i = Cwd THEN 1 ELSE 0)

\* Every descriptor designates an open slot of its own, and every open slot can
\* be closed by someone.
SlotsOwned ==
  /\ \A s \in Slot : ofile[s].count > 0 <=>
       \E u \in Users, fd \in Fd : uofile[u][fd] = s
  /\ \A u, v \in Users, f, g \in Fd :
       uofile[u][f] = uofile[v][g] /\ uofile[u][f] # None => u = v /\ f = g

\* A block belongs to one place of one file, and is in use exactly as long as
\* that file is: two files never share a block, a deleted file keeps its blocks
\* until its last close, and no block is left behind.
BlocksAccounted ==
  /\ \A i, j \in inodes, k, l \in Index :
       Current(i).addr[k] = Current(j).addr[l] /\ Current(i).addr[k] # Hole
         => i = j /\ k = l
  /\ blocks = UNION {AddrBlocks(Current(i)) : i \in inodes}

\* An inode is in use exactly as long as an entry or an open slot refers to it,
\* and an entry never leads to a deleted or a free one.
InodesAccounted ==
  /\ inodes = {i \in AllInodes : i = Cwd \/ Listed(i) \/ OpenSlots(i) # {}}
  /\ \A i \in AllInodes : Listed(i) <=> Current(i).number > 0 /\ i # Cwd

\* A file's blocks are the ones its size covers, and no descriptor stands beyond
\* its end: a write never leaves a hole, even after another session truncated
\* the file.
NoHoles ==
  /\ \A i \in Inodes, k \in Index :
       Current(i).addr[k] # Hole <=> k * BLOCKSIZ < Current(i).size
  /\ \A s \in Slot : ofile[s].count > 0 =>
       ofile[s].off <= Current(ofile[s].ino).size

\* A name leads to one file.
NamesUnique ==
  \A x, y \in DOMAIN dir :
    dir[x].ino # NoIno /\ dir[y].ino # NoIno /\ dir[x].name = dir[y].name => x = y

\* Whoever holds a descriptor may do what it allows, or created the file.
RightsHeld ==
  \A u \in Users, fd \in Fd : uofile[u][fd] # None =>
    LET f == ofile[uofile[u][fd]]
    IN  \A kind \in Needs(f.flag) :
          Access(u, core[f.ino].di, kind) \/ u = core[f.ino].di.owner

\* The entries "." and ".." of the directory are never taken for a file.
DotsStay == dir[1] = Entry(".", Cwd) /\ dir[2] = Entry("..", Cwd)
================================================================================
