------------------------------ MODULE Directories ------------------------------
(***************************************************************************)
(* Class DirectoryManager, with the entries creat() makes and              *)
(* delete_file() erases.  The entries of a directory live in up to three   *)
(* places: m_dir while it is the current one, m_dir_cache once it has been *)
(* visited, and its block on the disk, which holds only so many and is     *)
(* written when the directory is left.  The program may be halted and      *)
(* started again, which leaves nothing but the blocks.                     *)
(*                                                                         *)
(* cd ~ and find are sequences of Chdir.  An inode is allocated and freed  *)
(* as FreePool says; the files that open slots keep alive are in Files.    *)
(***************************************************************************)
EXTENDS Integers, Sequences, FiniteSets

CONSTANTS
  Names,        \* names a command may give; "." and ".." only to cd
  Inodes, Root,
  DIRENTS,      \* DIRENTS_PER_BLOCK, the entries one block holds
  DIRNUM,       \* the entries iname() will make in a directory
  Removed       \* what rm is asked to delete: "file", "empty", "full"

NoIno == 0      \* d_ino of an empty entry

ASSUME DirectoriesAssumption ==
  /\ IsFiniteSet(Inodes) /\ Root \in Inodes /\ NoIno \notin Inodes
  /\ Names \cap {".", ".."} = {}
  /\ DIRENTS \in Nat /\ DIRENTS >= 2
  /\ DIRNUM \in Nat /\ DIRNUM >= 2
  /\ Removed \subseteq {"file", "empty", "full"}

VARIABLES
  kind,         \* what each inode is on the disk
  cur,          \* m_cur_path_inode
  ents,         \* m_dir.entries
  cache,        \* m_dir_cache
  block         \* for each directory, the entries its block and di_size give

vars == <<kind, cur, ents, cache, block>>

Uncached == << >>
Entry(n, i) == [name |-> n, ino |-> i]
Dots(i, up) == <<Entry(".", i), Entry("..", up)>>
First(S) == CHOOSE x \in S : \A y \in S : x <= y

Init ==
  /\ kind = [i \in Inodes |-> IF i = Root THEN "dir" ELSE "free"]
  /\ cur = Root
  /\ ents = Dots(Root, Root)
  /\ cache = [i \in Inodes |-> IF i = Root THEN ents ELSE Uncached]
  /\ block = cache

-----------------------------------------------------------------------------
(***************************************************************************)
(* Entries: namei(), iname(), writeback_dir() and load_dir().              *)
(***************************************************************************)

Matches(n) == {x \in DOMAIN ents : ents[x].name = n /\ ents[x].ino # NoIno}
Exists(n) == Matches(n) # {}
Found(n) == ents[First(Matches(n))].ino

\* Mutant: iname() always adds an entry at the end.
InameAppends ==
  IF Len(ents) < DIRNUM THEN Len(ents) ELSE 0

\* iname(): the first empty entry after "." and "..", or 0.  Entry s of the C++
\* vector is element s + 1 of ents.
Iname ==
  LET places == {s \in 2 .. DIRNUM - 1 : s >= Len(ents) \/ ents[s + 1].ino = NoIno}
  IN  IF places = {} THEN 0 ELSE First(places)

\* The entries once iname() has copied the name into that place.
Named(n) ==
  IF Iname = 0 THEN ents
  ELSE IF Iname >= Len(ents) THEN Append(ents, Entry(n, NoIno))
  ELSE [ents EXCEPT ![Iname + 1].name = n]

Without(x) == SubSeq(ents, 1, x - 1) \o SubSeq(ents, x + 1, Len(ents))

\* What a block keeps of a list of entries.
Stored(s) == SubSeq(s, 1, IF Len(s) < DIRENTS THEN Len(s) ELSE DIRENTS)

\* Mutant: the directory that is left is not written to its block.
WrittenNowhere == block

Written == [block EXCEPT ![cur] = Stored(ents)]

\* Mutant: writeback_dir() leaves an older list in m_dir_cache.
CachedIfNew == [cache EXCEPT ![cur] = IF @ = Uncached THEN ents ELSE @]

Cached == [cache EXCEPT ![cur] = ents]

\* What load_dir() reads for directory i.
Loaded(i, c, b) == IF c[i] # Uncached THEN c[i] ELSE Stored(b[i])

-----------------------------------------------------------------------------
(***************************************************************************)
(* Operations.                                                             *)
(***************************************************************************)

\* Mutant: the new directory is its own parent.
NewDots(i) == Dots(i, i)

\* The entries mkdir() gives a new directory.
BirthEntries(i) == Dots(i, cur)

Mkdir(n) ==
  /\ ~Exists(n)
  /\ Iname # 0
  /\ \E i \in Inodes :
       /\ kind[i] = "free"
       /\ kind' = [kind EXCEPT ![i] = "dir"]
       /\ ents' = [Named(n) EXCEPT ![Iname + 1].ino = i]
       /\ block' = [block EXCEPT ![i] = Stored(BirthEntries(i))]
       /\ cache' = [cache EXCEPT ![i] = BirthEntries(i)]
  /\ UNCHANGED cur

\* The entry that creat() makes, in place 0 when iname() finds none.
Creat(n) ==
  /\ ~Exists(n)
  /\ \E i \in Inodes :
       /\ kind[i] = "free"
       /\ kind' = [kind EXCEPT ![i] = "file"]
       /\ ents' = [Named(n) EXCEPT ![Iname + 1].ino = i]
  /\ UNCHANGED <<cur, cache, block>>

\* mkdir() or creat() that gets no inode or no block: the name is left behind in
\* an empty entry.
NoSpace(n) ==
  /\ ~Exists(n)
  /\ ents' = Named(n)
  /\ UNCHANGED <<kind, cur, cache, block>>

\* What an inode is to someone about to delete it.
Class(i) ==
  IF kind[i] # "dir" THEN "file"
  ELSE IF \E x \in 3 .. Len(Loaded(i, cache, block)) :
            Loaded(i, cache, block)[x].ino # NoIno
       THEN "full" ELSE "empty"

\* delete_file() of an entry other than "." and "..": it does not look at what
\* the inode is.  The disk inode is zeroed, but m_dir_cache keeps its list.
Rm(n) ==
  /\ Exists(n)
  /\ Class(Found(n)) \in Removed
  /\ ents' = Without(First(Matches(n)))
  /\ cache' = [cache EXCEPT ![cur] = ents']
  /\ kind' = [kind EXCEPT ![Found(n)] = "free"]
  /\ block' = [block EXCEPT ![Found(n)] = << >>]
  /\ UNCHANGED cur

\* Mutant: any inode will do as a directory.
ChdirAnywhere(n) ==
  /\ Exists(n)
  /\ cur' = Found(n)
  /\ block' = Written
  /\ ents' = Loaded(cur', Cached, block')
  /\ cache' = [Cached EXCEPT ![cur'] = ents']
  /\ UNCHANGED kind

\* chdir(): the directory that is left is written back, the other one loaded.
Chdir(n) ==
  /\ Exists(n)
  /\ kind[Found(n)] = "dir"
  /\ cur' = Found(n)
  /\ block' = Written
  /\ ents' = Loaded(cur', Cached, block')
  /\ cache' = [Cached EXCEPT ![cur'] = ents']
  /\ UNCHANGED kind

\* halt(), whose chdir("..") writes the current directory back, and the next
\* start of the program, which loads the root.
Restart ==
  /\ Exists("..")
  /\ block' = IF kind[Found("..")] = "dir" THEN Written ELSE block
  /\ cur' = Root
  /\ ents' = Stored(block'[Root])
  /\ cache' = [i \in Inodes |-> IF i = Root THEN ents' ELSE Uncached]
  /\ UNCHANGED kind

Next ==
  \/ \E n \in Names : Mkdir(n) \/ Creat(n) \/ NoSpace(n) \/ Rm(n)
  \/ \E n \in Names \cup {".", ".."} : Chdir(n)
  \/ Restart

Spec == Init /\ [][Next]_vars

-----------------------------------------------------------------------------
(***************************************************************************)
(* Properties.                                                             *)
(***************************************************************************)

TypeOK ==
  /\ kind \in [Inodes -> {"free", "file", "dir"}]
  /\ cur \in Inodes /\ kind[cur] = "dir"
  /\ ents \in Seq([name : Names \cup {".", ".."}, ino : Inodes \cup {NoIno}])
  /\ Len(ents) \in 2 .. DIRNUM
  /\ \A i \in Inodes : Len(cache[i]) <= DIRNUM /\ Len(block[i]) <= DIRENTS

Dirs == {i \in Inodes : kind[i] = "dir"}

\* The list a user of directory d sees now, or will see on entering it.
Seen(d) == IF d = cur THEN ents ELSE Loaded(d, cache, block)

Live(s) == {s[x] : x \in {y \in DOMAIN s : s[y].ino # NoIno}}
Listing(d) == {e \in Live(Seen(d)) : e.name \notin {".", ".."}}

\* A directory that has been left is complete on the disk, so that nothing in
\* it depends on the memory of the running program.
KeptOnDisk == \A d \in Dirs \ {cur} : Live(Stored(block[d])) = Live(Seen(d))

\* Every file and directory but the root is listed exactly once, so that it can
\* be found, and deleted only once; and every entry leads to one.
ListedOnce ==
  /\ \A i \in Inodes \ {Root} : kind[i] # "free" <=>
       \E d \in Dirs : \E e \in Listing(d) : e.ino = i
  /\ \A d, f \in Dirs : \A e \in Listing(d), g \in Listing(f) :
       e.ino = g.ino => d = f /\ e = g

\* The directory k steps up from d.
Up(d, k) ==
  LET up[j \in 0 .. k] == IF j = 0 THEN d ELSE Seen(up[j - 1])[2].ino
  IN  up[k]

\* From every directory, ".." leads to the root, and from the root nowhere else:
\* the loop of cd ~, which climbs until the inode stops changing, ends there.
UpLeadsToRoot ==
  /\ \A d \in Dirs : Up(d, Cardinality(Inodes)) = Root
  /\ \A d \in Dirs : Up(d, 1) = d => d = Root

\* The three copies of the entries behave as one tree, also across a restart.
Tree == INSTANCE NameTree WITH
  entries <- [d \in Inodes |-> IF kind[d] = "dir" THEN Listing(d) ELSE {}],
  place <- cur

ImplementsTree == Tree!Spec
================================================================================
