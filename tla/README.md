# VFS-cpp in TLA+

VFS-cpp is a UNIX-like file system inside one file of the host, with a shell on
top of it.  It is a single-threaded program: what makes it hard is not
concurrency but state that is kept in several copies (superblock and free
blocks, inode on disk and in memory, directory in memory, in a cache and on
disk, prompt and current directory), shared tables with few places, and
commands that fail halfway.  Several users can be logged in and hold files open
at the same time, so their operations interleave, and a command is a sequence of
calls each of which may fail.

## 1. Inventory

| Component | State | Operations | Used by |
|---|---|---|---|
| `VirtualDisk` (layer 1) | the host file; superblock, inode area, data blocks | `format`, `install` | everything |
| `BlockManager` (layer 2) | `filsys m_superblock`: stack of free-block groups, stack of free inodes | `balloc`, `bfree`, `ialloc`, `ifree` | InodeCache, DirectoryManager, FileOperator |
| `InodeCache` (layer 3) | inodes in memory with `i_count`, by hash | `iget`, `iput` | all layers above |
| `FileOperator` (layer 4) | system open-file table `m_ofile`, each user's `u_ofile` | `access`, `creat`, `open`, `close`, `delete_file`, `read`, `write` | UserManager, Shell |
| `DirectoryManager` (layer 5) | `m_dir` (current entries), `m_dir_cache`, `m_cur_path_inode` | `namei`, `iname`, `mkdir`, `chdir`, `dir_list` | FileOperator, UserManager, Shell |
| `UserManager` (layer 6) | `m_users`, `m_user_id`, password table | `login`, `logout`, `halt` | Core, Shell |
| `Core` | the layers | `init`, `exit` | `main` |
| `Shell` (layer 7) | `s_cwd`, `s_path2fd` | the commands; `resolve_path`, `unwind_path`, `navigate_path`, `read_entire_file` | `main` |
| `Editor` | lines and cursor | `run` | Shell (`write` without text) |

What makes each component correct, and what is hard about it:

- **BlockManager**: a block or inode handed out belongs to nobody, and a refusal
  means that none is left.  The free-block list is stored inside the free blocks,
  which files overwrite; the inode stack forgets inodes when it is full and
  relies on a later scan; `s_pinode` is 16 bits wide and wraps below zero.
- **InodeCache and FileOperator**: an inode stays as long as something refers to
  it, its blocks go when the last reference to a deleted file goes, and every
  early return gives back what it took.  Tables, inodes and blocks can run out
  in the middle of an operation.  What `read` returns is what was written there
  last, although blocks keep the bytes of their former files.
- **DirectoryManager**: the three copies of a directory agree, nothing is lost on
  a restart, the directories form a tree whose ".." leads to the root.
- **UserManager**: an open slot belongs to one session and is closed with it.
  User id 0 is the root and also marks a free place, in the table of sessions
  and in the password table.  An account that was given stays.
- **Shell**: a command on a path leaves the current directory alone and works
  where the path says; the prompt tells the truth; the descriptors remembered
  for paths are open and on the right files, and no other is left open.
- **Editor**: the lines and the cursor are one text with a position, also where
  lines are split and joined.

`PROJECT.json` lists every hazard at its line, with the properties that cover it.

## 2. Modules

| Module | Models | State |
|---|---|---|
| `Superblock` | struct `filsys`, `format()`, and the four operations of BlockManager as operators from a superblock to a superblock | none |
| `FreePool` | abstract: what any allocator promises | `held`, `got` |
| `BlockList` | `balloc`, `bfree` and the users of blocks, who write data into them | `sb`, `blk`, `held`, `got`; history `groups` |
| `InodeList` | `ialloc`, `ifree`, and the `mkdir` that fails between them | `sb`, `num` (di_number on disk), `held`, `got` |
| `BlockListProofs`, `InodeListProofs` | the theorems about BlockList and about InodeList | |
| `Files` | FileOperator over InodeCache in one directory, any number of sessions | `disk`, `core`, `blocks`, `inodes`, `dir`, `ofile`, `uofile` |
| `FilesProofs` | the theorems about Files and Bytes | |
| `FlatFile` | abstract: files as sequences of bytes, places with offsets in them | `content`, `cursor`, `got` |
| `Bytes` | extends `Files`: the bytes in the blocks, `read` and `write` with their buffers | those of `Files`, `data`, `buf` |
| `Commands` | extends `Files`: the file commands of the shell call by call, `s_path2fd`, login and logout | those of `Files`, `live`, `cur`, `fdOf`, `pc`, `job` |
| `CommandsProofs` | the theorem about Commands | |
| `Sessions` | UserManager and the slots its sessions hold | `users`, `cur`, `open`, `phase` |
| `Accounts` | extends `Sessions`: the password table and its file, `reg`, `halt`, killed processes and restarts | those of `Sessions`, `pwd`, `saved`, `given` |
| `AccountsProofs` | the theorems about Sessions and Accounts | |
| `NameTree` | abstract: a tree of names with a place in it | `kind`, `entries`, `place` |
| `Directories` | DirectoryManager with its cache and the blocks on disk, restarts | `kind`, `cur`, `ents`, `cache`, `block` |
| `DirectoriesProofs` | the theorems about Directories | |
| `Paths` | the walks of the shell along paths, the prompt | `kind`, `kids`, `cur`, `prompt` |
| `PathsProofs` | the theorems about Paths and Find | |
| `Find` | extends `Paths`: the recursive search of `find` | |
| `TextBuffer` | abstract: a text with a cursor | `original`, `text`, `pos`, `done` |
| `Editor` | the editor's lines, cursor and keys | `existing`, `lines`, `line`, `col`, `prefix`, `ended`, `running` |
| `EditorProofs` | the theorems about Editor | |
| `MC...` | values of the constants for TLC | |

How they compose.  `Superblock` holds the definitions that `BlockList` and
`InodeList` share.  `BlockList` and `InodeList` implement `FreePool` (property
`ImplementsPool`, by `INSTANCE ... WITH`); `Files` and `Directories` allocate as
`FreePool` says, so that they are not repeated over every state of the lists.
`Directories` implements `NameTree` (`ImplementsTree`), and `Paths` walks on such
a tree.  `Sessions` keeps of `Files` only who holds which slot.  `Bytes` adds to
`Files` what is in the blocks, and implements `FlatFile` (`ImplementsFlat`): the
file of the refinement is the inode, its content what the blocks of `di_addr`
hold up to `di_size`, in memory or on disk.  `Commands` runs the operations of
`Files` as the shell does; `Accounts` those of `Sessions` by password.  `Editor`
implements `TextBuffer` (`ImplementsText`): the lines joined are the text, the
lengths of the lines above plus the column the position.

Correspondence to the code.  One action is one call of the operation it is named
after, with all it calls (in `Editor`, one key): `Delete` in `Files` is `delete_file()` with `iget`, the
erasure, and an `iput` that may free blocks and inode.  Ways through one function
that end differently are actions of their own (`CreatTruncate`, `CreatNew`,
`CreatNoInode`, `Denied`, `OpenNoSlot`).  Calls that return at once without
changing anything have no action.  In `Commands` a command takes one action for
each call of FileOperator, `pc` says which comes next, and `job` has the local
variables of the command.

Points where the model follows the code closely:

- the word after `s_free` is `s_ninode` (`FreeWord`, `SetFreeWord`), because the
  code can write there once the list has been empty;
- a data block is what the allocator would read of it, a count and block numbers;
  files may store anything from `Payloads` in it, or only the first bytes
  (`Stored` in BlockList);
- `ialloc` writes the inode on disk at once, `iput` at the last reference;
- `iname` leaves the name in an empty entry when the allocation after it fails
  (`NoSpace`, `CreatNoInode`), and returns 0 in a full directory;
- `resolve_path` returns an empty name after a failure, and its callers go on;
- slot 0 of `m_ofile` is never used;
- `write` tries `creat` when `open` fails, whatever the reason (`WriteCreat`);
- `creat` binds its path to a descriptor that may only write, `read` reads
  through whatever descriptor its path is bound to (`ReadBound`);
- a byte of the keyboard that follows an Escape and is not "[" ends the editing
  and is lost; at the end of the input there is only EOF, which the editor
  ignores outside of such a sequence (`Finish`, `Ignored`);
- `getline` gives no line after a final newline (`Split`);
- `s_cwd` is the sequence of what stands between its slashes: `Shorter` cuts it at the
  last one, and `Longer` adds a component, with no slash before it where `s_cwd` ends in
  one, so that an empty component is lost when another one follows.

## 3. Runs

| Run | Module, bounds | Shows |
|---|---|---|
| `blocks` | MCBlockList: groups of 2, 8 blocks, inode fields idle | the free-block list never duplicates or loses a block, its links survive all writes, it implements `FreePool`; given that no block is freed while the list is empty (`RefillsEmpty = FALSE`) |
| `blocks_full` | 7 blocks, `RefillsEmpty = TRUE` | **violation**: after a full disk, `balloc` hands out a block in use |
| `inodes` | InodeList: stack of 2, 9 inodes | the inode list implements `FreePool` without any such condition |
| `files` | MCFiles: root and a plain user, 2 names, 2 inodes, 2 blocks, a descriptor each, 2 slots | references, blocks, inodes, entries, offsets, slots and rights |
| `commands` | MCCommands: as `files`, with 2 descriptors and 3 slots, two modes, one path to each file, a login after a logout | the map from paths to descriptors agrees with the open files; every command returns |
| `commands_append` | the same | **violation**: `write` empties a file it should append to |
| `bytes` | MCBytes: root, 1 name, 2 inodes, 2 blocks of 2 bytes, writes of 2 and 3, 2 slots | files are sequences of bytes |
| `editor` | MCEditor: 16 keys, five texts to begin with, up to 3 characters | lines and cursor are a text with a position |
| `sessions` | MCAccounts: uids 0, 1 and 2, 3 places, 3 slots, 4 accounts, `RootApart` | slots stay with their session; `halt` closes all; accounts stay, through kills and restarts |
| `sessions_root` | Sessions: uids 0 and 1 | **violation**: the next login takes over the place of root |
| `directories` | MCDirectories: root and 3 inodes, 2 names, 4 entries in a block | the three copies act as one tree, across restarts |
| `paths` | Find: 5 inodes, names a and b, paths of up to 3 components, ".." in those of `cd` | walks, unwinding and prompt agree; `cd` goes where its path leads or stays; `find` lists what is there |

Why the bounds are enough.  Groups of two blocks give a chain three groups deep
whose last group is not full, so that spills, loads, and the end of the chain all
occur.  A stack of two inodes with five to hand out overflows, underflows and is
refilled both fully and partly.  Two descriptors on two inodes let a file be
deleted or truncated while another descriptor is open; one file can take all
blocks, so `write` runs full; the tables run full, in `files` and `commands` the
session's first, in `bytes` the system's.  A write of two bytes fills a block, one
of three goes over its end, and two of them over the end of `di_addr`; a name
for two inodes lets a file be deleted while it is open and another one take its
name.  Three characters give every division into lines of a text with two
newlines and a cursor at, before and after each of them.  Three inodes beside the root
give a chain, siblings and a file; a block of four entries holds both names.
Paths of three components walk two directories deep before the last name.

Deadlock is checked where the system can always go on (`blocks`, `inodes`,
`directories`).  `Files` can stop in a model where no name is left to act on,
the editor ends, `Sessions` alone ends with `halt`, and in `Paths` the guard `Room`
bounds the inodes, so their configurations turn the check off.  `commands` and
`sessions` check it: the shell can always go on or be given a command.

Fairness.  `CommandsSpec` assumes weak fairness of `Step`, the actions by which a
command under way goes on: the program is one thread that runs until it waits at
the prompt.  Nothing is assumed of `Command`: no user need type anything.  Under
it every command returns (`CommandReturns`).  `Editor` assumes that the loop reads
on once its input has ended, for `getchar` does not wait then, and nothing of the
keys before.  The loop of `cd ~` ends because of the invariant `UpLeadsToRoot`.  The calls of
`find` inside one another end because no way down the tree is as long as there are
inodes: the model stops them there (`Levels`), and `FindTrue` says that nothing is
missed.

### Findings

The runs marked as violations show disagreements between the code and its
comments, documents or tests; `PROJECT.json` describes each with its lines.  The
configurations below are not in its list of runs.  TLC refutes them too:

| Configuration | Property refuted | What happens |
|---|---|---|
| `MCFilesFull.cfg` (MCFiles) | `DotsStay` | `iname` returns 0 in a full directory, and `creat` puts its file into entry 0, the entry "." (FileOperation.cpp:100; DirectoryOpreation.h:29 says 0 is the failure) |
| `MCCommandsRead.cfg` (MCCommands) | `ReadShowsAll` | after `creat` and `write` of a path, its first `read` goes through the descriptor of `creat`, which may not read, and shows nothing (the help at Shell.cpp:217 says "default: all bytes") |
| `MCCommandsCd.cfg` (MCCommands) | `MapExact` | the map is keyed by the path as typed: the same path typed in another directory uses the descriptor of the first file (Shell.h:26 says "Map full path") |
| `MCCommandsRelogin.cfg` (MCCommands) | `MapExact` | a login over another session keeps the map, whose descriptors are those of the other session |
| `MCEditorOpened.cfg` (MCEditor) | `OpenedWhole` | a newline at the end of the file is dropped when the editor loads it, and so when it saves it |
| `MCEditorEof.cfg` (MCEditor) | `EndsWithInput` | the editor does not end when its input does |
| `MCAccountsLong.cfg` (MCAccounts) | `AccountsKept` | `reg` cuts a password to 11 characters and `login` compares all that is typed: the account cannot be used |
| `MCSessionsHalt.cfg` (Sessions) | `HaltLogsOutAll` | `halt` looks sessions up by uid and finds a free place instead of the root's, whose files stay open |
| `MCSessionsTwice.cfg` (Sessions) | `LogoutEndsSession` | a user logged in twice logs out the other session |
| `MCDirectoriesCut.cfg` (MCDirectories) | `KeptOnDisk` | `writeback_dir` keeps the 25 entries a block holds of up to 128 (DirectoryOpreation.cpp:44; DESIGN.md:124 promises 128) |
| `MCDirectoriesRm.cfg` (MCDirectories) | `ListedOnce` | `rm` of a directory with contents orphans them |
| `MCPathsUp.cfg` (Paths) | `Restored` | a command on a path with ".." leaves the shell in another directory: its depth is negative, and `unwind_path` does nothing (Shell.cpp:84) |
| `MCPathsUp.cfg` (Paths; this one is found first, `tlc -continue` shows both) | `CdStays` | `cd ../missing` ends in the parent: `navigate_path` does not lower its depth below 0, so that `unwind_path(0)` has nothing to undo (Shell.cpp:144-158) |
| `MCPathsEmpty.cfg` (Paths) | `PromptTrue` | an empty component, from a leading "/" or a "//", is a level for the depth and is lost from `s_cwd` (Shell.cpp:109): after `creat /b/f` in /a the shell is in /a and the prompt says "/" (Shell.h:22 calls `s_cwd` the current working directory) |
| `MCPathsFull.cfg` (Paths) | `PromptTrue` | a `mkdir` that fails on the way is counted in the depth and in the prompt |
| `MCPathsUnnamed.cfg` (Paths) | `NoneUnnamed` | `mkdir f/x`, where `f` is a file, makes an entry with an empty name |

What the passing runs leave out is exactly this: `blocks` does not free into an
empty list; in `files` the directory has room; in `commands` a file is typed by one
path and a login follows a logout; in `sessions` nobody logs in beside the root,
and passwords fit; `directories` keeps within a block and does not remove full
directories; `paths` has no ".." in the paths of commands, no empty component in any
path, and room for every `mkdir`, and says nothing of where the shell is after a `cd`
that climbs above where it began and then fails.  Neither do the other properties of
paths say everything: `CreatesWhereNamed` is about paths whose way is not blocked by
a file.

## 4. Proofs

TLC checks the instances of section 3; the theorems here hold for every value of
the constants that their assumptions allow, and are proved with TLAPS.  What the
code does not keep in every case is proved under a hypothesis, written in the
theorem; each rules out one of the findings and no more, but for the one on ".": one
property speaks of paths of names only.

| Theorem | States | Hypothesis |
|---|---|---|
| `BlockListProofs`: `TypeCorrect`, `NeverTwice`, `NeverLost`, `ChainKept` | `TypeOK`, `NoBlockTwice`, `NoBlockLost`, `ChainIntact` | `~RefillsEmpty` |
| `BlockListProofs`: `ReturnsFree`, `Implements` | `ReturnsFreeBlock`, `ImplementsPool` | `~RefillsEmpty` |
| `InodeListProofs`: `TypeCorrect`, `PointerCorrect`, `NeverTwice`, `MarkedOnDisk`, `NeverLost`, `Implements` | `TypeOK`, `PointerAtTop`, `NoInodeTwice`, `UsedOnDisk`, `NoInodeLost`, `ImplementsPool` | none |
| `FilesProofs`: `TypeCorrect`, `CountsRight`, `SlotsRight`, `BlocksRight`, `HolesNever`, `RightsStay`, `NamesRight` | `TypeOK`, `RefCounts`, `SlotsOwned`, `BlocksAccounted`, `NoHoles`, `RightsHeld`, `NamesUnique` | none |
| `FilesProofs`: `DotsRight`, `InodesRight` | `DotsStay`, `InodesAccounted` | `Room` |
| `FilesProofs`: `ImplementsFlatFile` | `ImplementsFlat` (of `Bytes`) | none |
| `AccountsProofs`: `TypeCorrect` | `TypeOK` | none |
| `AccountsProofs`: `HeldOnce`, `HaltClosesAll` | `SlotsHeldOnce`, `HaltLogsOutAll` | `RootApart` |
| `AccountsProofs`: `AccountsStay` | `AccountsKept` | `KeepsWhole` |
| `DirectoriesProofs`: `TypeCorrect`, `OnDisk`, `Listings`, `ClimbEnds`, `Implements` | `TypeOK`, `KeptOnDisk`, `ListedOnce`, `UpLeadsToRoot`, `ImplementsTree` | `Fits` |
| `CommandsProofs`: `MapCorrect` | `MapExact` | `OnePath`, `Room` |
| `EditorProofs`: `CursorStays`, `ImplementsTextBuffer` | `CursorInText`, `ImplementsText` | none |
| `PathsProofs`: `TypeCorrect`, `FindsAll` | `TypeOK`, `FindTrue` (of `Find`) | none |
| `PathsProofs`: `PromptRight` | `PromptTrue` | `~MkdirFails`, no "" in a path |
| `PathsProofs`: `ComesBack` | `Restored` | `~MkdirFails`, no "" in a path, no ".." in `Parts` |
| `PathsProofs`: `CdGoesThere` | `CdFollows` | no "" in a path |
| `PathsProofs`: `CreatesThere` | `CreatesWhereNamed` | `~MkdirFails`, no "." or ".." in `Parts` |

| Hypothesis | Says | Without it |
|---|---|---|
| `~RefillsEmpty` | no block is freed while the free list is empty | `blocks_full` |
| `Room` | the directory has a place for every name | `MCFilesFull.cfg` |
| `RootApart` | nobody logs in beside the root | `sessions_root`, `MCSessionsHalt.cfg` |
| `KeepsWhole` | the password table keeps passwords as they are typed | `MCAccountsLong.cfg` |
| `Fits` | a block holds the entries of a directory with every name, and no directory with contents is removed | `MCDirectoriesCut.cfg`, `MCDirectoriesRm.cfg` |
| `OnePath` | a path leads to one file and no other path to that one, and a login follows a logout | `MCCommandsCd.cfg`, `MCCommandsRelogin.cfg` |
| `~MkdirFails` | inodes do not run out in the middle of a path | `MCPathsFull.cfg` |
| no ".." in `Parts` | the paths of commands only go down | `MCPathsUp.cfg` |
| no "" in a path | no path begins with "/" or has "//" in it | `MCPathsEmpty.cfg` |
| no "." in `Parts` | nothing of the code: `CreatesWhereNamed` reads paths of names (`Leads`) | |

The assumptions on the constants are no stronger than what the code compiles with:

- `SuperblockAssumption`: a list of at least one entry, sizes that fit in 16 bits,
  more blocks than one group takes, four inodes or more; `BlockListAssumption`:
  what files write is words.
- `FilesAssumption`: positive sizes, a place for "." and "..", ids that no inode,
  block or name of a command has; nothing is said to be finite.
- `BytesAssumption`: buffers of bytes, as long as `write` is asked to write, and
  finitely many blocks, because what is left of them is counted.  Only the last part
  of `FilesProofs`, on `Bytes`, uses it.
- `SessionsAssumption`, `AccountsAssumption`: a place and a descriptor at least, a
  password table that holds the accounts `format` writes.
- `DirectoriesAssumption`: finitely many inodes, a block and a directory that hold
  "." and "..", names that are neither.
- `CommandsAssumption`: paths lead to names, and the default mode is a mode.
- `EditorAssumption`: keys and texts of characters.
- `PathsAssumption`: finitely many inodes, which the superblock numbers, and the root
  is one of them; nothing is said of the components.

### The arguments

**InodeList.**  The inductive invariant `IInv` is the conjunction of the properties
and of the bounds they need.  None is inductive alone: that a popped inode is not
in use needs `NoInodeTwice`; that a refill does not stack a used one needs
`UsedOnDisk`; that a refusal is justified needs `NoInodeLost`, and that one needs
`s_rinode` never to pass a free inode that is not stacked.  The invariant is stated
of the parts of a superblock (`StackOK`, `ListOK`) and not of the variable, because
`ialloc` pops from an intermediate superblock, the refilled one.  The lemmas go in
that order: lists apart from records, the fields of the record, the operations,
the actions, and the theorems.

**BlockList.**  The chain of groups is treated apart from the superblock and the
blocks that hold it: `ChainOK` relates a number of groups, their contents, what the
blocks read as, and the blocks in use.  Each free block is in one place of one
group (`FreeOnce`), and the bottom block of a group reads as the group below it
(`Linked`), which no write to a block in use can change, because the bottom blocks
are free.  Popping, loading, pushing, spilling and writing each keep it (`PopOne`,
`PopLast`, `PopLoad`, `PushOne`, `Spill`, `WriteHeld`).  That `format` lays out such
a chain (`InitOK`) is arithmetic: every block number has one quotient and one
remainder by the size of a group.

**Files.**  Every step changes at most one inode, and what it makes of it depends on
the operation; so the lemmas are about an inode that becomes another one, each with
the part of the invariant it disturbs (`BlocksStep`, `RefStep`, `RightsStep`,
`HolesStep`).  `IInv` adds to the properties that an inode that is not used is blank,
that a deleted one is still open, and that a live entry leads to an inode in use:
without the first a new file could begin with the blocks of an old one, without the
others `iput` could free an inode that an entry names.  `RoomInv` is proved beside it.
It says that a directory with room has at most one empty entry, so that its places
run out no sooner than the names do (`PlaceForNew`, by the pigeonhole principle).

**Bytes.**  The content of a file is what its blocks hold up to its size.  No step but
a write changes a block, and a file that is given blocks anew is empty, so what is in
them from before shows nowhere (`ContentsSame`, `ContentsEmptied`).  A write changes the blocks
of one file, which by `BlocksAccounted` belong to no other, and by `NoHoles` the bytes
it passes over are in blocks that the file has.  That it puts the new bytes where they
belong, and leaves those beside them (`ByteWritten`, `ByteKept`), is arithmetic on
quotients and remainders.  That
it stops short only for want of room is counting: the blocks in use are as many as
the beginnings of blocks in all contents (`StorageCount`), and where the loop ends, either
the file has all its blocks or none is free; one byte more would begin a block more
(`WriteFull`).  `RefCounts`
says when the last place on a file is closed.

**Accounts.**  `halt` logs out as many times as there are places, and each logout
looks its place up by uid, so that it may empty another place than the loop has
reached.  The loop is a recursive function; that it exists follows by the least
number it would not exist for.  `RootAlone` (a place with uid 0 holds slots only if
it is the current one) says what the loop relies on: a place that it passes by is
empty, or is emptied in its turn (`TurnPasses`, `LoopPassesAll`).

**Directories.**  `CopiesInv` says that a directory other than the current one is
whole in its block and that `m_dir_cache` has nothing else; so whatever a user sees of
it (`Seen`) is the list in the block, and leaving it, entering it and restarting keep
what is seen.  `TreeInv` is about the tree alone: who lists whom, and `Ways`, the set
of directories on the way from each one to the root, which is the parent's with one
more.  A new directory adds one way, and one that is removed is on no way but its own,
because it has no contents (`WaysMade`, `WaysCut`).  The climb of `cd ~` drops one
directory of a finite set at each step, so that it is at the root after as many steps
as there are inodes (`RootReached`).  That an entry can always be made is again the
pigeonhole principle (`SpaceForNew`).

**Commands.**  All that the map depends on is what each descriptor leads to (`Reach`)
and what each name leads to (`Listing`); the view lemmas say what an operation of the
files does to the two (`OpenView`, `CloseView`, `CreatView`, `DeleteView`,
`TransferView`), and the map lemmas what that does to the agreement `MapOK`, for any
map and any files.  Within a command the agreement holds but for the descriptors that
the command has opened for itself (`Own`) and closes before it ends.  `JobInv` says
which of its local variables are set at each call: without it `edit`, which goes to
`creat` without a descriptor, and `write`, which goes on with its own, could not be
told apart.  A logout gives the map up until everything is closed; all it keeps is
that nobody else holds a descriptor (`LogoutOK`).  `IInv` of `FilesProofs` is part of
the invariant: a step of the shell makes at most one step of the files.

**Editor.**  `Stands` says that there are lines, none with a newline in it, and that
the cursor is in one of them: `CursorInText`, with the lines a sequence of sequences,
and so inductive.  Every key keeps it.  What takes an argument is the text the editor
is opened with: `Split` cuts it at its ends, taken in order, so each end has a rank
and each rank an end (`Nth`), and between two ends in that order there is no newline,
or it would be an end itself (`SplitLines`).

That the lines are a text goes by what stands before the line of the cursor and what
follows it (`Terminated`).  A character typed is inserted within a line
(`InsertedInLine`), Enter inserts a newline where it cuts one (`InsertedNewLine`), and
Backspace is either of the two read backwards.  A line holds no newline, so where the
newlines of the text are says where the lines begin and end, which is what the arrows
go by (`BreaksAt`, `ArrowMoves`).  That the lines of a file are
the file again when they are joined, but for a newline at its end, is an induction
over its ends (`SplitTerminated`).

**Paths.**  The walks are recursive functions over the components of a path.  `Loop`
says that such a function exists and `Rise` what holds of it after every turn; both
are about any step and any set, so that each walk needs only the lemma on its turn.
`Tree` says that each inode in use but the root has one entry, in a directory: so ".."
is well defined, and drops the last component of every way to where the walk is
(`UpDoes`).  `TypeCorrect` needs nothing else.  For the prompt the way is the one from
the root (`Shown`).  For the return it is the one from where the walk began, which
must be as long as the depth that the walk has counted (`Away`, `BackAgain`).  A
mkdir that fails breaks both, because the walk counts a component that it has not
entered, and an empty component breaks them as well, because the prompt loses it.  A
`cd` goes on as long as there is a directory, and is there (`NavigateGoes`).  When it
fails, its depth is what its path has gone down less what it has gone up, as long as
that is not negative: so each ".." takes the walk one step nearer to where it began
(`NearerAway`, `NavigateAway`).  What `rm` takes away is on no way, as it has no entries
(`LeadsKept`, `ErasedDoes`).  For `creat` a walk is either still on the tree as it was
or in a directory that it has just made (`OnWay`).

`find` needs that every inode in use is reached from the root (`Rooted`), which every
command keeps.  So the tree has no loop, and a way down passes no inode twice: none is
as long as there are inodes, and the search that is stopped there has seen everything.
What a call lists is what there is below its directory on ways of a given length
(`HitFrom`), by a loop over the subdirectories inside one over the lengths.  Each turn
comes back to the directory it left, by the entry ".." of the tree.

### What is model-checked only

- `CommandReturns`, a liveness property under fairness, is beyond the prover.
- The properties that findings refute.

## 5. What is not modelled

- The screen, the parsing of command lines, what is printed, `help` and `uls`.
- Names longer than `d_name`, which `strcpy` writes beyond its end.
- The second `fclose` of the host file, by the destructor after `halt()` has closed
  it (undefined behaviour when the program is about to end).
- Errors of the host's file I/O and of `malloc`.
- A process that ends without `halt()`: the superblock on disk is then out of
  date, and nothing promises otherwise.  The password file is saved by `reg` at once
  and is modelled through kills (`Accounts`).
- `m_users[-1]`, which the shell uses after a logout (undefined behaviour).
- The wiring in `Core`; commands on directories in `Commands`, which has files only
  (`Paths` has the directories).
- `rm` of "." and "..", and files that are open while the program is restarted:
  `Files` has the open files, `Directories` the restarts.

## 6. Plan

The model is complete as far as section 5 allows.  Every invariant, every action
property and every refinement that a passing run checks is proved; what is left is
liveness, which stays with TLC.
