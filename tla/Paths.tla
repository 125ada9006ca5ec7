--------------------------------- MODULE Paths ---------------------------------
(***************************************************************************)
(* The paths of the shell.  A command walks from the current directory     *)
(* through the components of its path with chdir(), making the directories *)
(* that are missing, works on the last component there, and walks back up. *)
(* The prompt's s_cwd is edited along the way, beside the directory it is  *)
(* meant to name.                                                          *)
(*                                                                         *)
(* The directories are the tree that Directories implements; ".." is the   *)
(* parent.                                                                 *)
(***************************************************************************)
EXTENDS Integers, Sequences, FiniteSets

CONSTANTS
  Parts,        \* the components a path may have for mkdir, creat, read, ...
  CdParts,      \* the components a path may have for cd
  MaxPath,      \* bound: components of a path
  Inodes, Root, \* Root is the least of the numbers Inodes
  MkdirFails    \* whether the inodes may run out in the middle of a path

Unnamed == ""
Typed == (Parts \cup CdParts) \ {".", ".."}
Names == Typed \cup {Unnamed}
NoIno == 0

ASSUME PathsAssumption ==
  /\ Inodes \subseteq Nat \ {NoIno} /\ Root \in Inodes /\ IsFiniteSet(Inodes)
  /\ MaxPath \in Nat \ {0}
  /\ MkdirFails \in BOOLEAN

VARIABLES
  kind,         \* "free", "file" or "dir"
  kids,         \* what each name leads to in each directory
  cur,          \* m_cur_path_inode
  prompt        \* s_cwd, which is "/" and these components with "/" between them

vars == <<kind, kids, cur, prompt>>
tree == <<kind, kids>>

PathsOf(parts) == UNION {[1 .. k -> parts] : k \in 1 .. MaxPath}
First(S) == CHOOSE x \in S : \A y \in S : x <= y

Init ==
  /\ kind = [i \in Inodes |-> IF i = Root THEN "dir" ELSE "free"]
  /\ kids = [i \in Inodes |-> [n \in Names |-> NoIno]]
  /\ cur = Root
  /\ prompt = << >>

-----------------------------------------------------------------------------
(***************************************************************************)
(* The state of a walk: the four variables, the depth the walk has counted *)
(* and whether every component so far was a directory.                     *)
(***************************************************************************)

Start == [kind |-> kind, kids |-> kids, cur |-> cur, prompt |-> prompt,
          depth |-> 0, ok |-> TRUE]

Free(st) == {i \in Inodes : st.kind[i] = "free"}

\* namei() and mkdir() in the current directory.
Kid(st, n) ==
  IF n = "." THEN st.cur
  ELSE IF n # ".." THEN st.kids[st.cur][n]
  ELSE IF st.cur = Root THEN Root
  ELSE CHOOSE d \in Inodes : \E m \in Names : st.kids[d][m] = st.cur
Make(st, n, k) ==
  IF Free(st) = {} \/ Kid(st, n) # NoIno THEN st
  ELSE [st EXCEPT !.kind[First(Free(st))] = k, !.kids[st.cur][n] = First(Free(st))]

\* chdir(), which changes nothing unless the name leads to a directory.
Chdir(st, n) ==
  IF Kid(st, n) # NoIno /\ st.kind[Kid(st, n)] = "dir"
  THEN [st EXCEPT !.cur = Kid(st, n)] ELSE st

\* s_cwd is cut at its last "/".
Shorter(s) == IF s = << >> THEN s ELSE SubSeq(s, 1, Len(s) - 1)

\* A component is written after s_cwd.  The "/" before it is left out where s_cwd
\* ends in one: at the root, and after an empty component, as in "/b" and "a//b",
\* which is lost.
Longer(s, n) ==
  LET whole == IF s # << >> /\ s[Len(s)] = Unnamed THEN Shorter(s) ELSE s
  IN  IF whole = << >> /\ n = Unnamed THEN whole ELSE Append(whole, n)

\* One chdir("..") with its edit of s_cwd.
Up(st) == [Chdir(st, "..") EXCEPT !.prompt = Shorter(@)]

\* One component entered.
Down(st, n) ==
  [Chdir(st, n) EXCEPT !.prompt = Longer(@, n), !.depth = @ + 1]

\* Mutant: unwind_path() restores the directory and not the prompt.
UnwindSilently(st, depth) ==
  LET after[k \in 0 .. depth] ==
        IF k = 0 THEN st ELSE Chdir(after[k - 1], "..")
  IN  IF depth > 0 THEN after[depth] ELSE st

\* unwind_path(): nothing for a depth that is not positive.
Unwind(st, depth) ==
  LET after[k \in 0 .. depth] == IF k = 0 THEN st ELSE Up(after[k - 1])
  IN  IF depth > 0 THEN after[depth] ELSE st

\* Mutant: a directory that had to be made is not counted in the depth.
ResolvePartUncounted(st, n) ==
  IF ~st.ok \/ n = "." THEN st
  ELSE IF n = ".." THEN [Up(st) EXCEPT !.depth = @ - 1]
  ELSE IF Kid(st, n) = NoIno THEN [Down(Make(st, n, "dir"), n) EXCEPT !.depth = @ - 1]
  ELSE IF st.kind[Kid(st, n)] # "dir" THEN [Unwind(st, st.depth) EXCEPT !.ok = FALSE]
  ELSE Down(st, n)

\* One turn of the loop of resolve_path().
ResolvePart(st, n) ==
  IF ~st.ok \/ n = "." THEN st
  ELSE IF n = ".." THEN [Up(st) EXCEPT !.depth = @ - 1]
  ELSE IF Kid(st, n) = NoIno THEN Down(Make(st, n, "dir"), n)
  ELSE IF st.kind[Kid(st, n)] # "dir" THEN [Unwind(st, st.depth) EXCEPT !.ok = FALSE]
  ELSE Down(st, n)

\* resolve_path(): every component but the last.
Resolve(p) ==
  LET after[k \in 0 .. Len(p) - 1] ==
        IF k = 0 THEN Start ELSE ResolvePart(after[k - 1], p[k])
  IN  after[Len(p) - 1]

\* The name and the depth that resolve_path() returns; its callers go on with
\* the empty name when a component was not a directory.
Last(st, p) == IF st.ok THEN p[Len(p)] ELSE Unnamed
Depth(st) == IF st.ok THEN st.depth ELSE -1

\* Mutant: a component is entered without looking whether it is there.
NavigatePartBlind(st, n) ==
  IF ~st.ok \/ n = "." THEN st
  ELSE IF n = ".." THEN [Up(st) EXCEPT !.depth = IF @ > 0 THEN @ - 1 ELSE @]
  ELSE [st EXCEPT !.cur = Kid(st, n), !.prompt = Longer(@, n), !.depth = @ + 1]

\* Mutant: a walk that fails is not unwound.
NavigatePartStays(st, n) ==
  IF ~st.ok \/ n = "." THEN st
  ELSE IF n = ".." THEN [Up(st) EXCEPT !.depth = IF @ > 0 THEN @ - 1 ELSE @]
  ELSE IF Kid(st, n) = NoIno \/ st.kind[Kid(st, n)] # "dir"
       THEN [st EXCEPT !.ok = FALSE]
  ELSE Down(st, n)

\* One turn of the loop of navigate_path().
NavigatePart(st, n) ==
  IF ~st.ok \/ n = "." THEN st
  ELSE IF n = ".." THEN [Up(st) EXCEPT !.depth = IF @ > 0 THEN @ - 1 ELSE @]
  ELSE IF Kid(st, n) = NoIno \/ st.kind[Kid(st, n)] # "dir"
       THEN [Unwind(st, st.depth) EXCEPT !.ok = FALSE]
  ELSE Down(st, n)

Navigate(p) ==
  LET after[k \in 0 .. Len(p)] ==
        IF k = 0 THEN Start ELSE NavigatePart(after[k - 1], p[k])
  IN  after[Len(p)]

-----------------------------------------------------------------------------
(***************************************************************************)
(* The commands.                                                           *)
(***************************************************************************)

Becomes(st) ==
  /\ kind' = st.kind
  /\ kids' = st.kids
  /\ cur' = st.cur
  /\ prompt' = st.prompt

Room(p) == MkdirFails \/ Cardinality(Free(Start)) >= Len(p)

Mkdir(p) ==
  LET st == Resolve(p)
  IN  Room(p) /\ Becomes(Unwind(Make(st, Last(st, p), "dir"), Depth(st)))

\* Mutant: the file is made after the walk back.
CreatLate(p) ==
  LET st == Resolve(p)
  IN  Room(p) /\ Becomes(Make(Unwind(st, Depth(st)), Last(st, p), "file"))

\* creat, and write of a file that does not exist yet.
Creat(p) ==
  LET st == Resolve(p)
  IN  Room(p) /\ Becomes(Unwind(Make(st, Last(st, p), "file"), Depth(st)))

\* read, and write of a file that exists or is refused: the walk is all that
\* changes anything here.
Read(p) ==
  LET st == Resolve(p)
  IN  Room(p) /\ Becomes(Unwind(st, Depth(st)))

Erased(st, n) ==
  LET i == Kid(st, n)
  IN  IF i = NoIno THEN st
      ELSE [st EXCEPT !.kind[i] = "free", !.kids[st.cur][n] = NoIno]

\* rm of a file, or of an empty directory other than the current one.
Rm(p) ==
  LET st == Resolve(p)
  IN  /\ Room(p)
      /\ Last(st, p) \in Names
      /\ Kid(st, Last(st, p)) # NoIno =>
           \A n \in Names : st.kids[Kid(st, Last(st, p))][n] = NoIno
      /\ Kid(st, Last(st, p)) # cur
      /\ Becomes(Unwind(Erased(st, Last(st, p)), Depth(st)))

Cd(p) == Becomes(Navigate(p))

\* cd ~ climbs until the directory stops changing.
CdHome == cur' = Root /\ prompt' = << >> /\ UNCHANGED tree

PathCommand ==
  \E p \in PathsOf(Parts) : Mkdir(p) \/ Creat(p) \/ Read(p) \/ Rm(p)

Next == PathCommand \/ (\E p \in PathsOf(CdParts) : Cd(p)) \/ CdHome

Spec == Init /\ [][Next]_vars

-----------------------------------------------------------------------------
(***************************************************************************)
(* Properties.                                                             *)
(***************************************************************************)

TypeOK ==
  /\ kind \in [Inodes -> {"free", "file", "dir"}]
  /\ kids \in [Inodes -> [Names -> Inodes \cup {NoIno}]]
  /\ cur \in Inodes /\ kind[cur] = "dir"
  /\ prompt \in Seq(Typed)

\* What a path of plain names leads to from directory d, or NoIno.
Leads(ks, d, p) ==
  LET at[k \in 0 .. Len(p)] ==
        IF k = 0 THEN d ELSE IF at[k - 1] = NoIno THEN NoIno ELSE ks[at[k - 1]][p[k]]
  IN  at[Len(p)]

\* The prompt names the directory the commands work in.
PromptTrue == Leads(kids, Root, prompt) = cur

\* A command that works on a path leaves the current directory and the prompt
\* as they were, whether the components of its path are there, missing, or files.
\* Refuted for paths with ".." and, as PromptTrue, for those with empty components.
Restored == [][PathCommand => cur' = cur /\ prompt' = prompt]_vars

\* What n leads to from directory d, when it is a directory.
Subdir(d, n) ==
  LET i == Kid([Start EXCEPT !.cur = d], n)
  IN  IF i # NoIno /\ kind[i] = "dir" THEN i ELSE NoIno

\* The directory that a path of cd leads to, "." and ".." included, or NoIno.
Destination(p) ==
  LET at[k \in 0 .. Len(p)] ==
        IF k = 0 THEN cur
        ELSE IF at[k - 1] = NoIno THEN NoIno ELSE Subdir(at[k - 1], p[k])
  IN  at[Len(p)]

\* Of the first k components of a path, those that go up and those that go down.
Ups(p, k) == Cardinality({j \in 1 .. k : p[j] = ".."})
Downs(p, k) == Cardinality({j \in 1 .. k : p[j] \notin {".", ".."}})

\* Somewhere on its way the path is above where it began, unless that is the root.
Climbs(p) == \E k \in DOMAIN p : Downs(p, k) < Ups(p, k)

Stays(st) == st.cur = cur /\ st.prompt = prompt

\* cd goes where its path leads.  When that is nowhere, because a component is
\* missing or a file, it stays where it was and keeps the prompt, however far it
\* had got, unless the path climbs above where it began.
CdFollows ==
  \A p \in PathsOf(CdParts) :
    IF Destination(p) # NoIno THEN Navigate(p).cur = Destination(p)
    ELSE ~Climbs(p) => Stays(Navigate(p))

\* Refuted: the same of every path.
CdStays == \A p \in PathsOf(CdParts) : Destination(p) = NoIno => Stays(Navigate(p))

\* creat makes its file where its path says, and nothing else but the missing
\* directories of the path.
CreatesWhereNamed ==
  [][\A p \in PathsOf(Parts) :
       LET before(k) == Leads(kids, cur, SubSeq(p, 1, k))
           after(k) == Leads(kids', cur, SubSeq(p, 1, k))
       IN  /\ Creat(p)
           /\ \A k \in 1 .. Len(p) - 1 : before(k) = NoIno \/ kind[before(k)] = "dir"
           => /\ after(Len(p)) # NoIno
              /\ before(Len(p)) = NoIno => kind'[after(Len(p))] = "file"
              /\ \A i \in Inodes : kind'[i] # kind[i] =>
                   \E k \in 1 .. Len(p) : after(k) = i]_vars

\* Every file and directory has a name that a command can give.
NoneUnnamed == \A d \in Inodes : kids[d][Unnamed] = NoIno
================================================================================
