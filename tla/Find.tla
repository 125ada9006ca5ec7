---------------------------------- MODULE Find ----------------------------------
(***************************************************************************)
(* The command find: a search of the tree below the current directory that *)
(* goes down and up by chdir(), so that what "the current directory" means *)
(* changes under its hands, and that must be back in the end.              *)
(***************************************************************************)
EXTENDS Paths

Dirs == {d \in Inodes : kind[d] = "dir"}

\* The shell in directory d: chdir() changes nothing else.
In(d) == [Start EXCEPT !.cur = d]
To(d, n) == Chdir(In(d), n).cur

\* The subdirectories of a directory, one by one, and their names there.
Subdirs(d) == {kids[d][n] : n \in {m \in Names : kids[d][m] \in Dirs}}
Listing(S) ==
  CHOOSE s \in [1 .. Cardinality(S) -> S] : \A i \in S : \E k \in DOMAIN s : s[k] = i
NameOf(d, i) ==
  IF \E n \in Names : kids[d][n] = i THEN CHOOSE n \in Names : kids[d][n] = i ELSE Unnamed

\* Mutant: the search does not climb out of a subdirectory.
SearchBelowStays(search, found, i, prefix) ==
  LET n == NameOf(found.cur, i)
      below == search[To(found.cur, n)][Append(prefix, n)]
  IN  [cur |-> below.cur, out |-> found.out \cup below.out]

\* A subdirectory is entered, searched and left, by the name that the directory
\* current by then has for it.  found is where the search stands and what it has
\* listed, search the recursive call.
SearchBelow(search, found, i, prefix) ==
  LET n == NameOf(found.cur, i)
      below == search[To(found.cur, n)][Append(prefix, n)]
  IN  [cur |-> To(below.cur, ".."), out |-> found.out \cup below.out]

\* The file of that name in a directory.
Here(d, prefix, name) ==
  IF kids[d][name] # NoIno /\ kind[kids[d][name]] = "file" THEN {Append(prefix, name)} ELSE {}

\* search(): the file of that name here, then the subdirectories, collected before
\* the first is entered.
SearchFrom(search, d, prefix, name) ==
  LET subdirs == Listing(Subdirs(d))
      after[k \in 0 .. Cardinality(Subdirs(d))] ==
        IF k = 0 THEN [cur |-> d, out |-> Here(d, prefix, name)]
        ELSE SearchBelow(search, after[k - 1], subdirs[k], prefix)
  IN  after[Cardinality(Subdirs(d))]

\* Calls of search() inside one another: no way down the tree is as long.
Levels == Cardinality(Inodes)

\* The command, which ends by climbing until it is where it began, if it must.
FindCommand(name) ==
  LET search[k \in 0 .. Levels] ==
        [d \in Dirs |-> [prefix \in Seq(Names) |->
           IF k = 0 THEN [cur |-> d, out |-> {}]
           ELSE SearchFrom(search[k - 1], d, prefix, name)]]
  IN  search[Levels][cur][prompt]

-----------------------------------------------------------------------------
PathsBelow == UNION {[1 .. k -> Names] : k \in 1 .. Cardinality(Inodes) - 1}

\* find lists the files of that name in and below the current directory, each
\* under the prompt and the names that lead on from there, nothing else, and its own
\* descent ends where it began: the climb that follows has nothing to undo.
FindTrue ==
  \A name \in Names :
    /\ FindCommand(name).out =
         {prompt \o p : p \in
           {q \in PathsBelow : /\ q[Len(q)] = name
                               /\ Leads(kids, cur, q) # NoIno
                               /\ kind[Leads(kids, cur, q)] = "file"}}
    /\ FindCommand(name).cur = cur
=================================================================================
