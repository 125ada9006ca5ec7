------------------------------- MODULE NameTree -------------------------------
(***************************************************************************)
(* What the directories promise: a tree of named files and directories     *)
(* with a place in it where the commands are run.  Making, removing and    *)
(* moving about change one thing at a time, and shutting the program down  *)
(* and starting it again changes nothing but the place, which is the root. *)
(* Directories implements it.                                              *)
(***************************************************************************)
CONSTANTS
  Names,        \* names of files and directories
  Inodes,
  Root          \* the inode of the root directory

VARIABLES
  kind,         \* "free", "file" or "dir", for each inode
  entries,      \* the entries [name, ino] of each directory
  place         \* the current directory

vars == <<kind, entries, place>>

Init ==
  /\ kind = [i \in Inodes |-> IF i = Root THEN "dir" ELSE "free"]
  /\ entries = [i \in Inodes |-> {}]
  /\ place = Root

Make ==
  \E n \in Names, i \in Inodes, k \in {"file", "dir"} :
    /\ kind[i] = "free"
    /\ \A e \in entries[place] : e.name # n
    /\ kind' = [kind EXCEPT ![i] = k]
    /\ entries' = [entries EXCEPT ![place] = @ \cup {[name |-> n, ino |-> i]}]
    /\ UNCHANGED place

Remove ==
  \E e \in entries[place] :
    /\ entries[e.ino] = {}
    /\ kind' = [kind EXCEPT ![e.ino] = "free"]
    /\ entries' = [entries EXCEPT ![place] = @ \ {e}]
    /\ UNCHANGED place

Enter ==
  \E e \in entries[place] :
    kind[e.ino] = "dir" /\ place' = e.ino /\ UNCHANGED <<kind, entries>>

Climb ==
  \E d \in Inodes :
    /\ \E e \in entries[d] : e.ino = place
    /\ place' = d
    /\ UNCHANGED <<kind, entries>>

Restart == place' = Root /\ UNCHANGED <<kind, entries>>

Next == Make \/ Remove \/ Enter \/ Climb \/ Restart

Spec == Init /\ [][Next]_vars
===============================================================================
