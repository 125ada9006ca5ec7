----------------------------- MODULE MCDirectories -----------------------------
(* Three inodes besides the root, so that a chain of directories, a directory  *)
(* beside another and a file beside either occur; two names.                   *)
EXTENDS Directories, TLC

CONSTANTS root, i1, i2, i3, a, b

Symmetry == Permutations({i1, i2, i3}) \cup Permutations({a, b})
================================================================================
