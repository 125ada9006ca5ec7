-------------------------------- MODULE MCFiles --------------------------------
(* Two sessions, the root and a plain user of another group, two names, two    *)
(* inodes, and as many blocks as one file can fill, so that the disk runs full. *)
(* Each session has one descriptor, the system two slots.                      *)
EXTENDS Files, TLC

CONSTANTS root, alice, a, b, i1, i2, b1, b2

MCGid == (root :> 0) @@ (alice :> 1)

\* The owner may do everything, the others may read.
MCModes == {({"owner"} \X Kinds) \cup {<<"other", "R">>}}

Symmetry == Permutations({b1, b2}) \cup Permutations({i1, i2})
===============================================================================
