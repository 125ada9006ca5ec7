--------------------------------- MODULE MCBytes ---------------------------------
(* One name for two inodes: a file is deleted while it is open and another one    *)
(* takes its name.  A write fills a block or ends within the next one, and the    *)
(* slots run out before the descriptors do.                                       *)
EXTENDS Bytes, TLC

CONSTANTS root, a, i1, i2, b1, b2

MCGid == root :> 0
MCModes == {{"owner"} \X Kinds}
MCStrings == {<<0, 0>>, <<1, 0, 1>>}

Symmetry == Permutations({b1, b2}) \cup Permutations({i1, i2})
==================================================================================
