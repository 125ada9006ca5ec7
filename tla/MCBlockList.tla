----------------------------- MODULE MCBlockList -----------------------------
(* Small instances of BlockList: groups of two blocks, so that a handful of  *)
(* blocks forms a chain three groups deep, and a last group that is not full. *)
EXTENDS BlockList

\* The least favourable data: a first word that could be the size of a group, as
\* in the "." entry that opens a directory block or in a file that holds "1".
MCPayloads == {[ZeroWords EXCEPT !.n = 1]}

\* The same, zeroes, and a first word too big to be the size of a group.
MCPayloadsWide ==
  MCPayloads \cup {ZeroWords, [ZeroWords EXCEPT !.n = NICFREE + 1]}
===============================================================================
