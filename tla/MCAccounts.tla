------------------------------- MODULE MCAccounts -------------------------------
(* The two accounts of a new disk and room for two more; a password that fits    *)
(* and one that is longer than the table keeps.                                  *)
EXTENDS Accounts, TLC

MCFormatted == << <<0, "root">>, <<1, "short">> >>
MCKept == [w \in Words |-> w]
MCKeptCut == [w \in Words |-> IF w = "long" THEN "cut" ELSE w]

Symmetry == Permutations(Slots)
=================================================================================
