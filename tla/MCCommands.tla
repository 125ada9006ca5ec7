------------------------------- MODULE MCCommands -------------------------------
(* Two users, two names and two inodes, each a block and a descriptor short of   *)
(* what the commands would like to have.                                         *)
EXTENDS Commands, TLC

CONSTANTS root, alice, a, b, i1, i2, b1, b2

MCGid == (root :> 0) @@ (alice :> 1)

\* The default mode, and one that lets only the owner read.
Anyone == {"owner", "group", "other"} \X Kinds
MCModes == {Anyone, {<<"owner", "R">>}}

\* Every file is typed one way, or from a second directory too.
MCLeads == (a :> {a}) @@ (b :> {b})
MCLeadsElsewhere == (a :> {a, b}) @@ (b :> {b})
=================================================================================
