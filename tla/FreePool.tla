------------------------------- MODULE FreePool -------------------------------
(***************************************************************************)
(* What an allocator promises its callers, whatever lists it keeps: an     *)
(* identifier handed out was not in anyone's hands, and a request is       *)
(* refused only when every identifier is.  The free-block groups           *)
(* (BlockList) and the free-inode stack (InodeList) both implement it.     *)
(***************************************************************************)
CONSTANTS
  Ids,          \* everything that can be allocated
  Reserved,     \* what is in use from the start and never given back
  Refusal       \* the answer to a request that cannot be met

VARIABLES
  held,         \* the identifiers in use
  got           \* the answer to the last request

vars == <<held, got>>

Init == held = Reserved /\ got = Refusal

Allocate ==
  \E x \in Ids \ held : got' = x /\ held' = held \cup {x}

Refuse == held = Ids /\ got' = Refusal /\ UNCHANGED held

Release ==
  \E x \in held \ Reserved : held' = held \ {x} /\ UNCHANGED got

Next == Allocate \/ Refuse \/ Release

Spec == Init /\ [][Next]_vars
===============================================================================
