------------------------------ MODULE Component ------------------------------
(***************************************************************************)
(* Components that share no state are checked side by side: a behaviour    *)
(* moves one of them, chosen at its start.                                 *)
(***************************************************************************)
CONSTANT Components     \* the names of those that may be chosen

VARIABLE component      \* the one that moves
=============================================================================
