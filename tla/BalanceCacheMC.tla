--------------------------- MODULE BalanceCacheMC ---------------------------
(* BalanceCache on one and on two threads, which are interchangeable.      *)
EXTENDS BalanceCache, TLC

Symmetry == Permutations(Threads)
=============================================================================
