------------------------------- MODULE Totals -------------------------------
(***************************************************************************)
(* sum() of a list of numbers, as the engines take it.                     *)
(***************************************************************************)
EXTENDS Integers, Sequences

Total(values) ==
  LET sum[n \in 0..Len(values)] == IF n = 0 THEN 0 ELSE sum[n - 1] + values[n]
  IN  sum[Len(values)]
=============================================================================
