------------------------------- MODULE Totals -------------------------------
(***************************************************************************)
(* The total of a function with natural numbers as values, which the       *)
(* reports add their columns up with.                                      *)
(***************************************************************************)
EXTENDS FiniteSetsExt

SumOf(v) == MapThenSumSet(LAMBDA x : v[x], DOMAIN v)
=============================================================================
