---------------------------- MODULE RunningTotals ---------------------------
(***************************************************************************)
(* The sum of the values a function gives to 1, ..., n, as a recursive     *)
(* function, for the properties that account for a balance entry by entry. *)
(***************************************************************************)
EXTENDS Integers, Sequences

(* Running totals: what the first i values add up to, for i in 0..n *)
RunningTotals(values, n) ==
    LET total[i \in 0..n] == IF i = 0 THEN 0 ELSE total[i - 1] + values[i] IN total

Total(values, n) == RunningTotals(values, n)[n]

(* The sum of a sequence *)
SumOf(s) == Total(s, Len(s))
=============================================================================
