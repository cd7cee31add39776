---------------------------- MODULE MCMonthClose ----------------------------
(* MonthClose with interchangeable amounts and trigger runs, for TLC. *)
EXTENDS MonthClose, TLC

AmountSymmetry == Permutations(Amounts) \cup Permutations(Runs)
=============================================================================
