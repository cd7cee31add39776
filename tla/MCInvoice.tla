------------------------------ MODULE MCInvoice ------------------------------
(* Invoice with interchangeable amounts and trigger runs, for TLC. *)
EXTENDS Invoice, TLC

RunSymmetry == Permutations(Amounts) \cup Permutations(Runs)
=============================================================================
