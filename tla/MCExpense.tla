----------------------------- MODULE MCExpense -----------------------------
(* Expense with receipts of one day, for TLC. *)
EXTENDS Expense

OneDay == {1}
SameDay == [s \in Subs |-> 1]
=============================================================================
