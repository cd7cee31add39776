----------------------------- MODULE MCStampLog -----------------------------
(* StampLog with a few interchangeable keys and two days, for TLC. *)
EXTENDS StampLog

KeySymmetry == Permutations(Stamps) \cup Permutations(Fixes)
=============================================================================
