----------------------------- MODULE MCMfAccess -----------------------------
(* MfAccess with two executions, for TLC. *)
EXTENDS MfAccess
=============================================================================
