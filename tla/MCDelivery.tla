----------------------------- MODULE MCDelivery -----------------------------
(* Delivery with a few named keys, for TLC. *)
EXTENDS Delivery, TLC
=============================================================================
