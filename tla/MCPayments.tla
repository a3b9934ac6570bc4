----------------------------- MODULE MCPayments ------------------------------
(* The intents of two bookings, and a circuit that opens at a few failures. *)
EXTENDS Payments

CONSTANTS i1, i2

MCIntent == {i1, i2}
=============================================================================
