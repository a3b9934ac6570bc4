-------------------------- MODULE MCBookingOversell --------------------------
(* Two bookings of an event, one request to cancel and one to confirm. *)
EXTENDS Bookings

CONSTANTS b1, b2, c1, f1

MCCreator == {b1, b2}
MCCanceller == {c1}
MCConfirmer == {f1}
MCTxn == MCCreator \union MCCanceller
=============================================================================
