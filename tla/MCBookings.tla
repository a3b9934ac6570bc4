----------------------------- MODULE MCBookings -----------------------------
(* Two bookings of an event, two requests to cancel and one to confirm. *)
EXTENDS Bookings, TLC

CONSTANTS b1, b2, c1, c2, f1

MCCreator == {b1, b2}
MCCanceller == {c1, c2}
MCConfirmer == {f1}
MCTxn == MCCreator \union MCCanceller

\* The bookings are alike, and so are the cancel requests.
Alike == Permutations(MCCreator) \union Permutations(MCCanceller)
=============================================================================
