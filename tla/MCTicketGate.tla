---------------------------- MODULE MCTicketGate -----------------------------
(* Requests that race for one booking: one to cancel it, one to confirm it   *)
(* and two to validate its ticket.                                           *)
EXTENDS TicketGate

CONSTANTS b1, c1, f1, g1, g2

MCCreator == {b1}
MCCanceller == {c1}
MCConfirmer == {f1}
MCTxn == MCCreator \union MCCanceller
MCGate == {g1, g2}
=============================================================================
