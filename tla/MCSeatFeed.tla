----------------------------- MODULE MCSeatFeed -----------------------------
(* Two seat requests, each served by any of two replicas, an update of an   *)
(* event of two seats, and a page.                                          *)
EXTENDS SeatFeed

CONSTANTS t1, t2, e1, v1, r1, r2

MCTxn == {t1, t2}
MCEditor == {e1}
MCCapacities == {1}
MCViewer == {v1}
MCReplica == {r1, r2}
=============================================================================
