--------------------------- MODULE MCEventEditing ---------------------------
(* Three seat requests and an update of an event of two seats. *)
EXTENDS EventEditing

CONSTANTS t1, t2, t3, e1

MCTxn == {t1, t2, t3}
MCEditor == {e1}
MCCapacities == {1}
=============================================================================
