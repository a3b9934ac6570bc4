---------------------------- MODULE MCEmailQueue -----------------------------
(* A few mails, and a circuit that opens at two failures. *)
EXTENDS EmailQueue

CONSTANTS m1, m2

MCMail == {m1, m2}
=============================================================================
