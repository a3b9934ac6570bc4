------------------------------ MODULE MCReauth -------------------------------
(* A page that asks who its user is, asks for something else, and logs in. *)
EXTENDS Reauth

CONSTANTS c1, c2, c3

MCReq == {c1, c2, c3}
MCMe == {c1}
MCLogin == {c3}
=============================================================================
