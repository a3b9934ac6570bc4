---------------------------- MODULE MCCouponUsage ----------------------------
(* Two requests for one coupon, which spell its code alike. *)
EXTENDS CouponUsage

CONSTANTS r1, r2, k1

MCReq == {r1, r2}
MCKey == {k1}
MCKeyOf == [r \in MCReq |-> k1]
=============================================================================
