----------------------------- MODULE CouponCounter -----------------------------
(***************************************************************************)
(* What CouponsService promises its callers about one coupon: a use is     *)
(* taken while one is left, and given back once.  Each is one step here;   *)
(* CouponUsage has the lock, the counter and the requests that die, and is *)
(* shown to implement this specification.  The promise ends when a lock or *)
(* the counter is lost to its expiry; Bookings calls a service that keeps  *)
(* it.                                                                     *)
(***************************************************************************)
EXTENDS Integers

CONSTANT Limit      \* coupons.maxUsages

VARIABLES
    uses,       \* uses taken and not given back
    lost        \* a key has expired too early

vars == <<uses, lost>>

Init == uses = 0 /\ lost = FALSE

\* validateAndApply, with the answer isValid.
Take ==
    /\ uses < Limit
    /\ uses' = uses + 1
    /\ UNCHANGED lost

\* revertUsage.
GiveBack ==
    /\ uses > 0
    /\ uses' = uses - 1
    /\ UNCHANGED lost

\* A key expires, and from then on nothing is promised.
Lose == lost'

Next == Take \/ GiveBack \/ Lose

Spec == Init /\ [][Next]_vars
=============================================================================
