--------------------------- MODULE MCBookingRefund ---------------------------
(* A booking, a request to cancel it and one to confirm it.  The run keeps    *)
(* what no variable of Bookings holds: whether the booking was paid already   *)
(* when the request to cancel it began.                                       *)
EXTENDS Bookings

CONSTANTS b1, c1, f1

VARIABLE paidFirst      \* the cancel requests that began on a paid booking

MCCreator == {b1}
MCCanceller == {c1}
MCConfirmer == {f1}
MCTxn == MCCreator \union MCCanceller

RefundInit == BookingInit /\ paidFirst = {}

RefundNext ==
    /\ BookingNext
    /\ paidFirst' = paidFirst \union
          {c \in Canceller : \E b \in Creator : Begins(c, b) /\ intent[b] = "paid"}

RefundSpec == RefundInit /\ [][RefundNext]_<<bookVars, paidFirst>>

\* "Refund if payment was made" (bookings.service.ts:307): once a request has
\* cancelled a booking that was paid before it began, a refund was asked for.
RefundIfPaid ==
    \A c \in paidFirst :
        job[c].pc = "done" /\ status[job[c].booking] = "CANCELLED"
        => refund[job[c].booking] # "none"
=============================================================================
