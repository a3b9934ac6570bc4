------------------------------ MODULE Bookings -------------------------------
(***************************************************************************)
(* BookingsService: create, confirmBooking and cancelBooking, run          *)
(* concurrently by many requests on the bookings of one event.             *)
(*                                                                         *)
(* The seat transactions are those of SeatInventory.  A create request is  *)
(* also the identity of the booking it creates; a cancel request is also   *)
(* the identity of the transaction in which it restores the seats.  The    *)
(* calls into CouponsService are one step each (CouponUsage has what       *)
(* happens inside them); the calls into PaymentService are one step each   *)
(* with the outcomes they can have.                                        *)
(***************************************************************************)
EXTENDS SeatInventory

CONSTANTS
    Creator,        \* create requests, and the bookings they create
    Canceller,      \* cancel requests
    Confirmer,      \* confirm requests
    MaxUsages       \* the usage limit of the one coupon

ASSUME RequestAssumption ==
    /\ Creator \union Canceller = Txn
    /\ Creator \intersect Canceller = {}
    /\ Confirmer \intersect Txn = {}
ASSUME MaxUsagesAssumption == MaxUsages \in Nat

VARIABLES
    status,     \* bookings.status, "none" before the booking is committed
    coupon,     \* what became of the coupon code of each create request
    usages,     \* uses of the coupon that count against its limit
    intent,     \* the payment intent of each booking
    refund,     \* whether a refund of it was asked for
    mails,      \* confirmation mails queued for each booking
    job,        \* each cancel and confirm request: its progress and booking, and the
                \* status a cancel request has read
    unruly      \* ghost: bookings on which requests have got in each other's way

bookingVars == <<status, coupon, usages, intent, refund, mails, job>>
allVars == <<event, sharers, rowLock, phase, change, entity, sold,
             status, coupon, usages, intent, refund, mails, job>>
bookVars == <<allVars, unruly>>

seats == vars

Status == {"none", "PENDING", "CONFIRMED", "CANCELLED"}

Jobs == Canceller \union Confirmer

JobPC == {"idle", "read", "refunded", "restoring", "reverted", "verified", "saved",
          "stopped", "done"}

Job == [pc : JobPC, booking : Creator, seen : Status]

BookingTypeOK ==
    /\ TypeOK
    /\ status \in [Creator -> Status]
    /\ coupon \in [Creator -> {"no", "asked", "applied", "reverted"}]
    /\ usages \in Int
    /\ intent \in [Creator -> {"none", "open", "paid"}]
    /\ refund \in [Creator -> {"none", "asked"}]
    /\ mails \in [Creator -> Nat]
    /\ job \in [Jobs -> Job]
    /\ unruly \subseteq Creator

BookingInit ==
    /\ Init
    /\ status = [b \in Creator |-> "none"]
    /\ coupon = [b \in Creator |-> "no"]
    /\ usages = 0
    /\ intent = [b \in Creator |-> "none"]
    /\ refund = [b \in Creator |-> "none"]
    /\ mails = [b \in Creator |-> 0]
    /\ \E b \in Creator :
          job = [r \in Jobs |->
                    [pc |-> "idle", booking |-> b, seen |-> "none"]]
    /\ unruly = {}

-----------------------------------------------------------------------------
(* create. *)

BeginCreate(b, q, code) ==
    /\ CheckSeats(b, q)
    /\ coupon' = [coupon EXCEPT ![b] = code]
    /\ UNCHANGED <<status, usages, intent, refund, mails, job>>

\* Mutant: the limit is off by one.
ApplyCouponOffByOne(b) ==
    /\ phase[b] = "checked"
    /\ coupon[b] = "asked"
    /\ usages <= MaxUsages
    /\ usages' = usages + 1
    /\ coupon' = [coupon EXCEPT ![b] = "applied"]
    /\ UNCHANGED <<seats, status, intent, refund, mails, job>>

\* validateAndApply, on a connection of its own: its use of the coupon is not
\* undone by a rollback.
ApplyCoupon(b) ==
    /\ phase[b] = "checked"
    /\ coupon[b] = "asked"
    /\ usages < MaxUsages
    /\ usages' = usages + 1
    /\ coupon' = [coupon EXCEPT ![b] = "applied"]
    /\ UNCHANGED <<seats, status, intent, refund, mails, job>>

\* A coupon at its limit, expired or below its minimum: the booking goes on
\* without it.
RefuseCoupon(b) ==
    /\ phase[b] = "checked"
    /\ coupon[b] = "asked"
    /\ coupon' = [coupon EXCEPT ![b] = "no"]
    /\ UNCHANGED <<seats, status, usages, intent, refund, mails, job>>

SaveBooking(b) ==
    /\ coupon[b] # "asked"
    /\ InsertBooking(b)
    /\ UNCHANGED bookingVars

\* createPaymentIntent, and saving its identifiers on the booking.
CreateIntent(b) ==
    /\ phase[b] = "written"
    /\ intent[b] = "none"
    /\ intent' = [intent EXCEPT ![b] = "open"]
    /\ UNCHANGED <<seats, status, coupon, usages, refund, mails, job>>

CommitCreate(b) ==
    /\ intent[b] # "none"
    /\ Commit(b)
    /\ status' = [status EXCEPT ![b] = "PENDING"]
    /\ UNCHANGED <<coupon, usages, intent, refund, mails, job>>

\* createPaymentIntent throws.
IntentFails(b) ==
    /\ intent[b] = "none"
    /\ Compensate(b)
    /\ UNCHANGED bookingVars

RevertInCatch(b) ==
    /\ phase[b] = "undone"
    /\ coupon[b] = "applied"
    /\ usages' = usages - 1
    /\ coupon' = [coupon EXCEPT ![b] = "reverted"]
    /\ UNCHANGED <<seats, status, intent, refund, mails, job>>

\* Mutant: the catch block gives the seats back on a connection of its own, so
\* that they come back twice.
RollbackCreateRestores(b) ==
    /\ phase[b] = "undone" => coupon[b] # "applied"
    /\ phase[b] = "undone"
    /\ event' = [event EXCEPT !.availableSeats = @ - change[b]]
    /\ sharers' = sharers \ {b}
    /\ rowLock' = Unlocked(b)
    /\ phase' = [phase EXCEPT ![b] = "rolledBack"]
    /\ UNCHANGED <<change, entity, sold>>
    /\ UNCHANGED bookingVars

RollbackCreate(b) ==
    /\ phase[b] = "undone" => coupon[b] # "applied"
    /\ Rollback(b)
    /\ UNCHANGED bookingVars

\* The customer pays, or the timer of a mock intent fires.  The intent may be
\* one of a booking that was rolled back.
Pay(b) ==
    /\ intent[b] = "open"
    /\ intent' = [intent EXCEPT ![b] = "paid"]
    /\ UNCHANGED <<seats, status, coupon, usages, refund, mails, job>>

-----------------------------------------------------------------------------
(* cancelBooking. *)

\* Mutant: a cancelled booking is cancelled again.
CancelReadAgain(c, b) ==
    /\ job[c].pc = "idle"
    /\ status[b] # "none"
    /\ job' = [job EXCEPT ![c] = [pc |-> "read", booking |-> b, seen |-> status[b]]]
    /\ UNCHANGED <<seats, status, coupon, usages, intent, refund, mails>>

\* The plain read of the booking; a cancelled one ends the request.
CancelRead(c, b) ==
    /\ job[c].pc = "idle"
    /\ status[b] # "none"
    /\ job' = [job EXCEPT ![c] =
                 [pc |-> IF status[b] = "CANCELLED" THEN "done" ELSE "read",
                  booking |-> b, seen |-> status[b]]]
    /\ UNCHANGED <<seats, status, coupon, usages, intent, refund, mails>>

\* refundPayment, whose result is not looked at.
Refund(c) ==
    /\ job[c].pc = "read"
    /\ job[c].seen = "CONFIRMED"
    /\ refund' = [refund EXCEPT ![job[c].booking] = "asked"]
    /\ job' = [job EXCEPT ![c].pc = "refunded"]
    /\ UNCHANGED <<seats, status, coupon, usages, intent, mails>>

RestoreSeats(c) ==
    /\ \/ job[c].pc = "read" /\ job[c].seen # "CONFIRMED"
       \/ job[c].pc = "refunded"
    /\ BeginRestore(c, -change[job[c].booking])
    /\ job' = [job EXCEPT ![c].pc = "restoring"]
    /\ UNCHANGED <<status, coupon, usages, intent, refund, mails>>

\* Mutant: nobody awaits the rejection of updateAvailableSeats.
RestoreFailsUnseen(c) ==
    /\ job[c].pc = "restoring"
    /\ phase[c] = "rolledBack"
    /\ UNCHANGED allVars

\* updateAvailableSeats threw, so does cancelBooking.
RestoreFails(c) ==
    /\ job[c].pc = "restoring"
    /\ phase[c] = "rolledBack"
    /\ job' = [job EXCEPT ![c].pc = "done"]
    /\ UNCHANGED <<seats, status, coupon, usages, intent, refund, mails>>

\* Mutant: cancelling does not give the use back.
RevertCouponForgotten(c) ==
    /\ job[c].pc = "restoring"
    /\ phase[c] = "committed"
    /\ job' = [job EXCEPT ![c].pc = "reverted"]
    /\ UNCHANGED <<seats, status, coupon, usages, intent, refund, mails>>

\* revertUsage, when the booking has a coupon code.
RevertCoupon(c) ==
    /\ job[c].pc = "restoring"
    /\ phase[c] = "committed"
    /\ usages' = IF coupon[job[c].booking] = "applied" THEN usages - 1 ELSE usages
    /\ job' = [job EXCEPT ![c].pc = "reverted"]
    /\ UNCHANGED <<seats, status, coupon, intent, refund, mails>>

MarkCancelled(c) ==
    /\ job[c].pc = "reverted"
    /\ status' = [status EXCEPT ![job[c].booking] = "CANCELLED"]
    /\ job' = [job EXCEPT ![c].pc = "done"]
    /\ UNCHANGED <<seats, coupon, usages, intent, refund, mails>>

HalfWay(c) == job[c].pc \in {"restoring", "reverted"} /\ phase[c] = "committed"

\* A call throws or the process dies, outside the seat transaction.
CancelStops(c) ==
    /\ job[c].pc \in {"read", "refunded"} \/ HalfWay(c)
    /\ job' = [job EXCEPT ![c].pc = "stopped"]
    /\ UNCHANGED <<seats, status, coupon, usages, intent, refund, mails>>

-----------------------------------------------------------------------------
(* confirmBooking. *)

\* The plain read of the booking; a confirmed one ends the request.
ConfirmRead(f, b) ==
    /\ job[f].pc = "idle"
    /\ status[b] # "none"
    /\ job' = [job EXCEPT ![f].pc = IF status[b] = "CONFIRMED" THEN "done" ELSE "read",
                          ![f].booking = b]
    /\ UNCHANGED <<seats, status, coupon, usages, intent, refund, mails>>

\* Mutant: the result of confirmPayment is not looked at.
VerifyPaymentUnseen(f) ==
    /\ job[f].pc = "read"
    /\ f \in Confirmer
    /\ job' = [job EXCEPT ![f].pc = "verified"]
    /\ UNCHANGED <<seats, status, coupon, usages, intent, refund, mails>>

\* confirmPayment: false when the intent has not succeeded, or on an error.
VerifyPayment(f) ==
    /\ job[f].pc = "read"
    /\ f \in Confirmer
    /\ \E verified \in {FALSE, intent[job[f].booking] = "paid"} :
          job' = [job EXCEPT ![f].pc = IF verified THEN "verified" ELSE "done"]
    /\ UNCHANGED <<seats, status, coupon, usages, intent, refund, mails>>

SaveConfirmed(f) ==
    /\ job[f].pc = "verified"
    /\ status' = [status EXCEPT ![job[f].booking] = "CONFIRMED"]
    /\ job' = [job EXCEPT ![f].pc = "saved"]
    /\ UNCHANGED <<seats, coupon, usages, intent, refund, mails>>

\* queueBookingConfirmation; when it throws, or the process dies, the booking
\* stays confirmed.
QueueMail(f) ==
    /\ job[f].pc = "saved"
    /\ \E queued \in {0, 1} :
          mails' = [mails EXCEPT ![job[f].booking] = @ + queued]
    /\ job' = [job EXCEPT ![f].pc = "done"]
    /\ UNCHANGED <<seats, status, coupon, usages, intent, refund>>

\* The save throws, or the process dies before it.
ConfirmStops(f) ==
    /\ job[f].pc \in {"read", "verified"}
    /\ job' = [job EXCEPT ![f].pc = "done"]
    /\ UNCHANGED <<seats, status, coupon, usages, intent, refund, mails>>

-----------------------------------------------------------------------------
SeatUpdate(t) == Update(t) /\ UNCHANGED bookingVars

CreateAdvance(b) ==
    \/ ApplyCoupon(b) \/ RefuseCoupon(b) \/ SaveBooking(b) \/ SeatUpdate(b) \/ CreateIntent(b)
    \/ CommitCreate(b) \/ RevertInCatch(b) \/ RollbackCreate(b)

CancelAdvance(c) ==
    \/ Refund(c) \/ RestoreSeats(c) \/ SeatUpdate(c)
    \/ (Commit(c) \/ Rollback(c)) /\ UNCHANGED bookingVars
    \/ RestoreFails(c) \/ RevertCoupon(c) \/ MarkCancelled(c)

ConfirmAdvance(f) == VerifyPayment(f) \/ SaveConfirmed(f) \/ QueueMail(f)

BookingStep ==
    \/ \E b \in Creator :
          \/ \E q \in 1..MaxQty, code \in {"no", "asked"} : BeginCreate(b, q, code)
          \/ CreateAdvance(b) \/ IntentFails(b) \/ Pay(b)
    \/ \E c \in Canceller :
          (\E b \in Creator : CancelRead(c, b)) \/ CancelAdvance(c) \/ CancelStops(c)
    \/ \E f \in Confirmer :
          (\E b \in Creator : ConfirmRead(f, b)) \/ ConfirmAdvance(f) \/ ConfirmStops(f)
    \/ \E t \in Txn : Fault(t) /\ UNCHANGED bookingVars

-----------------------------------------------------------------------------
(* The ghost.  Nothing in the code orders the requests for a booking; this   *)
(* remembers the bookings for which it mattered.                             *)

Active(r) == job[r].pc \notin {"idle", "stopped", "done"}

ActiveOn(b, R) == \E r \in R : job[r].booking = b /\ Active(r)

\* A cancel request begins beside another request, or another one beside it;
\* or a request begins to confirm a cancelled booking.
Begins(r, b) == job[r].pc = "idle" /\ job'[r].pc = "read" /\ job'[r].booking = b

Collides(r, b) ==
    \/ r \in Canceller /\ ActiveOn(b, Jobs)
    \/ r \in Confirmer /\ (ActiveOn(b, Canceller) \/ status[b] = "CANCELLED")

\* A cancel request stops between restoring the seats and marking the booking.
BreaksOff(r, b) == r \in Canceller /\ job[r].booking = b /\ HalfWay(r) /\ job'[r].pc = "stopped"

Remember ==
    unruly' = unruly \union {b \in Creator :
                 \E r \in Jobs : (Begins(r, b) /\ Collides(r, b)) \/ BreaksOff(r, b)}

BookingNext == BookingStep /\ Remember

\* As in SeatInventory: a handler that has started runs on.  Nobody has to
\* send a request, and no customer has to pay.
BookingFairness ==
    /\ \A b \in Creator : WF_allVars(CreateAdvance(b))
    /\ \A c \in Canceller : WF_allVars(CancelAdvance(c))
    /\ \A f \in Confirmer : WF_allVars(ConfirmAdvance(f))

BookingSpec == BookingInit /\ [][BookingNext]_bookVars /\ BookingFairness

-----------------------------------------------------------------------------
(* Properties. *)

Quantity(b) == -change[b]

\* The seats of the bookings in B, numbered within each booking.
SeatsOf(B) == {s \in B \X (1..MaxQty) : s[2] <= Quantity(s[1])}

Live == {b \in Creator : status[b] \in {"PENDING", "CONFIRMED"}}

\* No cancel request is between restoring the seats and marking the booking.
Quiet == \A c \in Canceller : ~HalfWay(c)

\* Cancel requests that have given seats back, and those seats, numbered within
\* each request; those of them for unruly bookings.
Returns == {c \in Canceller : phase[c] = "committed"}

SeatsBack(C) == {s \in C \X (1..MaxQty) : s[2] <= change[s[1]]}

Unruly(C) == {c \in C : job[c].booking \in unruly}

\* Creating, cancelling, confirming and failing keep the bookings and the event
\* in step, although they are different rows written by different
\* transactions.  Whatever the clients do, every seat is on offer or held by a
\* live booking; and no seat is both, but for those that a cancel request has
\* given back of a booking on which requests got in each other's way.
SeatsMatchBookings ==
    LET accounted == event.availableSeats + Cardinality(SeatsOf(Live))
    IN  /\ accounted >= event.capacity
        /\ Quiet => accounted <= event.capacity + Cardinality(SeatsBack(Unruly(Returns)))

\* "... to prevent over-selling": the live bookings never hold more seats than
\* the event has.
NoOversell == Quiet => Cardinality(SeatsOf(Live)) <= event.capacity

HasCoupon(b) == coupon[b] = "applied"

\* A coupon never serves more live bookings than its limit, but for one use per
\* cancel request that has given seats back of an unruly booking: every other
\* path that gives a use back belongs to a booking that is not live any more.
CouponLimit ==
    Quiet => Cardinality({b \in Live : HasCoupon(b)}) <=
             MaxUsages + Cardinality({c \in Unruly(Returns) : HasCoupon(job[c].booking)})

\* A cancelled booking's use of the coupon has come back, however many requests
\* raced to cancel or confirm it and wherever they stopped: what counts against
\* the limit belongs to bookings that are not cancelled.
CancelledUsesComeBack ==
    usages <= Cardinality({b \in Creator : HasCoupon(b) /\ status[b] # "CANCELLED"})

\* No booking is confirmed, mailed about or refunded unless it was paid.
PaidBeforeConfirmed ==
    \A b \in Creator :
        status[b] = "CONFIRMED" \/ mails[b] > 0 \/ refund[b] # "none" => intent[b] = "paid"

\* Seen from the event row, the three handlers are seat transactions of
\* SeatInventory and nothing else.
ImplementsInventory == Spec

\* Every cancel and confirm request that has read its booking comes to an end.
JobsEnd ==
    \A r \in Jobs :
        job[r].pc # "idle" ~> job[r].pc \in {"done", "stopped"}
=============================================================================
