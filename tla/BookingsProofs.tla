--------------------------- MODULE BookingsProofs ----------------------------
(***************************************************************************)
(* Bookings for any number of bookings and requests.  What its handlers do *)
(* to the event row is what SeatInventory allows, so the ledger of the     *)
(* seats holds under create, cancelBooking and confirmBooking however they *)
(* interleave, fail or are repeated; and no booking is confirmed, mailed   *)
(* about or refunded unless it was paid.                                   *)
(*                                                                         *)
(* A cancel request restores the quantity of the booking it has read.      *)
(* That this is a quantity SeatInventory allows depends on what a booking  *)
(* is (BookedTakesSeats) and on the request having read one                *)
(* (JobsHaveBookings).  That a refund is one of a paid booking depends on  *)
(* the status the request has read (SeenWasPaid).                          *)
(*                                                                         *)
(* Whether seats and uses match the bookings depends on the cancel         *)
(* requests that have given something back (Returns): each gives back what *)
(* its booking took (RestoresItsBooking), and unless requests got in each  *)
(* other's way (unruly) it is alone on its booking (OneAtATime,            *)
(* ReturnedOnce) and marks it, or is going to (ReturnsAreMarked).  Seats   *)
(* and uses are then a matter of counting: SoldIsCounted, UsesAreCounted.  *)
(*                                                                         *)
(* The gate (TicketGate) follows on top of the first invariant.            *)
(***************************************************************************)
EXTENDS TicketGate, SeatInventoryProofs, FiniteSetTheorems

\* A create request that has begun asks for at least one seat, and only such
\* a request has a booking.
BookedTakesSeats ==
    \A b \in Creator :
        /\ phase[b] # "idle" => change[b] \in -MaxQty..-1
        /\ status[b] # "none" => phase[b] # "idle"

\* A cancel or confirm request works on a booking that exists.
JobsHaveBookings == \A r \in Jobs : job[r].pc # "idle" => status[job[r].booking] # "none"

\* What a request has seen of a booking's payment stays true.  A confirm request
\* goes by the payment it has verified.
SeenWasPaid ==
    \A r \in Jobs :
        (r \in Canceller /\ job[r].seen = "CONFIRMED") \/ job[r].pc \in {"verified", "saved"}
            => intent[job[r].booking] = "paid"

BInv ==
    /\ IInv
    /\ BookingTypeOK
    /\ BookedTakesSeats
    /\ JobsHaveBookings
    /\ SeenWasPaid
    /\ PaidBeforeConfirmed

-----------------------------------------------------------------------------
(* The event row. *)

\* Every step of a handler is a step of a seat transaction, or leaves the row
\* and the transactions alone.
LEMMA StepImplementsInventory == BInv /\ [BookingStep]_allVars => [Next]_vars
  <1> SUFFICES ASSUME BInv, BookingStep, ~ UNCHANGED vars PROVE Next
    BY DEF allVars, vars
  <1>1. ASSUME NEW b \in Creator,
               \/ \E q \in 1..MaxQty, code \in {"no", "asked"} : BeginCreate(b, q, code)
               \/ CreateAdvance(b) \/ IntentFails(b) \/ Pay(b)
        PROVE  Next
    <2>1. b \in Txn
      BY RequestAssumption
    <2>2. CASE \E q \in 1..MaxQty, code \in {"no", "asked"} : BeginCreate(b, q, code)
      BY <2>1, <2>2 DEF BeginCreate, Next, Start
    <2>3. CASE \/ ApplyCoupon(b) \/ RefuseCoupon(b) \/ CreateIntent(b)
               \/ RevertInCatch(b) \/ Pay(b)
      BY <2>3 DEF ApplyCoupon, RefuseCoupon, CreateIntent, RevertInCatch, Pay, seats
    <2>4. CASE \/ SaveBooking(b) \/ SeatUpdate(b) \/ CommitCreate(b)
               \/ RollbackCreate(b) \/ IntentFails(b)
      BY <2>1, <2>4 DEF SaveBooking, SeatUpdate, CommitCreate, RollbackCreate, IntentFails,
                        Next, Advance
    <2> QED
      BY <1>1, <2>2, <2>3, <2>4 DEF CreateAdvance
  <1>2. ASSUME NEW c \in Canceller,
               (\E b \in Creator : CancelRead(c, b)) \/ CancelAdvance(c) \/ CancelStops(c)
        PROVE  Next
    <2>1. c \in Txn /\ c \in Jobs
      BY RequestAssumption DEF Jobs
    <2>2. CASE \/ \E b \in Creator : CancelRead(c, b)
               \/ Refund(c) \/ RestoreFails(c) \/ RevertCoupon(c) \/ MarkCancelled(c)
               \/ CancelStops(c)
      BY <2>2 DEF CancelRead, Refund, RestoreFails, RevertCoupon, MarkCancelled,
                  CancelStops, seats
    <2>3. CASE RestoreSeats(c)
      <3> DEFINE b == job[c].booking
      <3>1. BeginRestore(c, -change[b]) /\ job[c].pc # "idle"
        BY <2>3 DEF RestoreSeats
      <3>2. b \in Creator
        BY <2>1 DEF BInv, BookingTypeOK, Job
      <3>3. change[b] \in -MaxQty..-1
        BY <2>1, <3>1, <3>2 DEF BInv, JobsHaveBookings, BookedTakesSeats
      <3>4. -change[b] \in 1..MaxQty
        BY <3>3, MaxQtyAssumption
      <3> QED
        BY <2>1, <3>1, <3>4 DEF Next, Start
    <2>4. CASE SeatUpdate(c) \/ ((Commit(c) \/ Rollback(c)) /\ UNCHANGED bookingVars)
      BY <2>1, <2>4 DEF SeatUpdate, Next, Advance
    <2> QED
      BY <1>2, <2>2, <2>3, <2>4 DEF CancelAdvance
  <1>3. ASSUME NEW f \in Confirmer,
               (\E b \in Creator : ConfirmRead(f, b)) \/ ConfirmAdvance(f) \/ ConfirmStops(f)
        PROVE  Next
    BY <1>3 DEF ConfirmRead, ConfirmAdvance, VerifyPayment, SaveConfirmed, QueueMail,
                ConfirmStops, seats
  <1>4. CASE \E t \in Txn : Fault(t) /\ UNCHANGED bookingVars
    BY <1>4 DEF Next
  <1> QED
    BY <1>1, <1>2, <1>3, <1>4 DEF BookingStep

LEMMA StepKeepsIInv == BInv /\ [BookingStep]_allVars => IInv'
  BY StepImplementsInventory, NextIInv DEF BInv

-----------------------------------------------------------------------------
(* Bookings take seats. *)

\* A transaction that has begun never returns to idle, and its change is
\* settled.
LEMMA BegunStaysBegun ==
    ASSUME BInv, NEW t \in Txn,
           \/ InsertBooking(t) \/ Update(t) \/ Commit(t) \/ Rollback(t)
           \/ Compensate(t) \/ Fault(t)
    PROVE  /\ phase[t] # "idle" /\ phase'[t] # "idle"
           /\ \A u \in Txn : u # t => phase'[u] = phase[u]
           /\ change' = change
  BY DEF BInv, IInv, LInv, TypeOK, InsertBooking, Update, LockRow, LockRefused, WriteSeats,
         RejectSeats, Commit, Rollback, Compensate, Fault, Ended

\* The rows that may change in a step, and how, as far as BookedTakesSeats is
\* concerned.
LEMMA SeatsStepKeeps ==
    ASSUME BInv, [BookingStep]_allVars
    PROVE  \A b \in Creator :
              /\ phase[b] # "idle" => phase'[b] # "idle" /\ change'[b] = change[b]
              /\ phase'[b] # "idle" => change'[b] \in -MaxQty..-1
  <1> USE RequestAssumption DEF BInv
  <1>1. ASSUME UNCHANGED <<phase, change>> PROVE \A b \in Creator :
              /\ phase[b] # "idle" => phase'[b] # "idle" /\ change'[b] = change[b]
              /\ phase'[b] # "idle" => change'[b] \in -MaxQty..-1
    BY <1>1 DEF BookedTakesSeats
  <1>2. ASSUME NEW t \in Txn,
               \/ InsertBooking(t) \/ Update(t) \/ Commit(t) \/ Rollback(t)
               \/ Compensate(t) \/ Fault(t)
        PROVE \A b \in Creator :
              /\ phase[b] # "idle" => phase'[b] # "idle" /\ change'[b] = change[b]
              /\ phase'[b] # "idle" => change'[b] \in -MaxQty..-1
    BY <1>2, BegunStaysBegun DEF BookedTakesSeats
  <1>3. ASSUME NEW a \in Creator, NEW q \in 1..MaxQty, CheckSeats(a, q)
        PROVE \A b \in Creator :
              /\ phase[b] # "idle" => phase'[b] # "idle" /\ change'[b] = change[b]
              /\ phase'[b] # "idle" => change'[b] \in -MaxQty..-1
    <2>1. -q \in -MaxQty..-1
      BY MaxQtyAssumption
    <2>2. /\ phase[a] = "idle" /\ change'[a] = -q
          /\ \A b \in Creator : b # a => phase'[b] = phase[b] /\ change'[b] = change[b]
      BY <1>3 DEF CheckSeats, IInv, LInv, TypeOK
    <2> QED
      BY <2>1, <2>2 DEF BookedTakesSeats
  <1>4. ASSUME NEW c \in Canceller, NEW q \in Int, BeginRestore(c, q)
        PROVE \A b \in Creator :
              /\ phase[b] # "idle" => phase'[b] # "idle" /\ change'[b] = change[b]
              /\ phase'[b] # "idle" => change'[b] \in -MaxQty..-1
    <2>1. \A b \in Creator : phase'[b] = phase[b] /\ change'[b] = change[b]
      BY <1>4 DEF BeginRestore, IInv, LInv, TypeOK
    <2> QED
      BY <2>1 DEF BookedTakesSeats
  <1>5. CASE UNCHANGED allVars
    BY <1>1, <1>5 DEF allVars
  <1>6. ASSUME NEW b \in Creator,
               \/ \E q \in 1..MaxQty, code \in {"no", "asked"} : BeginCreate(b, q, code)
               \/ CreateAdvance(b) \/ IntentFails(b) \/ Pay(b)
        PROVE \/ UNCHANGED <<phase, change>>
              \/ \E q \in 1..MaxQty : CheckSeats(b, q)
              \/ InsertBooking(b) \/ Update(b) \/ Commit(b) \/ Rollback(b) \/ Compensate(b)
    BY <1>6 DEF BeginCreate, CreateAdvance, ApplyCoupon, RefuseCoupon, SaveBooking,
                SeatUpdate, CreateIntent, CommitCreate, RevertInCatch, RollbackCreate,
                IntentFails, Pay, seats, vars
  <1>7. ASSUME NEW c \in Canceller,
               (\E b \in Creator : CancelRead(c, b)) \/ CancelAdvance(c) \/ CancelStops(c)
        PROVE \/ UNCHANGED <<phase, change>>
              \/ BeginRestore(c, -change[job[c].booking])
              \/ Update(c) \/ Commit(c) \/ Rollback(c)
    BY <1>7 DEF CancelRead, CancelAdvance, Refund, RestoreSeats, SeatUpdate, RestoreFails,
                RevertCoupon, MarkCancelled, CancelStops, seats, vars
  <1>8. ASSUME NEW f \in Confirmer,
               (\E b \in Creator : ConfirmRead(f, b)) \/ ConfirmAdvance(f) \/ ConfirmStops(f)
        PROVE UNCHANGED <<phase, change>>
    BY <1>8 DEF ConfirmRead, ConfirmAdvance, VerifyPayment, SaveConfirmed, QueueMail,
                ConfirmStops, seats, vars
  <1>9. \A c \in Canceller : -change[job[c].booking] \in Int
    <2> SUFFICES ASSUME NEW c \in Canceller PROVE -change[job[c].booking] \in Int
      OBVIOUS
    <2>1. job[c].booking \in Txn
      BY DEF BookingTypeOK, Job, Jobs
    <2> QED
      BY <2>1, MaxQtyAssumption DEF IInv, LInv, TypeOK
  <1> QED
    BY <1>1, <1>2, <1>3, <1>4, <1>5, <1>6, <1>7, <1>8, <1>9 DEF BookingStep

-----------------------------------------------------------------------------
(* Bookings, coupons, payments and requests. *)

\* The part of BookingTypeOK that is about the variables of Bookings.
RecordsOK ==
    /\ status \in [Creator -> Status]
    /\ coupon \in [Creator -> {"no", "asked", "applied", "reverted"}]
    /\ usages \in Int
    /\ intent \in [Creator -> {"none", "open", "paid"}]
    /\ refund \in [Creator -> {"none", "asked"}]
    /\ mails \in [Creator -> Nat]
    /\ job \in [Jobs -> Job]

Records == RecordsOK /\ JobsHaveBookings /\ SeenWasPaid /\ PaidBeforeConfirmed

LEMMA RecordsOfBInv == BInv => Records
  BY DEF BInv, Records, RecordsOK, BookingTypeOK

\* A request that goes on keeps its booking and what it has seen of it.
LEMMA JobMoves ==
    ASSUME job \in [Jobs -> Job], NEW r \in Jobs, NEW l \in JobPC,
           job' = [job EXCEPT ![r].pc = l]
    PROVE  /\ job' \in [Jobs -> Job]
           /\ job'[r].pc = l
           /\ \A s \in Jobs : /\ job'[s].booking = job[s].booking
                              /\ job'[s].seen = job[s].seen
                              /\ s # r => job'[s] = job[s]
  <1>1. job[r] \in Job /\ [job[r] EXCEPT !.pc = l] \in Job
    BY DEF Job
  <1>2. job' = [job EXCEPT ![r] = [job[r] EXCEPT !.pc = l]]
    OBVIOUS
  <1>3. job' \in [Jobs -> Job]
    BY <1>1, <1>2
  <1>4. /\ [job[r] EXCEPT !.pc = l].pc = l
        /\ [job[r] EXCEPT !.pc = l].booking = job[r].booking
        /\ [job[r] EXCEPT !.pc = l].seen = job[r].seen
    BY <1>1 DEF Job
  <1> QED
    BY <1>2, <1>3, <1>4

\* Steps that move only the event row and its transactions.
LEMMA SeatStepRecords ==
    ASSUME BInv, UNCHANGED bookingVars
    PROVE  Records'
  BY RecordsOfBInv DEF bookingVars, Records, RecordsOK, JobsHaveBookings, SeenWasPaid,
                       PaidBeforeConfirmed

\* The steps of create: a coupon, an intent and a payment move, and a booking
\* becomes visible as PENDING.
LEMMA CreateRecords ==
    ASSUME BInv, NEW b \in Creator,
           \/ \E q \in 1..MaxQty, code \in {"no", "asked"} : BeginCreate(b, q, code)
           \/ CreateAdvance(b) \/ IntentFails(b) \/ Pay(b)
    PROVE  Records'
  <1>0. Records
    BY RecordsOfBInv
  <1>1. CASE \E q \in 1..MaxQty, code \in {"no", "asked"} : BeginCreate(b, q, code)
    BY <1>0, <1>1 DEF BeginCreate, Records, RecordsOK, JobsHaveBookings, SeenWasPaid,
                      PaidBeforeConfirmed
  <1>2. CASE ApplyCoupon(b) \/ RefuseCoupon(b) \/ RevertInCatch(b)
    BY <1>0, <1>2 DEF ApplyCoupon, RefuseCoupon, RevertInCatch, Records, RecordsOK,
                      JobsHaveBookings, SeenWasPaid, PaidBeforeConfirmed
  <1>3. CASE SaveBooking(b) \/ SeatUpdate(b) \/ RollbackCreate(b) \/ IntentFails(b)
    BY <1>3, SeatStepRecords DEF SaveBooking, SeatUpdate, RollbackCreate, IntentFails
  <1>4. CASE CreateIntent(b) \/ Pay(b)
    <2>1. /\ intent' \in [Creator -> {"none", "open", "paid"}]
          /\ \A a \in Creator : intent[a] = "paid" => intent'[a] = "paid"
          /\ UNCHANGED <<status, coupon, usages, refund, mails, job>>
      BY <1>0, <1>4 DEF CreateIntent, Pay, Records, RecordsOK
    <2>2. \A r \in Jobs : job[r].booking \in Creator
      BY <1>0 DEF Records, RecordsOK, Job
    <2> QED
      BY <1>0, <2>1, <2>2 DEF Records, RecordsOK, JobsHaveBookings, SeenWasPaid,
                              PaidBeforeConfirmed
  <1>5. CASE CommitCreate(b)
    <2>1. /\ status' \in [Creator -> Status]
          /\ \A a \in Creator : status[a] # "none" => status'[a] # "none"
          /\ \A a \in Creator : status'[a] = "CONFIRMED" => status[a] = "CONFIRMED"
          /\ UNCHANGED <<coupon, usages, intent, refund, mails, job>>
      BY <1>0, <1>5 DEF CommitCreate, Records, RecordsOK, Status
    <2>2. \A r \in Jobs : job[r].booking \in Creator
      BY <1>0 DEF Records, RecordsOK, Job
    <2> QED
      BY <1>0, <2>1, <2>2 DEF Records, RecordsOK, JobsHaveBookings, SeenWasPaid,
                              PaidBeforeConfirmed
  <1> QED
    BY <1>1, <1>2, <1>3, <1>4, <1>5 DEF CreateAdvance

\* A cancel request that reads its booking sees CONFIRMED only when it was paid.
LEMMA ReadRecords ==
    ASSUME BInv, NEW r \in Jobs, NEW v \in Job, v.pc \in {"read", "done"},
           status[v.booking] # "none",
           r \in Canceller => v.seen = status[v.booking],
           job' = [job EXCEPT ![r] = v],
           UNCHANGED <<status, coupon, usages, intent, refund, mails>>
    PROVE  Records'
  <1>0. Records
    BY RecordsOfBInv
  <1>1. v.booking \in Creator
    BY DEF Job
  <1>2. /\ job' \in [Jobs -> Job]
        /\ job'[r] = v
        /\ \A s \in Jobs : s # r => job'[s] = job[s]
    BY <1>0, <1>1 DEF Records, RecordsOK
  <1>3. RecordsOK' /\ PaidBeforeConfirmed'
    BY <1>0, <1>2 DEF Records, RecordsOK, PaidBeforeConfirmed
  <1>4. JobsHaveBookings'
    BY <1>0, <1>2 DEF Records, JobsHaveBookings
  <1>5. SeenWasPaid'
    BY <1>0, <1>1, <1>2 DEF Records, SeenWasPaid, PaidBeforeConfirmed
  <1> QED
    BY <1>3, <1>4, <1>5 DEF Records

\* What the two reads leave of the request.
LEMMA ReadsBooking ==
    ASSUME job \in [Jobs -> Job], status \in [Creator -> Status],
           NEW r \in Jobs, NEW b \in Creator, CancelRead(r, b) \/ ConfirmRead(r, b)
    PROVE  \E v \in Job :
              /\ v.pc \in {"read", "done"} /\ v.booking = b
              /\ CancelRead(r, b) =>
                    v.seen = status[b] /\ (v.pc = "read" => status[b] # "CANCELLED")
              /\ job' = [job EXCEPT ![r] = v]
  <1>1. CASE CancelRead(r, b)
    <2> DEFINE l == IF status[b] = "CANCELLED" THEN "done" ELSE "read"
               v == [pc |-> l, booking |-> b, seen |-> status[b]]
    <2>1. l \in {"read", "done"} /\ l \in JobPC /\ status[b] \in Status
          /\ (l = "read" => status[b] # "CANCELLED")
      BY DEF JobPC
    <2>2. job' = [job EXCEPT ![r] = v]
      BY <1>1 DEF CancelRead
    <2> HIDE DEF l
    <2>3. v \in Job /\ v.pc = l /\ v.booking = b /\ v.seen = status[b]
      BY <2>1 DEF Job
    <2> HIDE DEF v
    <2> QED
      BY <2>1, <2>2, <2>3
  <1>2. CASE ~CancelRead(r, b) /\ ConfirmRead(r, b)
    <2> DEFINE l == IF status[b] = "CONFIRMED" THEN "done" ELSE "read"
               v == [job[r] EXCEPT !.pc = l, !.booking = b]
    <2>1. l \in {"read", "done"} /\ l \in JobPC /\ job[r] \in Job
      BY DEF JobPC
    <2>2. job' = [job EXCEPT ![r].pc = l, ![r].booking = b]
      BY <1>2 DEF ConfirmRead
    <2> HIDE DEF l
    <2>3. job' = [job EXCEPT ![r] = v]
      BY <2>2
    <2>4. v \in Job /\ v.pc = l /\ v.booking = b
      BY <2>1 DEF Job
    <2> HIDE DEF v
    <2> QED
      BY <1>2, <2>1, <2>3, <2>4
  <1> QED
    BY <1>1, <1>2

\* A request that goes on within its handler: it may refund, mark or mail
\* about its booking, as long as that booking was paid where that matters.
LEMMA JobStepRecords ==
    ASSUME BInv, NEW r \in Jobs, NEW l \in JobPC,
           l # "idle", job[r].pc # "idle",
           job' = [job EXCEPT ![r].pc = l],
           l \in {"verified", "saved"} => intent[job[r].booking] = "paid",
           usages' \in Int,
           \/ UNCHANGED <<status, refund, mails>>
           \/ \E v \in {"CONFIRMED", "CANCELLED"} :
                 /\ status' = [status EXCEPT ![job[r].booking] = v]
                 /\ v = "CONFIRMED" => intent[job[r].booking] = "paid"
                 /\ UNCHANGED <<refund, mails>>
           \/ /\ intent[job[r].booking] = "paid"
              /\ refund' = [refund EXCEPT ![job[r].booking] = "asked"]
              /\ UNCHANGED <<status, mails>>
           \/ /\ intent[job[r].booking] = "paid"
              /\ \E n \in Nat : mails' = [mails EXCEPT ![job[r].booking] = n]
              /\ UNCHANGED <<status, refund>>,
           UNCHANGED <<coupon, intent>>
    PROVE  Records'
  <1>0. Records
    BY RecordsOfBInv
  <1>1. /\ job' \in [Jobs -> Job]
        /\ job'[r].pc = l
        /\ \A s \in Jobs : /\ job'[s].booking = job[s].booking
                           /\ job'[s].seen = job[s].seen
                           /\ s # r => job'[s] = job[s]
    BY <1>0, JobMoves DEF Records, RecordsOK
  <1>2. \A s \in Jobs : job[s].booking \in Creator
    BY <1>0 DEF Records, RecordsOK, Job
  <1>3. /\ status' \in [Creator -> Status]
        /\ refund' \in [Creator -> {"none", "asked"}]
        /\ mails' \in [Creator -> Nat]
    BY <1>0, <1>2 DEF Records, RecordsOK, Status
  <1>4. RecordsOK'
    BY <1>0, <1>1, <1>3 DEF Records, RecordsOK
  <1>5. JobsHaveBookings'
    <2>1. \A b \in Creator : status[b] # "none" => status'[b] # "none"
      BY <1>0, <1>2 DEF Records, RecordsOK
    <2> QED
      BY <1>0, <1>1, <1>2, <2>1 DEF Records, JobsHaveBookings
  <1>6. SeenWasPaid'
    BY <1>0, <1>1 DEF Records, SeenWasPaid
  <1>7. PaidBeforeConfirmed'
    <2>1. \A b \in Creator : b # job[r].booking \/ intent[b] # "paid" =>
             /\ refund'[b] = refund[b] /\ mails'[b] = mails[b]
             /\ status'[b] = "CONFIRMED" => status[b] = "CONFIRMED"
      BY <1>0, <1>2 DEF Records, RecordsOK
    <2> QED
      BY <1>0, <2>1 DEF Records, PaidBeforeConfirmed
  <1> QED
    BY <1>4, <1>5, <1>6, <1>7 DEF Records

\* The steps of cancelBooking.
LEMMA CancelRecords ==
    ASSUME BInv, NEW c \in Canceller,
           (\E b \in Creator : CancelRead(c, b)) \/ CancelAdvance(c) \/ CancelStops(c)
    PROVE  Records'
  <1>0. Records /\ c \in Jobs /\ usages \in Int
    BY RecordsOfBInv DEF Jobs, Records, RecordsOK
  <1>1. ASSUME NEW b \in Creator, CancelRead(c, b) PROVE Records'
    <2>1. PICK v \in Job : /\ v.pc \in {"read", "done"} /\ v.booking = b /\ v.seen = status[b]
                          /\ job' = [job EXCEPT ![c] = v]
      BY <1>0, <1>1, ReadsBooking DEF Records, RecordsOK
    <2>2. /\ status[b] # "none"
          /\ UNCHANGED <<status, coupon, usages, intent, refund, mails>>
      BY <1>1 DEF CancelRead
    <2> QED
      BY <1>0, <2>1, <2>2, ReadRecords
  <1>2. CASE Refund(c)
    <2>1. intent[job[c].booking] = "paid"
      BY <1>0, <1>2 DEF Refund, Records, SeenWasPaid
    <2>2. refund' = [refund EXCEPT ![job[c].booking] = "asked"]
      BY <1>2 DEF Refund
    <2>3. /\ job[c].pc # "idle" /\ "refunded" \in JobPC
          /\ job' = [job EXCEPT ![c].pc = "refunded"]
          /\ UNCHANGED <<status, coupon, usages, intent, mails>>
      BY <1>2 DEF Refund, JobPC
    <2> QED
      BY <1>0, <2>1, <2>2, <2>3, JobStepRecords
  <1>3. CASE RestoreSeats(c)
    <2>1. /\ job[c].pc # "idle" /\ "restoring" \in JobPC
          /\ job' = [job EXCEPT ![c].pc = "restoring"]
          /\ UNCHANGED <<status, coupon, usages, intent, refund, mails>>
      BY <1>3 DEF RestoreSeats, JobPC
    <2> QED
      BY <1>0, <2>1, JobStepRecords
  <1>4. CASE SeatUpdate(c) \/ ((Commit(c) \/ Rollback(c)) /\ UNCHANGED bookingVars)
    BY <1>4, SeatStepRecords DEF SeatUpdate
  <1>5. CASE RestoreFails(c)
    <2>1. /\ job[c].pc # "idle" /\ "done" \in JobPC
          /\ job' = [job EXCEPT ![c].pc = "done"]
          /\ UNCHANGED <<status, coupon, usages, intent, refund, mails>>
      BY <1>5 DEF RestoreFails, JobPC
    <2> QED
      BY <1>0, <2>1, JobStepRecords
  <1>6. CASE RevertCoupon(c)
    <2>1. usages' \in Int
      BY <1>0, <1>6 DEF RevertCoupon
    <2>2. /\ job[c].pc # "idle" /\ "reverted" \in JobPC
          /\ job' = [job EXCEPT ![c].pc = "reverted"]
          /\ UNCHANGED <<status, coupon, intent, refund, mails>>
      BY <1>6 DEF RevertCoupon, JobPC
    <2> QED
      BY <1>0, <2>1, <2>2, JobStepRecords
  <1>7. CASE MarkCancelled(c)
    <2>1. /\ job[c].pc # "idle" /\ "done" \in JobPC
          /\ job' = [job EXCEPT ![c].pc = "done"]
          /\ status' = [status EXCEPT ![job[c].booking] = "CANCELLED"]
          /\ UNCHANGED <<coupon, usages, intent, refund, mails>>
      BY <1>7 DEF MarkCancelled, JobPC
    <2> QED
      BY <1>0, <2>1, JobStepRecords
  <1>8. CASE CancelStops(c)
    <2>1. /\ job[c].pc # "idle" /\ "stopped" \in JobPC
          /\ job' = [job EXCEPT ![c].pc = "stopped"]
          /\ UNCHANGED <<status, coupon, usages, intent, refund, mails>>
      BY <1>8 DEF CancelStops, HalfWay, JobPC
    <2> QED
      BY <1>0, <2>1, JobStepRecords
  <1> QED
    BY <1>1, <1>2, <1>3, <1>4, <1>5, <1>6, <1>7, <1>8 DEF CancelAdvance

\* The steps of confirmBooking: it confirms and mails only after the payment
\* has been verified.
LEMMA ConfirmRecords ==
    ASSUME BInv, NEW f \in Confirmer,
           (\E b \in Creator : ConfirmRead(f, b)) \/ ConfirmAdvance(f) \/ ConfirmStops(f)
    PROVE  Records'
  <1>0. Records /\ f \in Jobs /\ usages \in Int
    BY RecordsOfBInv DEF Jobs, Records, RecordsOK
  <1>1. ASSUME NEW b \in Creator, ConfirmRead(f, b) PROVE Records'
    <2>1. PICK v \in Job : /\ v.pc \in {"read", "done"} /\ v.booking = b
                          /\ job' = [job EXCEPT ![f] = v]
      BY <1>0, <1>1, ReadsBooking DEF Records, RecordsOK
    <2>2. /\ status[b] # "none" /\ f \notin Canceller
          /\ UNCHANGED <<status, coupon, usages, intent, refund, mails>>
      BY <1>1, RequestAssumption DEF ConfirmRead
    <2> QED
      BY <1>0, <2>1, <2>2, ReadRecords
  <1>2. CASE VerifyPayment(f)
    <2>1. PICK l \in {"verified", "done"} :
             /\ job' = [job EXCEPT ![f].pc = l]
             /\ l = "verified" => intent[job[f].booking] = "paid"
      BY <1>2 DEF VerifyPayment
    <2>2. /\ job[f].pc # "idle" /\ l \in JobPC
          /\ UNCHANGED <<status, coupon, usages, intent, refund, mails>>
      BY <1>2 DEF VerifyPayment, JobPC
    <2> QED
      BY <1>0, <2>1, <2>2, JobStepRecords
  <1>3. CASE SaveConfirmed(f)
    <2>1. /\ job[f].pc = "verified" /\ "saved" \in JobPC
          /\ job' = [job EXCEPT ![f].pc = "saved"]
          /\ status' = [status EXCEPT ![job[f].booking] = "CONFIRMED"]
          /\ UNCHANGED <<coupon, usages, intent, refund, mails>>
      BY <1>3 DEF SaveConfirmed, JobPC
    <2>2. intent[job[f].booking] = "paid"
      BY <1>0, <2>1 DEF Records, SeenWasPaid
    <2> QED
      BY <1>0, <2>1, <2>2, JobStepRecords
  <1>4. CASE QueueMail(f)
    <2>1. /\ job[f].pc = "saved" /\ "done" \in JobPC
          /\ job' = [job EXCEPT ![f].pc = "done"]
          /\ UNCHANGED <<status, coupon, usages, intent, refund>>
      BY <1>4 DEF QueueMail, JobPC
    <2>2. intent[job[f].booking] = "paid"
      BY <1>0, <2>1 DEF Records, SeenWasPaid
    <2>3. \E n \in Nat : mails' = [mails EXCEPT ![job[f].booking] = n]
      <3>1. PICK queued \in {0, 1} :
               mails' = [mails EXCEPT ![job[f].booking] = @ + queued]
        BY <1>4 DEF QueueMail
      <3>2. job[f].booking \in Creator
        BY <1>0 DEF Records, RecordsOK, Job
      <3>3. mails[job[f].booking] + queued \in Nat
        BY <1>0, <3>2 DEF Records, RecordsOK
      <3> QED
        BY <3>1, <3>3
    <2> QED
      BY <1>0, <2>1, <2>2, <2>3, JobStepRecords
  <1>5. CASE ConfirmStops(f)
    <2>1. /\ job[f].pc # "idle" /\ "done" \in JobPC
          /\ job' = [job EXCEPT ![f].pc = "done"]
          /\ UNCHANGED <<status, coupon, usages, intent, refund, mails>>
      BY <1>5 DEF ConfirmStops, JobPC
    <2> QED
      BY <1>0, <2>1, JobStepRecords
  <1> QED
    BY <1>1, <1>2, <1>3, <1>4, <1>5 DEF ConfirmAdvance

LEMMA StepKeepsRecords == BInv /\ [BookingStep]_allVars => Records'
  <1> SUFFICES ASSUME BInv, [BookingStep]_allVars PROVE Records'
    OBVIOUS
  <1>1. CASE UNCHANGED allVars
    BY <1>1, SeatStepRecords DEF allVars, bookingVars
  <1>2. CASE BookingStep
    BY <1>2, CreateRecords, CancelRecords, ConfirmRecords, SeatStepRecords DEF BookingStep
  <1> QED
    BY <1>1, <1>2

\* The steps that move the status of a booking.
LEMMA StatusMoves ==
    ASSUME BInv, [BookingStep]_allVars
    PROVE  \/ UNCHANGED status
           \/ \E a \in Creator : CommitCreate(a)
           \/ \E c \in Canceller : MarkCancelled(c)
           \/ \E f \in Confirmer : SaveConfirmed(f)
  <1>1. CASE UNCHANGED allVars
    BY <1>1 DEF allVars
  <1>2. ASSUME NEW b \in Creator,
               \/ \E q \in 1..MaxQty, code \in {"no", "asked"} : BeginCreate(b, q, code)
               \/ CreateAdvance(b) \/ IntentFails(b) \/ Pay(b)
        PROVE  UNCHANGED status \/ CommitCreate(b)
    BY <1>2 DEF BeginCreate, CreateAdvance, ApplyCoupon, RefuseCoupon, SaveBooking,
                SeatUpdate, CreateIntent, RevertInCatch, RollbackCreate, IntentFails,
                Pay, bookingVars
  <1>3. ASSUME NEW c \in Canceller,
               (\E b \in Creator : CancelRead(c, b)) \/ CancelAdvance(c) \/ CancelStops(c)
        PROVE  UNCHANGED status \/ MarkCancelled(c)
    BY <1>3 DEF CancelRead, CancelAdvance, Refund, RestoreSeats, SeatUpdate, RestoreFails,
                RevertCoupon, CancelStops, bookingVars
  <1>4. ASSUME NEW f \in Confirmer,
               (\E b \in Creator : ConfirmRead(f, b)) \/ ConfirmAdvance(f) \/ ConfirmStops(f)
        PROVE  UNCHANGED status \/ SaveConfirmed(f)
    BY <1>4 DEF ConfirmRead, ConfirmAdvance, VerifyPayment, QueueMail, ConfirmStops
  <1> QED
    BY <1>1, <1>2, <1>3, <1>4 DEF BookingStep, bookingVars

\* A booking gets a status only in the commit of its create request.
LEMMA StepKeepsBookedTakesSeats == BInv /\ [BookingStep]_allVars => BookedTakesSeats'
  <1> SUFFICES ASSUME BInv, [BookingStep]_allVars PROVE BookedTakesSeats'
    OBVIOUS
  <1>1. \A b \in Creator : status'[b] # "none" => phase'[b] # "idle"
    <2>1. CASE UNCHANGED status
      BY <2>1, SeatsStepKeeps DEF BInv, BookedTakesSeats
    <2>2. ASSUME NEW a \in Creator, CommitCreate(a)
          PROVE  \A b \in Creator : status'[b] # "none" => phase'[b] # "idle"
      <3>1. \A b \in Creator : status'[b] # "none" => status[b] # "none" \/ b = a
        BY <2>2 DEF CommitCreate, BInv, BookingTypeOK
      <3>2. phase'[a] # "idle"
        BY <2>2, BegunStaysBegun, RequestAssumption DEF CommitCreate
      <3> QED
        BY <3>1, <3>2, SeatsStepKeeps DEF BInv, BookedTakesSeats
    <2>3. ASSUME NEW r \in Jobs, NEW v, job[r].pc # "idle",
                 status' = [status EXCEPT ![job[r].booking] = v]
          PROVE  \A b \in Creator : status'[b] # "none" => phase'[b] # "idle"
      <3>1. \A b \in Creator : status'[b] # "none" => status[b] # "none"
        BY <2>3 DEF BInv, BookingTypeOK, JobsHaveBookings
      <3> QED
        BY <3>1, SeatsStepKeeps DEF BInv, BookedTakesSeats
    <2>4. ASSUME NEW c \in Canceller, MarkCancelled(c)
          PROVE  \A b \in Creator : status'[b] # "none" => phase'[b] # "idle"
      BY <2>3, <2>4 DEF MarkCancelled, Jobs
    <2>5. ASSUME NEW f \in Confirmer, SaveConfirmed(f)
          PROVE  \A b \in Creator : status'[b] # "none" => phase'[b] # "idle"
      BY <2>3, <2>5 DEF SaveConfirmed, Jobs
    <2> QED
      BY <2>1, <2>2, <2>4, <2>5, StatusMoves
  <1> QED
    BY <1>1, SeatsStepKeeps DEF BookedTakesSeats

-----------------------------------------------------------------------------
(* The theorems. *)

LEMMA InitBInv == BookingInit => BInv
  <1> SUFFICES ASSUME BookingInit PROVE BInv
    OBVIOUS
  <1>1. IInv /\ TypeOK
    BY InitIInv DEF BookingInit, IInv, LInv
  <1>2. PICK b \in Creator :
          job = [r \in Jobs |->
                    [pc |-> "idle", booking |-> b, seen |-> "none"]]
    BY DEF BookingInit
  <1>3. job \in [Jobs -> Job]
    BY <1>2 DEF Job, JobPC, Status
  <1>4. BookingTypeOK
    <2>1. /\ status = [a \in Creator |-> "none"]
          /\ coupon = [a \in Creator |-> "no"]
          /\ usages = 0
          /\ intent = [a \in Creator |-> "none"]
          /\ refund = [a \in Creator |-> "none"]
          /\ mails = [a \in Creator |-> 0]
          /\ unruly = {}
      BY DEF BookingInit
    <2> QED
      BY <1>1, <1>3, <2>1 DEF BookingTypeOK, Status
  <1>5. BookedTakesSeats
    BY RequestAssumption DEF BookingInit, Init, BookedTakesSeats
  <1>6. JobsHaveBookings /\ SeenWasPaid
    BY <1>2 DEF JobsHaveBookings, SeenWasPaid
  <1>7. PaidBeforeConfirmed
    BY DEF BookingInit, PaidBeforeConfirmed
  <1> QED
    BY <1>1, <1>4, <1>5, <1>6, <1>7 DEF BInv

\* A step of the specification is one of the handlers.
LEMMA StepOfNext == [BookingNext]_bookVars => [BookingStep]_allVars
  BY DEF BookingNext, bookVars

LEMMA NextBInv == BInv /\ [BookingNext]_bookVars => BInv'
  <1> SUFFICES ASSUME BInv, [BookingNext]_bookVars PROVE BInv'
    OBVIOUS
  <1>0. [BookingStep]_allVars
    BY StepOfNext
  <1>1. IInv' /\ TypeOK'
    BY <1>0, StepKeepsIInv DEF IInv, LInv
  <1>2. Records'
    BY <1>0, StepKeepsRecords
  <1>3. unruly' \subseteq Creator
    BY DEF BInv, BookingTypeOK, BookingNext, Remember, bookVars
  <1>4. BookingTypeOK'
    BY <1>1, <1>2, <1>3 DEF Records, RecordsOK, BookingTypeOK
  <1> QED
    BY <1>0, <1>1, <1>2, <1>4, StepKeepsBookedTakesSeats DEF Records, BInv

\* The inductive invariant of the composed handlers.
THEOREM BookingInvariance == BookingSpec => []BInv
  BY InitBInv, NextBInv, PTL DEF BookingSpec

\* Every variable of the composed handlers keeps its type.
THEOREM BookingTypeCorrect == BookingSpec => []BookingTypeOK
  <1>1. BInv => BookingTypeOK
    BY DEF BInv
  <1> QED
    BY <1>1, BookingInvariance, PTL

\* No booking is confirmed, mailed about or refunded unless it was paid, for
\* any number of confirm and cancel requests racing on it.
THEOREM PaidBeforeConfirmedHolds == BookingSpec => []PaidBeforeConfirmed
  <1>1. BInv => PaidBeforeConfirmed
    BY DEF BInv
  <1> QED
    BY <1>1, BookingInvariance, PTL

\* Seen from the event row, create, cancelBooking and confirmBooking are seat
\* transactions of SeatInventory and nothing else.
THEOREM BookingsRefineInventory == BookingSpec => ImplementsInventory
  <1>1. BookingInit => Init
    BY DEF BookingInit
  <1> QED
    BY <1>1, StepOfNext, StepImplementsInventory, BookingInvariance, PTL
       DEF BookingSpec, ImplementsInventory, Spec

\* Hence the seats add up under the composed handlers too.
THEOREM BookingsKeepLedger == BookingSpec => []Ledger
  BY BookingsRefineInventory, LedgerHolds DEF ImplementsInventory

\* And all three handlers together are one atomic counter of seats.
THEOREM BookingsImplementCounter == BookingSpec => ImplementsCounter
  BY BookingsRefineInventory, Refinement DEF ImplementsInventory

-----------------------------------------------------------------------------
(* The seats and the coupon, whatever the clients do.                        *)

\* While the seat transaction of a cancel request runs, the request awaits it,
\* and it gives back what its booking has taken; after that it goes on.
RestoresItsBooking ==
    \A c \in Canceller :
        /\ phase[c] # "idle" =>
              /\ job[c].pc \notin {"idle", "read", "refunded"}
              /\ change[c] = -change[job[c].booking]
              /\ phase[c] \notin Ended => job[c].pc = "restoring"
        /\ job[c].pc = "reverted" => phase[c] = "committed"

\* A booking has a status once its transaction is committed; only a cancel
\* request that has given the seats back marks one as cancelled; and the coupon
\* is asked for in the transaction.
BookedIsCommitted ==
    \A b \in Creator :
        /\ status[b] # "none" => phase[b] = "committed"
        /\ status[b] = "CANCELLED" =>
              \E c \in Returns : job[c].booking = b /\ job[c].pc = "done"
        /\ HasCoupon(b) => phase[b] # "idle"

\* A booking that is not unruly: while a cancel request works on it no other
\* request does, no request works on it when it is cancelled, and at most one
\* cancel request gives its seats back, which marks it or is going to.
OneAtATime ==
    \A c \in Canceller, r \in Jobs :
        /\ Active(c) /\ Active(r) /\ job[r].booking = job[c].booking
        /\ job[c].booking \notin unruly
        => r = c

ActiveIsLive ==
    \A r \in Jobs :
        Active(r) /\ job[r].booking \notin unruly => status[job[r].booking] # "CANCELLED"

ReturnsAreMarked ==
    \A c \in Returns :
        job[c].booking \notin unruly => HalfWay(c) \/ status[job[c].booking] = "CANCELLED"

ReturnedOnce ==
    \A c, d \in Returns : job[c].booking = job[d].booking /\ job[c].booking \notin unruly => c = d

\* The seats taken by bookings and given back by cancel requests are what the
\* ledger counts as sold.
Booked == {b \in Creator : status[b] # "none"}

SoldIsCounted ==
    /\ IsFiniteSet(SeatsOf(Booked)) /\ IsFiniteSet(SeatsBack(Returns))
    /\ sold + Cardinality(SeatsBack(Returns)) = Cardinality(SeatsOf(Booked))

\* Every booking with the coupon has a use that counts, but for one per cancel
\* request that may have given it back; and no other use counts, but for one
\* per cancel request that has given one back and goes on.
Coup == {b \in Creator : HasCoupon(b)}

MayHaveReverted == {c \in Returns : HasCoupon(job[c].booking) /\ job[c].pc # "restoring"}

HasReverted == {c \in Returns : HasCoupon(job[c].booking) /\ job[c].pc \in {"reverted", "done"}}

UsesAreCounted ==
    /\ IsFiniteSet(Coup) /\ IsFiniteSet(Returns)
    /\ Cardinality(Coup) <= usages + Cardinality(MayHaveReverted)
    /\ usages + Cardinality(HasReverted) <= Cardinality(Coup)
    /\ usages <= MaxUsages

RInv ==
    /\ BInv
    /\ RestoresItsBooking
    /\ BookedIsCommitted
    /\ OneAtATime
    /\ ActiveIsLive
    /\ ReturnsAreMarked
    /\ ReturnedOnce
    /\ SoldIsCounted
    /\ UsesAreCounted

-----------------------------------------------------------------------------
(* The kinds of step.                                                        *)

\* Steps of seat transactions other than a commit.
SeatsOnly ==
    /\ UNCHANGED <<status, job, sold>>
    /\ \A t \in Txn : phase'[t] = "committed" <=> phase[t] = "committed"
    /\ \A c \in Canceller :
          /\ change'[c] = change[c]
          /\ phase'[c] = phase[c] \/ (phase[c] \notin Ended \union {"idle"} /\ phase'[c] # "idle")

\* A request goes on beside its seat transaction.
GoesOn(r, l) ==
    /\ Active(r)
    /\ l \in JobPC \ {"idle", "read", "restoring"}
    /\ job' = [job EXCEPT ![r].pc = l]
    /\ UNCHANGED seats
    /\ \/ r \in Canceller /\ UNCHANGED status /\ job[r].pc = "read" /\ l = "refunded"
       \/ r \in Canceller /\ UNCHANGED status /\ phase[r] = "rolledBack" /\ l = "done"
       \/ r \in Canceller /\ UNCHANGED status /\ RevertCoupon(r) /\ l = "reverted"
       \/ r \in Canceller /\ MarkCancelled(r) /\ l = "done"
       \/ r \in Canceller /\ UNCHANGED status /\ CancelStops(r) /\ l = "stopped"
       \/ /\ r \in Confirmer /\ (l = "verified" => job[r].pc = "read")
          /\ UNCHANGED status \/ SaveConfirmed(r)

Reads(r, v) ==
    /\ job[r].pc = "idle"
    /\ v.pc \in {"read", "done"}
    /\ r \in Canceller /\ v.pc = "read" => status[v.booking] # "CANCELLED"
    /\ job' = [job EXCEPT ![r] = v]
    /\ UNCHANGED <<seats, status>>

LEMMA SeatStepKinds ==
    ASSUME BInv, NEW t \in Txn,
           InsertBooking(t) \/ Update(t) \/ Rollback(t) \/ Compensate(t) \/ Fault(t),
           UNCHANGED <<status, job>>
    PROVE  SeatsOnly
  <1>1. /\ phase \in [Txn -> Phase] /\ Canceller \subseteq Txn
    BY RequestAssumption DEF BInv, IInv, LInv, TypeOK
  <1>2. /\ sold' = sold /\ change' = change
        /\ phase[t] \notin Ended \union {"idle"}
        /\ \A u \in Txn : u # t => phase'[u] = phase[u]
        /\ phase'[t] \notin {"idle", "committed"}
    BY <1>1 DEF InsertBooking, Update, LockRow, LockRefused, WriteSeats, RejectSeats, Rollback,
                Compensate, Fault, Ended
  <1> QED
    BY <1>1, <1>2 DEF SeatsOnly, Ended

LEMMA StepKinds ==
    ASSUME BInv, [BookingStep]_allVars
    PROVE  \/ \E b \in Creator : CommitCreate(b)
           \/ \E c \in Canceller : Commit(c) /\ UNCHANGED bookingVars
           \/ \E c \in Canceller : RestoreSeats(c)
           \/ \E r \in Jobs, l \in JobPC : GoesOn(r, l)
           \/ \E r \in Jobs, v \in Job : Reads(r, v)
           \/ SeatsOnly
  <1>0. /\ Creator \subseteq Txn /\ Canceller \subseteq Txn /\ phase \in [Txn -> Phase]
        /\ change \in [Txn -> -MaxQty..MaxQty] /\ Creator \intersect Canceller = {}
        /\ Canceller \subseteq Jobs /\ Confirmer \subseteq Jobs
        /\ Canceller \intersect Confirmer = {}
        /\ job \in [Jobs -> Job] /\ status \in [Creator -> Status]
    BY RequestAssumption DEF BInv, BookingTypeOK, IInv, LInv, TypeOK, Jobs
  <1>1. CASE UNCHANGED <<seats, status, job>>
    BY <1>1 DEF seats, vars, SeatsOnly
  <1>2. ASSUME NEW b \in Creator, NEW q \in 1..MaxQty, NEW code \in {"no", "asked"},
               BeginCreate(b, q, code)
        PROVE  SeatsOnly
    BY <1>0, <1>2 DEF BeginCreate, CheckSeats, SeatsOnly
  <1>3. ASSUME NEW b \in Creator, CreateAdvance(b) \/ IntentFails(b) \/ Pay(b)
        PROVE  CommitCreate(b) \/ SeatsOnly
    <2>1. CASE ApplyCoupon(b) \/ RefuseCoupon(b) \/ CreateIntent(b) \/ RevertInCatch(b) \/ Pay(b)
      BY <1>1, <2>1 DEF ApplyCoupon, RefuseCoupon, CreateIntent, RevertInCatch, Pay, SeatsOnly,
                        seats, vars
    <2>2. CASE SaveBooking(b) \/ SeatUpdate(b) \/ RollbackCreate(b) \/ IntentFails(b)
      BY <1>0, <2>2, SeatStepKinds
         DEF SaveBooking, SeatUpdate, RollbackCreate, IntentFails, bookingVars
    <2> QED
      BY <1>3, <2>1, <2>2 DEF CreateAdvance
  <1>4. ASSUME NEW c \in Canceller, CancelAdvance(c) \/ CancelStops(c)
        PROVE  \/ Commit(c) /\ UNCHANGED bookingVars
               \/ RestoreSeats(c)
               \/ \E l \in JobPC : GoesOn(c, l)
               \/ SeatsOnly
    <2>1. CASE SeatUpdate(c) \/ (Rollback(c) /\ UNCHANGED bookingVars)
      BY <1>0, <2>1, SeatStepKinds DEF SeatUpdate, bookingVars
    <2>2. CASE Refund(c)
      <3>1. GoesOn(c, "refunded")
        BY <2>2 DEF Refund, GoesOn, Active, JobPC
      <3> QED
        BY <3>1 DEF JobPC
    <2>3. CASE RestoreFails(c)
      <3>1. GoesOn(c, "done")
        BY <2>3 DEF RestoreFails, GoesOn, Active, JobPC
      <3> QED
        BY <3>1 DEF JobPC
    <2>4. CASE RevertCoupon(c)
      <3>1. GoesOn(c, "reverted")
        BY <2>4 DEF RevertCoupon, GoesOn, Active, JobPC
      <3> QED
        BY <3>1 DEF JobPC
    <2>5. CASE MarkCancelled(c)
      <3>1. GoesOn(c, "done")
        BY <2>5 DEF MarkCancelled, GoesOn, Active, JobPC
      <3> QED
        BY <3>1 DEF JobPC
    <2>6. CASE CancelStops(c)
      <3>1. GoesOn(c, "stopped")
        BY <2>6 DEF CancelStops, HalfWay, GoesOn, Active, JobPC
      <3> QED
        BY <3>1 DEF JobPC
    <2> QED
      BY <1>4, <2>1, <2>2, <2>3, <2>4, <2>5, <2>6 DEF CancelAdvance
  <1>5. ASSUME NEW f \in Confirmer, ConfirmAdvance(f) \/ ConfirmStops(f)
        PROVE  \E l \in JobPC : GoesOn(f, l)
    BY <1>5 DEF ConfirmAdvance, VerifyPayment, SaveConfirmed, QueueMail, ConfirmStops,
                GoesOn, Active, JobPC
  <1>6. ASSUME NEW r \in Jobs, NEW b \in Creator,
               (r \in Canceller /\ CancelRead(r, b)) \/ (r \in Confirmer /\ ConfirmRead(r, b))
        PROVE  \E v \in Job : Reads(r, v)
    <2>1. PICK v \in Job :
             /\ v.pc \in {"read", "done"} /\ v.booking = b
             /\ CancelRead(r, b) => (v.pc = "read" => status[b] # "CANCELLED")
             /\ job' = [job EXCEPT ![r] = v]
      BY <1>0, <1>6, ReadsBooking
    <2>2. job[r].pc = "idle" /\ UNCHANGED <<seats, status>> /\ (r \in Canceller => CancelRead(r, b))
      BY <1>0, <1>6 DEF CancelRead, ConfirmRead
    <2> QED
      BY <2>1, <2>2 DEF Reads
  <1>7. ASSUME NEW t \in Txn, Fault(t), UNCHANGED bookingVars
        PROVE  SeatsOnly
    BY <1>7, SeatStepKinds DEF bookingVars
  <1>8. CASE UNCHANGED allVars
    BY <1>1, <1>8 DEF allVars, seats, vars
  <1> QED
    BY <1>0, <1>2, <1>3, <1>4, <1>5, <1>6, <1>7, <1>8 DEF BookingStep

LEMMA Types ==
    ASSUME BInv
    PROVE  /\ Creator \subseteq Txn /\ Canceller \subseteq Txn /\ Creator \intersect Canceller = {}
           /\ Canceller \subseteq Jobs /\ Confirmer \subseteq Jobs
           /\ Canceller \intersect Confirmer = {} /\ Jobs = Canceller \union Confirmer
           /\ phase \in [Txn -> Phase] /\ change \in [Txn -> -MaxQty..MaxQty]
           /\ status \in [Creator -> Status] /\ job \in [Jobs -> Job]
           /\ \A r \in Jobs : job[r].booking \in Creator
           /\ \A r \in Jobs : job[r].pc # "idle" => status[job[r].booking] # "none"
           /\ usages \in Int /\ sold \in Int
           /\ \A b \in Creator : /\ phase[b] # "idle" => change[b] \in -MaxQty..-1
                                 /\ status[b] # "none" => phase[b] # "idle"
  BY RequestAssumption DEF BInv, BookingTypeOK, IInv, LInv, TypeOK, Job, Jobs, JobsHaveBookings,
                           BookedTakesSeats

LEMMA GoesOnMeans ==
    ASSUME BInv, NEW r \in Jobs, NEW l \in JobPC, GoesOn(r, l)
    PROVE  /\ job'[r].pc = l
           /\ \A s \in Jobs : job'[s].booking = job[s].booking
           /\ \A s \in Jobs : s # r => job'[s] = job[s]
           /\ \A s \in Jobs : Active(s)' => Active(s)
           /\ UNCHANGED <<phase, change, sold>>
  <1>1. job \in [Jobs -> Job]
    BY DEF BInv, BookingTypeOK
  <1> QED
    BY <1>1, JobMoves DEF GoesOn, Active, seats, vars

LEMMA ReadsMeans ==
    ASSUME BInv, NEW r \in Jobs, NEW v \in Job, Reads(r, v)
    PROVE  /\ job'[r] = v
           /\ \A s \in Jobs : s # r => job'[s] = job[s]
           /\ UNCHANGED <<phase, change, sold, status>>
  BY DEF Reads, BInv, BookingTypeOK, seats, vars

\* A booking that exists keeps what it has asked for.
LEMMA ChangeStays ==
    ASSUME BInv, [BookingStep]_allVars
    PROVE  /\ \A b \in Creator : status[b] # "none" => change'[b] = change[b]
           /\ \A r \in Jobs : job[r].pc # "idle" => change'[job[r].booking] = change[job[r].booking]
  <1>1. \A b \in Creator : status[b] # "none" => change'[b] = change[b]
    BY SeatsStepKeeps DEF BInv, BookedTakesSeats
  <1> QED
    BY <1>1, Types

LEMMA CommittedStays ==
    ASSUME BInv, [BookingStep]_allVars
    PROVE  \A t \in Txn : phase[t] = "committed" => phase'[t] = "committed"
  <1>1. [Next]_vars
    BY StepImplementsInventory
  <1> QED
    BY <1>1 DEF vars, Next, Start, CheckSeats, BeginRestore, Advance, InsertBooking, Update,
                LockRow, LockRefused, WriteSeats, RejectSeats, Compensate, Commit, Rollback,
                Fault, Ended, BInv, IInv, LInv, TypeOK

\* The step in which a cancel request begins to restore seats.
LEMMA RestoreMeans ==
    ASSUME BInv, NEW d \in Canceller, RestoreSeats(d)
    PROVE  /\ phase[d] = "idle" /\ phase'[d] = "open" /\ job'[d].pc = "restoring"
           /\ change'[d] = -change[job[d].booking]
           /\ job[d].pc \in {"read", "refunded"}
           /\ \A r \in Jobs : job'[r].booking = job[r].booking /\ (r # d => job'[r] = job[r])
           /\ \A t \in Txn : t # d => phase'[t] = phase[t] /\ change'[t] = change[t]
           /\ UNCHANGED <<status, sold, coupon, usages>>
  <1>1. /\ phase[d] = "idle" /\ job[d].pc \in {"read", "refunded"}
        /\ job' = [job EXCEPT ![d].pc = "restoring"]
        /\ phase' = [phase EXCEPT ![d] = "open"]
        /\ change' = [change EXCEPT ![d] = -change[job[d].booking]]
        /\ UNCHANGED <<status, sold, coupon, usages>>
    BY DEF RestoreSeats, BeginRestore
  <1>2. /\ job'[d].pc = "restoring"
        /\ \A r \in Jobs : job'[r].booking = job[r].booking /\ (r # d => job'[r] = job[r])
    BY <1>1, Types, JobMoves DEF JobPC
  <1> QED
    BY <1>1, <1>2, Types

\* The commit of a seat transaction.
LEMMA CommitMeans ==
    ASSUME BInv, NEW t \in Txn, Commit(t)
    PROVE  /\ phase[t] = "written" /\ phase'[t] = "committed"
           /\ sold' = sold - change[t] /\ change' = change
           /\ \A u \in Txn : u # t => phase'[u] = phase[u]
  BY Types DEF Commit

LEMMA StepKeepsRestores ==
    ASSUME BInv, RestoresItsBooking, [BookingStep]_allVars
    PROVE  RestoresItsBooking'
  <1> DEFINE P(c) == /\ phase[c] # "idle" =>
                          /\ job[c].pc \notin {"idle", "read", "refunded"}
                          /\ change[c] = -change[job[c].booking]
                          /\ phase[c] \notin Ended => job[c].pc = "restoring"
                     /\ job[c].pc = "reverted" => phase[c] = "committed"
  <1>0. (\A c \in Canceller : P(c)') => RestoresItsBooking'
    BY DEF RestoresItsBooking
  <1>a. \A c \in Canceller : P(c)
    BY DEF RestoresItsBooking
  <1>1. ASSUME NEW c \in Canceller, phase'[c] = phase[c], change'[c] = change[c],
               job'[c] = job[c]
        PROVE  P(c)'
    BY <1>1, <1>a, ChangeStays, Types
  <1>2. ASSUME NEW b \in Creator, CommitCreate(b) PROVE \A c \in Canceller : P(c)'
    <2>1. \A c \in Canceller : phase'[c] = phase[c] /\ change'[c] = change[c] /\ job'[c] = job[c]
      BY <1>2, Types, CommitMeans DEF CommitCreate
    <2> QED
      BY <1>1, <2>1
  <1>3. ASSUME NEW d \in Canceller, Commit(d), UNCHANGED bookingVars
        PROVE  \A c \in Canceller : P(c)'
    <2>1. /\ job' = job /\ change' = change /\ phase[d] = "written" /\ phase'[d] = "committed"
          /\ \A c \in Canceller : c # d => phase'[c] = phase[c]
      BY <1>3, Types, CommitMeans DEF bookingVars
    <2>2. P(d)'
      BY <1>a, <2>1 DEF Ended
    <2> QED
      BY <1>1, <2>1, <2>2
  <1>4. ASSUME NEW d \in Canceller, RestoreSeats(d) PROVE \A c \in Canceller : P(c)'
    <2>1. /\ phase'[d] = "open" /\ job'[d].pc = "restoring"
          /\ change'[d] = -change[job[d].booking]
          /\ job[d].pc # "idle"
          /\ \A r \in Jobs : job'[r].booking = job[r].booking /\ (r # d => job'[r] = job[r])
          /\ \A t \in Txn : t # d => phase'[t] = phase[t] /\ change'[t] = change[t]
      BY <1>4, RestoreMeans
    <2>2. P(d)'
      BY <2>1, ChangeStays, Types
    <2>3. \A c \in Canceller : c # d => P(c)'
      BY <1>1, <2>1, Types
    <2> QED
      BY <2>2, <2>3
  <1>5. ASSUME NEW r \in Jobs, NEW l \in JobPC, GoesOn(r, l) PROVE \A c \in Canceller : P(c)'
    <2>1. /\ job'[r].pc = l /\ phase' = phase /\ change' = change
          /\ \A s \in Jobs : job'[s].booking = job[s].booking
          /\ \A s \in Jobs : s # r => job'[s] = job[s]
      BY <1>5, GoesOnMeans
    <2>2. ASSUME r \in Canceller PROVE P(r)'
      <3>1. l \notin {"idle", "read", "restoring"} /\ P(r)
        BY <1>5, <1>a, <2>2 DEF GoesOn
      <3>2. phase[r] # "idle" => l # "refunded" /\ phase[r] \in Ended
        BY <1>5, <2>2, <3>1, Types
           DEF GoesOn, Active, RevertCoupon, MarkCancelled, CancelStops, HalfWay, Ended
      <3>3. l = "reverted" => phase[r] = "committed"
        BY <1>5, <2>2, Types DEF GoesOn, RevertCoupon
      <3> QED
        BY <2>1, <3>1, <3>2, <3>3
    <2>3. \A c \in Canceller : c # r => P(c)'
      BY <1>1, <2>1, Types
    <2> QED
      BY <2>2, <2>3
  <1>6. ASSUME NEW r \in Jobs, NEW v \in Job, Reads(r, v) PROVE \A c \in Canceller : P(c)'
    <2>1. /\ job[r].pc = "idle" /\ phase' = phase /\ change' = change /\ job'[r] = v
          /\ v.pc \in {"read", "done"}
          /\ \A s \in Jobs : s # r => job'[s] = job[s]
      BY <1>6, ReadsMeans DEF Reads
    <2>2. r \in Canceller => P(r)'
      BY <1>a, <2>1
    <2>3. \A c \in Canceller : c # r => P(c)'
      BY <1>1, <2>1, Types
    <2> QED
      BY <2>2, <2>3
  <1>7. CASE SeatsOnly
    <2> SUFFICES ASSUME NEW c \in Canceller PROVE P(c)'
      BY <1>0
    <2>1. /\ job' = job /\ change'[c] = change[c]
          /\ phase'[c] # "idle" => phase[c] # "idle"
          /\ phase[c] \in Ended => phase'[c] = phase[c]
      BY <1>7 DEF SeatsOnly
    <2> QED
      BY <1>a, <2>1, ChangeStays, Types DEF Ended
  <1> HIDE DEF P
  <1> QED
    BY <1>0, <1>2, <1>3, <1>4, <1>5, <1>6, <1>7, StepKinds

-----------------------------------------------------------------------------
(* Bookings on which no requests get in each other's way.                    *)

\* The ghost only grows, and by the bookings it is meant to remember.
LEMMA UnrulyGrows ==
    ASSUME [BookingNext]_bookVars
    PROVE  /\ unruly \subseteq unruly'
           /\ \A r \in Jobs, b \in Creator :
                 (Begins(r, b) /\ Collides(r, b)) \/ BreaksOff(r, b) => b \in unruly'
  <1>1. CASE BookingNext
    BY <1>1 DEF BookingNext, Remember
  <1>2. CASE UNCHANGED bookVars
    BY <1>2 DEF bookVars, allVars, Begins, BreaksOff, HalfWay
  <1> QED
    BY <1>1, <1>2

\* A request that is active was active before, on the same booking, or begins.
LEMMA BecomesActive ==
    ASSUME BInv, [BookingStep]_allVars, NEW r \in Jobs, Active(r)'
    PROVE  \/ Active(r) /\ job'[r].booking = job[r].booking
           \/ /\ Begins(r, job'[r].booking)
              /\ job'[r].booking \in Creator
              /\ r \in Canceller => status[job'[r].booking] # "CANCELLED"
              /\ status' = status
              /\ \A s \in Jobs : s # r => job'[s] = job[s]
  <1>1. CASE job' = job
    BY <1>1 DEF Active
  <1>2. ASSUME NEW d \in Canceller, RestoreSeats(d)
        PROVE  Active(r) /\ job'[r].booking = job[r].booking
    <2>1. job[d].pc \in {"read", "refunded"} /\ job'[r].booking = job[r].booking
      BY <1>2, RestoreMeans
    <2>2. r # d => job'[r] = job[r]
      BY <1>2, RestoreMeans
    <2> QED
      BY <2>1, <2>2 DEF Active
  <1>3. ASSUME NEW s \in Jobs, NEW l \in JobPC, GoesOn(s, l)
        PROVE  Active(r) /\ job'[r].booking = job[r].booking
    BY <1>3, GoesOnMeans
  <1>4. ASSUME NEW s \in Jobs, NEW v \in Job, Reads(s, v), s = r
        PROVE  /\ Begins(r, job'[r].booking)
               /\ job'[r].booking \in Creator
               /\ r \in Canceller => status[job'[r].booking] # "CANCELLED"
               /\ status' = status
               /\ \A u \in Jobs : u # r => job'[u] = job[u]
    <2>1. job'[r] = v /\ status' = status /\ \A u \in Jobs : u # r => job'[u] = job[u]
      BY <1>4, ReadsMeans
    <2>2. v.pc \in {"read", "done"} /\ job[r].pc = "idle"
          /\ (r \in Canceller /\ v.pc = "read" => status[v.booking] # "CANCELLED")
      BY <1>4 DEF Reads
    <2>3. v.pc = "read" /\ v.booking \in Creator
      BY <2>1, <2>2 DEF Active, Job
    <2> QED
      BY <2>1, <2>2, <2>3 DEF Begins
  <1>5. ASSUME NEW s \in Jobs, NEW v \in Job, Reads(s, v), s # r
        PROVE  Active(r) /\ job'[r].booking = job[r].booking
    <2>1. job'[r] = job[r]
      BY <1>5, ReadsMeans
    <2> QED
      BY <2>1 DEF Active
  <1> QED
    BY <1>1, <1>2, <1>3, <1>4, <1>5, StepKinds DEF CommitCreate, bookingVars, SeatsOnly

LEMMA StepKeepsOneAtATime ==
    ASSUME RInv, [BookingNext]_bookVars
    PROVE  OneAtATime'
  <1>0. BInv /\ [BookingStep]_allVars /\ OneAtATime
    BY StepOfNext DEF RInv
  <1> SUFFICES ASSUME NEW c \in Canceller, NEW r \in Jobs, NEW b,
                      b = job'[c].booking, b = job'[r].booking, b \notin unruly', r # c,
                      Active(c)', Active(r)'
               PROVE  FALSE
    BY DEF OneAtATime
  <1>1. c \in Jobs /\ unruly \subseteq unruly'
    BY <1>0, Types, UnrulyGrows
  <1>2. CASE /\ Active(c) /\ job'[c].booking = job[c].booking
             /\ Active(r) /\ job'[r].booking = job[r].booking
    BY <1>0, <1>1, <1>2 DEF OneAtATime
  <1>3. CASE /\ Begins(c, job'[c].booking) /\ b \in Creator
             /\ \A s \in Jobs : s # c => job'[s] = job[s]
    <2>1. job[r].booking = b /\ Active(r)
      BY <1>3 DEF Active
    <2>2. Begins(c, b) /\ Collides(c, b)
      BY <1>3, <2>1 DEF Collides, ActiveOn
    <2> QED
      BY <1>1, <1>3, <2>2, UnrulyGrows
  <1>4. CASE /\ Begins(r, job'[r].booking) /\ b \in Creator
             /\ \A s \in Jobs : s # r => job'[s] = job[s]
    <2>1. job[c].booking = b /\ Active(c)
      BY <1>1, <1>4 DEF Active
    <2>2. Begins(r, b) /\ Collides(r, b)
      BY <1>0, <1>1, <1>4, <2>1, Types DEF Collides, ActiveOn
    <2> QED
      BY <1>4, <2>2, UnrulyGrows
  <1> QED
    BY <1>0, <1>1, <1>2, <1>3, <1>4, BecomesActive

\* What the steps that mark a booking do.
LEMMA MarksMean ==
    ASSUME BInv, NEW r \in Jobs, NEW v \in Status, NEW l \in JobPC,
           status' = [status EXCEPT ![job[r].booking] = v],
           job[r].pc # "idle",
           job' = [job EXCEPT ![r].pc = l]
    PROVE  /\ status[job[r].booking] # "none"
           /\ job[r].booking \in Creator
           /\ status'[job[r].booking] = v
           /\ \A b \in Creator : b # job[r].booking => status'[b] = status[b]
           /\ job'[r].pc = l
           /\ \A s \in Jobs : job'[s].booking = job[s].booking
           /\ \A s \in Jobs : s # r => job'[s] = job[s]
  BY Types, JobMoves

LEMMA CancelMarks ==
    ASSUME BInv, NEW c \in Canceller, MarkCancelled(c)
    PROVE  /\ job[c].pc = "reverted" /\ job'[c].pc = "done" /\ job'[c].booking = job[c].booking
           /\ status[job[c].booking] # "none" /\ job[c].booking \in Creator
           /\ status'[job[c].booking] = "CANCELLED"
           /\ \A b \in Creator : b # job[c].booking => status'[b] = status[b]
           /\ phase' = phase
           /\ \A s \in Jobs : s # c => job'[s] = job[s]
  <1>1. /\ c \in Jobs /\ job[c].pc = "reverted" /\ phase' = phase
        /\ status' = [status EXCEPT ![job[c].booking] = "CANCELLED"]
        /\ job' = [job EXCEPT ![c].pc = "done"]
    BY DEF MarkCancelled, Jobs, seats, vars
  <1>2. "CANCELLED" \in Status /\ "done" \in JobPC
    BY DEF Status, JobPC
  <1>a. BInv /\ job[c].pc # "idle"
    BY <1>1
  <1>3. /\ status[job[c].booking] # "none" /\ job[c].booking \in Creator
        /\ status'[job[c].booking] = "CANCELLED"
        /\ \A b \in Creator : b # job[c].booking => status'[b] = status[b]
        /\ job'[c].pc = "done"
        /\ \A s \in Jobs : job'[s].booking = job[s].booking
        /\ \A s \in Jobs : s # c => job'[s] = job[s]
    BY ONLY <1>a, <1>1, <1>2, MarksMean
  <1> QED
    BY ONLY <1>1, <1>3

LEMMA ConfirmMarks ==
    ASSUME BInv, NEW f \in Confirmer, SaveConfirmed(f)
    PROVE  /\ job[f].pc = "verified" /\ job'[f].booking = job[f].booking
           /\ status[job[f].booking] # "none" /\ job[f].booking \in Creator
           /\ status'[job[f].booking] = "CONFIRMED"
           /\ \A b \in Creator : b # job[f].booking => status'[b] = status[b]
           /\ phase' = phase
           /\ \A s \in Jobs : s # f => job'[s] = job[s]
  <1>1. /\ f \in Jobs /\ job[f].pc = "verified" /\ phase' = phase
        /\ status' = [status EXCEPT ![job[f].booking] = "CONFIRMED"]
        /\ job' = [job EXCEPT ![f].pc = "saved"]
    BY DEF SaveConfirmed, Jobs, seats, vars
  <1>2. "CONFIRMED" \in Status /\ "saved" \in JobPC
    BY DEF Status, JobPC
  <1> QED
    BY <1>1, <1>2, MarksMean

\* A create request makes its booking visible for the first time.
LEMMA CreateMeans ==
    ASSUME BInv, BookedIsCommitted, NEW a \in Creator, CommitCreate(a)
    PROVE  /\ status[a] = "none" /\ status'[a] = "PENDING"
           /\ \A b \in Creator : b # a => status'[b] = status[b]
           /\ \A r \in Jobs : job[r].pc # "idle" => job[r].booking # a
           /\ phase[a] = "written" /\ phase'[a] = "committed"
           /\ sold' = sold - change[a] /\ change' = change
           /\ \A u \in Txn : u # a => phase'[u] = phase[u]
           /\ UNCHANGED <<job, coupon, usages>>
  <1>1. /\ Commit(a) /\ status' = [status EXCEPT ![a] = "PENDING"]
        /\ UNCHANGED <<job, coupon, usages>>
    BY DEF CommitCreate
  <1>2. a \in Txn
    BY Types
  <1>3. /\ phase[a] = "written" /\ phase'[a] = "committed"
        /\ sold' = sold - change[a] /\ change' = change
        /\ \A u \in Txn : u # a => phase'[u] = phase[u]
    BY <1>1, <1>2, CommitMeans
  <1>4. status[a] = "none"
    BY <1>3 DEF BookedIsCommitted
  <1> QED
    BY <1>1, <1>3, <1>4, Types

LEMMA StepKeepsActiveIsLive ==
    ASSUME RInv, [BookingNext]_bookVars
    PROVE  ActiveIsLive'
  <1>0. /\ BInv /\ [BookingStep]_allVars /\ OneAtATime /\ ActiveIsLive /\ BookedIsCommitted
        /\ unruly \subseteq unruly'
    BY StepOfNext, UnrulyGrows DEF RInv
  <1> SUFFICES ASSUME NEW r \in Jobs, NEW b, b = job'[r].booking, Active(r)', b \notin unruly',
                      status'[b] = "CANCELLED"
               PROVE  FALSE
    BY DEF ActiveIsLive
  <1>1. CASE /\ Begins(r, job'[r].booking) /\ b \in Creator
             /\ r \in Canceller => status[b] # "CANCELLED"
             /\ status' = status
    <2>1. Collides(r, b)
      BY <1>0, <1>1, Types DEF Collides
    <2> QED
      BY <1>1, <2>1, UnrulyGrows
  <1>2. CASE Active(r) /\ job'[r].booking = job[r].booking
    <2>1. status[b] # "CANCELLED" /\ b \in Creator
      BY <1>0, <1>2, Types DEF ActiveIsLive
    <2>2. ASSUME NEW a \in Creator, CommitCreate(a) PROVE FALSE
      BY <1>0, <2>1, <2>2, CreateMeans
    <2>3. ASSUME NEW c \in Canceller, MarkCancelled(c) PROVE FALSE
      <3>1. /\ job[c].pc = "reverted" /\ job'[c].pc = "done"
            /\ \A a \in Creator : a # job[c].booking => status'[a] = status[a]
        BY <1>0, <2>3, CancelMarks
      <3>2. b = job[c].booking
        BY <2>1, <3>1
      <3>3. Active(c) /\ r # c
        BY <3>1 DEF Active
      <3> QED
        BY <1>0, <1>2, <3>2, <3>3 DEF OneAtATime
    <2>4. ASSUME NEW f \in Confirmer, SaveConfirmed(f) PROVE FALSE
      BY <1>0, <2>1, <2>4, ConfirmMarks
    <2> QED
      BY <1>0, <2>1, <2>2, <2>3, <2>4, StatusMoves
  <1> QED
    BY <1>0, <1>1, <1>2, BecomesActive

\* The steps that move the coupon's uses.
LEMMA UseMoves ==
    ASSUME BInv, BookedIsCommitted, [BookingStep]_allVars
    PROVE  \/ \E b \in Creator : ApplyCoupon(b) \/ RevertInCatch(b)
           \/ \E c \in Canceller : RevertCoupon(c)
           \/ UNCHANGED usages /\ \A b \in Creator : HasCoupon(b)' <=> HasCoupon(b)
  <1>1. ASSUME NEW a \in Creator,
               \E q \in 1..MaxQty, code \in {"no", "asked"} : BeginCreate(a, q, code)
        PROVE  UNCHANGED usages /\ \A b \in Creator : HasCoupon(b)' <=> HasCoupon(b)
    <2>1. /\ phase[a] = "idle" /\ usages' = usages /\ coupon'[a] # "applied"
          /\ \A b \in Creator : b # a => coupon'[b] = coupon[b]
      BY <1>1 DEF BeginCreate, CheckSeats, BInv, BookingTypeOK
    <2>2. ~HasCoupon(a)
      BY <2>1 DEF BookedIsCommitted
    <2> QED
      BY <2>1, <2>2 DEF HasCoupon
  <1>2. ASSUME NEW a \in Creator, CreateAdvance(a) \/ IntentFails(a) \/ Pay(a)
        PROVE  \/ ApplyCoupon(a) \/ RevertInCatch(a)
               \/ UNCHANGED usages /\ \A b \in Creator : HasCoupon(b)' <=> HasCoupon(b)
    BY <1>2 DEF CreateAdvance, RefuseCoupon, SaveBooking, SeatUpdate, CreateIntent,
                CommitCreate, RollbackCreate, IntentFails, Pay, bookingVars, BInv, BookingTypeOK,
                HasCoupon
  <1>3. ASSUME NEW c \in Canceller,
               (\E b \in Creator : CancelRead(c, b)) \/ CancelAdvance(c) \/ CancelStops(c)
        PROVE  RevertCoupon(c) \/ UNCHANGED <<usages, coupon>>
    BY <1>3 DEF CancelRead, CancelAdvance, Refund, RestoreSeats, SeatUpdate, RestoreFails,
                MarkCancelled, CancelStops, bookingVars
  <1>4. ASSUME NEW f \in Confirmer,
               (\E b \in Creator : ConfirmRead(f, b)) \/ ConfirmAdvance(f) \/ ConfirmStops(f)
        PROVE  UNCHANGED <<usages, coupon>>
    BY <1>4 DEF ConfirmRead, ConfirmAdvance, VerifyPayment, SaveConfirmed, QueueMail,
                ConfirmStops
  <1>5. UNCHANGED <<usages, coupon>> =>
           UNCHANGED usages /\ \A b \in Creator : HasCoupon(b)' <=> HasCoupon(b)
    BY DEF HasCoupon
  <1>6. CASE UNCHANGED allVars
    BY <1>5, <1>6 DEF allVars
  <1>7. CASE BookingStep
    <2>1. ASSUME NEW t \in Txn, Fault(t) /\ UNCHANGED bookingVars
          PROVE  UNCHANGED <<usages, coupon>>
      BY <2>1 DEF bookingVars
    <2> QED
      BY <1>1, <1>2, <1>3, <1>4, <1>5, <1>7, <2>1 DEF BookingStep
  <1> QED
    BY <1>6, <1>7

\* A request that has ended is not heard of again.
LEMMA DoneStays ==
    ASSUME BInv, [BookingStep]_allVars, NEW r \in Jobs, job[r].pc = "done"
    PROVE  job'[r] = job[r]
  <1>1. ASSUME NEW d \in Canceller, RestoreSeats(d) PROVE job'[r] = job[r]
    BY <1>1, RestoreMeans
  <1>2. ASSUME NEW s \in Jobs, NEW l \in JobPC, GoesOn(s, l) PROVE job'[r] = job[r]
    <2>1. s # r
      BY <1>2 DEF GoesOn, Active
    <2> QED
      BY <1>2, <2>1, GoesOnMeans
  <1>3. ASSUME NEW s \in Jobs, NEW v \in Job, Reads(s, v) PROVE job'[r] = job[r]
    <2>1. s # r
      BY <1>3 DEF Reads
    <2> QED
      BY <1>3, <2>1, ReadsMeans
  <1> QED
    BY <1>1, <1>2, <1>3, StepKinds DEF CommitCreate, bookingVars, SeatsOnly

LEMMA StepKeepsBooked ==
    ASSUME RInv, [BookingNext]_bookVars
    PROVE  BookedIsCommitted'
  <1>0. BInv /\ [BookingStep]_allVars /\ BookedIsCommitted /\ RestoresItsBooking
    BY StepOfNext DEF RInv
  <1>1. \A t \in Txn : phase[t] = "committed" => phase'[t] = "committed"
    BY <1>0, CommittedStays
  <1>2. \A b \in Creator : status'[b] # "none" => phase'[b] = "committed"
    <2> SUFFICES ASSUME NEW b \in Creator, status'[b] # "none" PROVE phase'[b] = "committed"
      OBVIOUS
    <2>1. status[b] # "none" => phase'[b] = "committed"
      BY <1>0, <1>1, Types DEF BookedIsCommitted
    <2>2. ASSUME NEW a \in Creator, CommitCreate(a) PROVE phase'[b] = "committed"
      BY <1>0, <2>1, <2>2, CreateMeans
    <2>3. ASSUME NEW c \in Canceller, MarkCancelled(c) PROVE phase'[b] = "committed"
      BY <1>0, <2>1, <2>3, CancelMarks
    <2>4. ASSUME NEW f \in Confirmer, SaveConfirmed(f) PROVE phase'[b] = "committed"
      BY <1>0, <2>1, <2>4, ConfirmMarks
    <2> QED
      BY <1>0, <2>1, <2>2, <2>3, <2>4, StatusMoves
  <1>3. ASSUME NEW b \in Creator, status'[b] = "CANCELLED"
        PROVE  \E c \in Returns' : job'[c].booking = b /\ job'[c].pc = "done"
    <2>1. CASE status[b] = "CANCELLED"
      <3>1. PICK c \in Canceller : /\ phase[c] = "committed"
                                   /\ job[c].booking = b /\ job[c].pc = "done"
        BY <1>0, <2>1 DEF BookedIsCommitted, Returns
      <3>2. phase'[c] = "committed" /\ job'[c] = job[c]
        BY <1>0, <1>1, <3>1, DoneStays, Types
      <3> QED
        BY <3>1, <3>2 DEF Returns
    <2>2. ASSUME NEW a \in Creator, CommitCreate(a) PROVE status[b] = "CANCELLED"
      BY <1>0, <1>3, <2>2, CreateMeans
    <2>3. ASSUME NEW c \in Canceller, MarkCancelled(c), status[b] # "CANCELLED"
          PROVE  \E d \in Returns' : job'[d].booking = b /\ job'[d].pc = "done"
      <3>1. /\ job[c].pc = "reverted" /\ job'[c].pc = "done" /\ job'[c].booking = job[c].booking
            /\ \A a \in Creator : a # job[c].booking => status'[a] = status[a]
            /\ phase' = phase
        BY <1>0, <2>3, CancelMarks
      <3>2. phase[c] = "committed" /\ b = job[c].booking
        BY <1>0, <1>3, <2>3, <3>1 DEF RestoresItsBooking
      <3> QED
        BY <3>1, <3>2 DEF Returns
    <2>4. ASSUME NEW f \in Confirmer, SaveConfirmed(f) PROVE status[b] = "CANCELLED"
      BY <1>0, <1>3, <2>4, ConfirmMarks
    <2> QED
      BY <1>0, <1>3, <2>1, <2>2, <2>3, <2>4, StatusMoves
  <1>4. ASSUME NEW b \in Creator, HasCoupon(b)' PROVE phase'[b] # "idle"
    <2>0. phase[b] # "idle" => phase'[b] # "idle"
      BY <1>0, SeatsStepKeeps
    <2>1. HasCoupon(b) => phase[b] # "idle"
      BY <1>0 DEF BookedIsCommitted
    <2>2. ASSUME NEW a \in Creator, ApplyCoupon(a) PROVE phase[b] # "idle"
      <3>1. phase[a] = "checked" /\ (b # a => coupon'[b] = coupon[b])
        BY <1>0, <2>2 DEF ApplyCoupon, BInv, BookingTypeOK
      <3> QED
        BY <1>4, <2>1, <3>1 DEF HasCoupon
    <2>3. ASSUME NEW a \in Creator, RevertInCatch(a) PROVE phase[b] # "idle"
      <3>1. phase[a] = "undone" /\ (b # a => coupon'[b] = coupon[b])
        BY <1>0, <2>3 DEF RevertInCatch, BInv, BookingTypeOK
      <3> QED
        BY <1>4, <2>1, <3>1 DEF HasCoupon
    <2>4. ASSUME NEW c \in Canceller, RevertCoupon(c) PROVE phase[b] # "idle"
      BY <1>4, <2>1, <2>4 DEF RevertCoupon, HasCoupon
    <2> QED
      BY <1>0, <1>4, <2>0, <2>1, <2>2, <2>3, <2>4, UseMoves
  <1> QED
    BY <1>2, <1>3, <1>4 DEF BookedIsCommitted

\* Only the commit of a cancel request's seat transaction makes a new return.
LEMMA ReturnsMove ==
    ASSUME BInv, BookedIsCommitted, RestoresItsBooking, [BookingStep]_allVars
    PROVE  \/ Returns' = Returns
           \/ \E d \in Canceller :
                 /\ Commit(d) /\ UNCHANGED bookingVars
                 /\ d \notin Returns /\ Returns' = Returns \union {d}
                 /\ job[d].pc = "restoring"
  <1>1. ASSUME NEW a \in Creator, CommitCreate(a) PROVE Returns' = Returns
    BY <1>1, CreateMeans, Types DEF Returns
  <1>2. ASSUME NEW d \in Canceller, Commit(d), UNCHANGED bookingVars
        PROVE  /\ d \notin Returns /\ Returns' = Returns \union {d}
               /\ job[d].pc = "restoring"
    <2>1. /\ phase[d] = "written" /\ phase'[d] = "committed"
          /\ \A c \in Canceller : c # d => phase'[c] = phase[c]
      BY <1>2, CommitMeans, Types
    <2> QED
      BY <2>1 DEF Returns, RestoresItsBooking, Ended
  <1>3. ASSUME NEW d \in Canceller, RestoreSeats(d) PROVE Returns' = Returns
    BY <1>3, RestoreMeans, Types DEF Returns
  <1>4. ASSUME NEW r \in Jobs, NEW l \in JobPC, GoesOn(r, l) PROVE Returns' = Returns
    BY <1>4, GoesOnMeans DEF Returns
  <1>5. ASSUME NEW r \in Jobs, NEW v \in Job, Reads(r, v) PROVE Returns' = Returns
    BY <1>5, ReadsMeans DEF Returns
  <1>6. CASE SeatsOnly
    BY <1>6, Types DEF SeatsOnly, Returns
  <1> QED
    BY <1>1, <1>2, <1>3, <1>4, <1>5, <1>6, StepKinds

\* What becomes of a return: the request that has made it goes on to give the
\* use back and to mark the booking, or stops.
LEMMA ReturnsGoOn ==
    ASSUME BInv, RestoresItsBooking, [BookingStep]_allVars, NEW c \in Returns
    PROVE  /\ job'[c].booking = job[c].booking
           /\ \/ job'[c].pc = job[c].pc
              \/ RevertCoupon(c) /\ job[c].pc = "restoring" /\ job'[c].pc = "reverted"
              \/ MarkCancelled(c) /\ job[c].pc = "reverted" /\ job'[c].pc = "done"
              \/ job[c].pc \in {"restoring", "reverted"} /\ job'[c].pc = "stopped"
           /\ phase'[c] = "committed"
           /\ job[c].pc \notin {"idle", "read", "refunded"}
  <1>0. /\ c \in Jobs /\ phase[c] = "committed" /\ job[c].pc \notin {"idle", "read", "refunded"}
        /\ phase'[c] = "committed" /\ c \in Canceller /\ c \notin Confirmer
    BY CommittedStays, Types DEF Returns, RestoresItsBooking
  <1>1. ASSUME NEW d \in Canceller, RestoreSeats(d) PROVE job'[c] = job[c]
    BY <1>0, <1>1, RestoreMeans
  <1>2. ASSUME NEW s \in Jobs, NEW l \in JobPC, GoesOn(s, l), s # c PROVE job'[c] = job[c]
    BY <1>0, <1>2, GoesOnMeans
  <1>3. ASSUME NEW l \in JobPC, GoesOn(c, l)
        PROVE  /\ job'[c].booking = job[c].booking
               /\ \/ RevertCoupon(c) /\ job[c].pc = "restoring" /\ job'[c].pc = "reverted"
                  \/ MarkCancelled(c) /\ job[c].pc = "reverted" /\ job'[c].pc = "done"
                  \/ job[c].pc \in {"restoring", "reverted"} /\ job'[c].pc = "stopped"
    <2>1. job'[c].pc = l /\ job'[c].booking = job[c].booking
      BY <1>0, <1>3, GoesOnMeans
    <2>2. \/ RevertCoupon(c) /\ l = "reverted"
          \/ MarkCancelled(c) /\ l = "done"
          \/ CancelStops(c) /\ l = "stopped"
      BY <1>0, <1>3 DEF GoesOn
    <2> QED
      BY <1>0, <2>1, <2>2 DEF RevertCoupon, MarkCancelled, CancelStops, HalfWay
  <1>4. ASSUME NEW s \in Jobs, NEW v \in Job, Reads(s, v) PROVE job'[c] = job[c]
    <2>1. s # c
      BY <1>0, <1>4 DEF Reads
    <2> QED
      BY <1>0, <1>4, <2>1, ReadsMeans
  <1> QED
    BY <1>0, <1>1, <1>2, <1>3, <1>4, StepKinds DEF CommitCreate, bookingVars, SeatsOnly

LEMMA StepKeepsReturnsMarked ==
    ASSUME RInv, [BookingNext]_bookVars
    PROVE  ReturnsAreMarked'
  <1>0. /\ BInv /\ [BookingStep]_allVars /\ ActiveIsLive /\ BookedIsCommitted
        /\ RestoresItsBooking /\ ReturnsAreMarked /\ unruly \subseteq unruly'
    BY StepOfNext, UnrulyGrows DEF RInv
  <1> SUFFICES ASSUME NEW c \in Returns', NEW b, b = job'[c].booking, b \notin unruly'
               PROVE  HalfWay(c)' \/ status'[b] = "CANCELLED"
    BY DEF ReturnsAreMarked
  <1>1. CASE c \notin Returns
    <2>1. job'[c].pc = "restoring"
      BY <1>0, <1>1, ReturnsMove DEF bookingVars
    <2> QED
      BY <2>1 DEF HalfWay, Returns
  <1>2. CASE c \in Returns
    <2>0. /\ b = job[c].booking /\ phase'[c] = "committed"
          /\ c \in Canceller /\ c \in Jobs /\ b \in Creator
      BY <1>0, <1>2, ReturnsGoOn, Types DEF Returns
    <2>1. CASE job'[c].pc \in {"restoring", "reverted"}
      BY <2>0, <2>1 DEF HalfWay
    <2>2. CASE MarkCancelled(c)
      BY <1>0, <2>0, <2>2, CancelMarks
    <2>3. CASE job[c].pc \in {"restoring", "reverted"} /\ job'[c].pc = "stopped"
      <3>1. BreaksOff(c, b)
        BY <1>2, <2>0, <2>3 DEF BreaksOff, HalfWay, Returns
      <3> QED
        BY <2>0, <3>1, UnrulyGrows
    <2>4. CASE job'[c].pc = job[c].pc /\ job[c].pc \notin {"restoring", "reverted"}
      <3>1. status[b] = "CANCELLED"
        BY <1>0, <1>2, <2>0, <2>4 DEF ReturnsAreMarked, HalfWay
      <3>2. ASSUME NEW a \in Creator, CommitCreate(a) PROVE status'[b] = "CANCELLED"
        BY <1>0, <2>0, <3>1, <3>2, CreateMeans
      <3>3. ASSUME NEW d \in Canceller, MarkCancelled(d) PROVE status'[b] = "CANCELLED"
        BY <1>0, <2>0, <3>1, <3>3, CancelMarks
      <3>4. ASSUME NEW f \in Confirmer, SaveConfirmed(f) PROVE status'[b] = "CANCELLED"
        <4>1. /\ job[f].pc = "verified"
              /\ b # job[f].booking => status'[b] = status[b]
          BY <1>0, <2>0, <3>4, ConfirmMarks
        <4>2. b # job[f].booking
          BY <1>0, <2>0, <3>1, <4>1, Types DEF ActiveIsLive, Active
        <4> QED
          BY <3>1, <4>1, <4>2
      <3> QED
        BY <1>0, <3>1, <3>2, <3>3, <3>4, StatusMoves
    <2> QED
      BY <1>0, <1>2, <2>1, <2>2, <2>3, <2>4, ReturnsGoOn
  <1> QED
    BY <1>1, <1>2

LEMMA StepKeepsReturnedOnce ==
    ASSUME RInv, [BookingNext]_bookVars
    PROVE  ReturnedOnce'
  <1>0. /\ BInv /\ [BookingStep]_allVars /\ ActiveIsLive /\ BookedIsCommitted /\ OneAtATime
        /\ RestoresItsBooking /\ ReturnsAreMarked /\ ReturnedOnce /\ unruly \subseteq unruly'
    BY StepOfNext, UnrulyGrows DEF RInv
  <1>1. CASE Returns' = Returns
    BY <1>0, <1>1, ReturnsGoOn DEF ReturnedOnce
  <1>2. ASSUME NEW d \in Canceller, UNCHANGED bookingVars, d \notin Returns,
               Returns' = Returns \union {d}, job[d].pc = "restoring"
        PROVE  ReturnedOnce'
    <2>1. job' = job
      BY <1>2 DEF bookingVars
    <2>2. ASSUME NEW c \in Returns, job[c].booking = job[d].booking, job[d].booking \notin unruly
          PROVE  FALSE
      <3>1. Active(d) /\ d \in Jobs /\ c \in Jobs /\ c \in Canceller
        BY <1>0, <1>2, Types DEF Active, Returns
      <3>2. ~HalfWay(c)
        BY <1>0, <1>2, <2>2, <3>1 DEF OneAtATime, Active, HalfWay
      <3>3. status[job[d].booking] # "CANCELLED"
        BY <1>0, <2>2, <3>1 DEF ActiveIsLive
      <3> QED
        BY <1>0, <2>2, <3>2, <3>3 DEF ReturnsAreMarked
    <2> QED
      BY <1>0, <1>2, <2>1, <2>2 DEF ReturnedOnce
  <1> QED
    BY <1>0, <1>1, <1>2, ReturnsMove

-----------------------------------------------------------------------------
(* The seats.  A sum over a set of bookings or requests is the cardinality   *)
(* of the set of their places.                                               *)

\* Places(B, n) are n[b] places for each b in B.
Places(B, n) == {s \in B \X (1..MaxQty) : s[2] <= n[s[1]]}

Taken == [t \in Txn |-> -change[t]]

LEMMA SeatsArePlaces ==
    /\ \A B \in SUBSET Txn : SeatsOf(B) = Places(B, Taken)
    /\ \A C : SeatsBack(C) = Places(C, change)
  BY DEF SeatsOf, SeatsBack, Places, Quantity, Taken

LEMMA SamePlaces ==
    ASSUME NEW B, NEW f, NEW g, \A b \in B : f[b] = g[b]
    PROVE  Places(B, f) = Places(B, g)
  BY DEF Places

\* One element more has its places more.
LEMMA AddPlaces ==
    ASSUME NEW B, NEW f, NEW b, b \notin B, f[b] \in 1..MaxQty, IsFiniteSet(Places(B, f))
    PROVE  /\ IsFiniteSet(Places(B \union {b}, f))
           /\ Cardinality(Places(B \union {b}, f)) = Cardinality(Places(B, f)) + f[b]
  <1>1. PICK n : n = f[b]
    OBVIOUS
  <1>2. n \in 1..MaxQty /\ f[b] = n /\ n \in Nat
    BY <1>1, MaxQtyAssumption
  <1> DEFINE T == {b} \X (1..n)
             h == [i \in 1..n |-> <<b, i>>]
  <1>3. h \in Bijection(1..n, T)
    <2>1. h \in [1..n -> T]
      OBVIOUS
    <2>2. \A i, j \in 1..n : h[i] = h[j] => i = j
      OBVIOUS
    <2>3. \A x \in T : \E i \in 1..n : h[i] = x
      OBVIOUS
    <2> HIDE DEF h, T
    <2> QED
      BY <2>1, <2>2, <2>3 DEF Bijection, Injection, Surjection, IsInjective
  <1>4. IsFiniteSet(1..n) /\ Cardinality(1..n) = n
    <2>1. /\ IsFiniteSet(1..n)
          /\ Cardinality(1..n) = IF 1 > n THEN 0 ELSE n - 1 + 1
      BY <1>2, FS_Interval
    <2> QED
      BY <1>2, <2>1
  <1>5. IsFiniteSet(T) /\ Cardinality(T) = n
    BY <1>3, <1>4, FS_Bijection DEF ExistsBijection
  <1>6. Places(B \union {b}, f) = Places(B, f) \union T
    <2>1. ASSUME NEW s PROVE s \in Places(B \union {b}, f) <=> s \in Places(B, f) \union T
      <3>1. CASE s \in (B \union {b}) \X (1..MaxQty)
        <4>1. PICK x \in B \union {b}, i \in 1..MaxQty : s = <<x, i>>
          BY <3>1
        <4>2. s \in Places(B \union {b}, f) <=> i <= f[x]
          BY <4>1 DEF Places
        <4>3. s \in Places(B, f) <=> x \in B /\ i <= f[x]
          BY <4>1 DEF Places
        <4>4. s \in T <=> x = b /\ i <= n
          BY <1>2, <4>1, MaxQtyAssumption
        <4> HIDE DEF T
        <4> QED
          BY <1>1, <4>1, <4>2, <4>3, <4>4
      <3>2. CASE s \notin (B \union {b}) \X (1..MaxQty)
        <4>1. s \notin T
          BY <1>2, <3>2, MaxQtyAssumption
        <4> HIDE DEF T
        <4> QED
          BY <3>2, <4>1 DEF Places
      <3> QED
        BY <3>1, <3>2
    <2> HIDE DEF T
    <2> QED
      BY <2>1
  <1>7. Places(B, f) \intersect T = {}
    BY DEF Places
  <1>8. /\ IsFiniteSet(Places(B, f) \union T)
        /\ Cardinality(Places(B, f) \union T) = Cardinality(Places(B, f)) + Cardinality(T)
                                                  - Cardinality({})
    <2> HIDE DEF T
    <2> QED
      BY <1>5, <1>7, FS_Union
  <1>9. Cardinality({}) = 0 /\ Cardinality(Places(B, f)) \in Nat
    BY FS_EmptySet, FS_CardinalityType
  <1>10. Cardinality(Places(B \union {b}, f)) = Cardinality(Places(B, f)) + n
    <2>1. PICK m \in Nat : m = Cardinality(Places(B, f))
      BY <1>9
    <2> HIDE DEF T
    <2>2. Cardinality(Places(B, f) \union T) = m + n - 0
      BY <2>1, <1>5, <1>8, <1>9
    <2>3. Cardinality(Places(B \union {b}, f)) = m + n - 0
      BY <1>6, <2>2
    <2> QED
      BY <1>2, <2>1, <2>3
  <1>11. IsFiniteSet(Places(B \union {b}, f))
    BY <1>6, <1>8
  <1> QED
    BY <1>2, <1>9, <1>10, <1>11

\* The places of two sets apart are apart.
LEMMA SplitPlaces ==
    ASSUME NEW A, NEW B, NEW f, A \intersect B = {}, IsFiniteSet(Places(A \union B, f))
    PROVE  /\ IsFiniteSet(Places(A, f)) /\ IsFiniteSet(Places(B, f))
           /\ Cardinality(Places(A \union B, f)) =
                 Cardinality(Places(A, f)) + Cardinality(Places(B, f))
  <1>1. /\ Places(A \union B, f) = Places(A, f) \union Places(B, f)
        /\ Places(A, f) \intersect Places(B, f) = {}
    BY DEF Places
  <1>2. IsFiniteSet(Places(A, f)) /\ IsFiniteSet(Places(B, f))
    BY <1>1, FS_Subset
  <1>3. Cardinality(Places(A, f) \union Places(B, f)) =
           Cardinality(Places(A, f)) + Cardinality(Places(B, f))
               - Cardinality(Places(A, f) \intersect Places(B, f))
    BY <1>2, FS_Union
  <1>4. /\ Cardinality(Places(A, f) \intersect Places(B, f)) = 0
        /\ Cardinality(Places(A, f)) \in Nat /\ Cardinality(Places(B, f)) \in Nat
    BY <1>1, <1>2, FS_EmptySet, FS_CardinalityType
  <1>5. PICK m \in Nat, n \in Nat :
           m = Cardinality(Places(A, f)) /\ n = Cardinality(Places(B, f))
    BY <1>4
  <1>6. Cardinality(Places(A, f) \union Places(B, f)) = m + n - 0
    BY <1>3, <1>4, <1>5
  <1>7. Cardinality(Places(A \union B, f)) = m + n - 0
    BY <1>1, <1>6
  <1> QED
    BY <1>2, <1>5, <1>7

\* Places go with their elements.
LEMMA CarryPlaces ==
    ASSUME NEW A, NEW B, NEW f, NEW g, NEW w \in [A -> B],
           \A a, b \in A : w[a] = w[b] => a = b,
           \A a \in A : g[w[a]] = f[a],
           IsFiniteSet(Places(B, g))
    PROVE  IsFiniteSet(Places(A, f)) /\ Cardinality(Places(A, f)) <= Cardinality(Places(B, g))
  <1> DEFINE h == [s \in Places(A, f) |-> <<w[s[1]], s[2]>>]
  <1>1. \A s \in Places(A, f) : <<w[s[1]], s[2]>> \in Places(B, g)
    <2> SUFFICES ASSUME NEW a \in A, NEW i \in 1..MaxQty, i <= f[a]
                 PROVE  <<w[a], i>> \in Places(B, g)
      BY DEF Places
    <2>1. w[a] \in B /\ i <= g[w[a]]
      OBVIOUS
    <2> QED
      BY <2>1 DEF Places
  <1>2. h \in [Places(A, f) -> Places(B, g)]
    BY <1>1
  <1>3. \A s, t \in Places(A, f) : h[s] = h[t] => s = t
    <2> SUFFICES ASSUME NEW a \in A, NEW i \in 1..MaxQty, NEW b \in A, NEW j \in 1..MaxQty,
                        <<w[a], i>> = <<w[b], j>>
                 PROVE  <<a, i>> = <<b, j>>
      BY DEF Places
    <2>1. w[a] = w[b] /\ i = j
      OBVIOUS
    <2> QED
      BY <2>1
  <1> HIDE DEF h
  <1>4. h \in Injection(Places(A, f), Places(B, g))
    BY <1>2, <1>3 DEF Injection, IsInjective
  <1> QED
    BY <1>4, FS_Injection

\* What bookings and returns there are, and what counts as sold, moves together.
LEMMA SoldMoves ==
    ASSUME RInv, [BookingStep]_allVars
    PROVE  \/ \E a \in Creator :
                 /\ a \notin Booked /\ Booked' = Booked \union {a} /\ Returns' = Returns
                 /\ change[a] \in -MaxQty..-1 /\ sold' = sold - change[a] /\ change' = change
           \/ \E d \in Canceller :
                 /\ d \notin Returns /\ Returns' = Returns \union {d} /\ Booked' = Booked
                 /\ change[d] \in 1..MaxQty /\ sold' = sold - change[d] /\ change' = change
           \/ Booked' = Booked /\ Returns' = Returns /\ sold' = sold
  <1>0. BInv /\ BookedIsCommitted /\ RestoresItsBooking
    BY DEF RInv
  <1>1. ASSUME NEW a \in Creator, CommitCreate(a)
        PROVE  /\ a \notin Booked /\ Booked' = Booked \union {a} /\ Returns' = Returns
               /\ change[a] \in -MaxQty..-1 /\ sold' = sold - change[a] /\ change' = change
    <2>1. /\ status[a] = "none" /\ status'[a] = "PENDING"
          /\ \A b \in Creator : b # a => status'[b] = status[b]
          /\ phase[a] = "written" /\ sold' = sold - change[a] /\ change' = change
          /\ \A u \in Txn : u # a => phase'[u] = phase[u]
      BY <1>0, <1>1, CreateMeans
    <2>2. Returns' = Returns /\ change[a] \in -MaxQty..-1
      BY <1>0, <2>1, Types DEF Returns
    <2> QED
      BY <2>1, <2>2 DEF Booked
  <1>2. ASSUME status' = status PROVE Booked' = Booked
    BY <1>2 DEF Booked
  <1>3. ASSUME NEW d \in Canceller, Commit(d), UNCHANGED bookingVars
        PROVE  /\ d \notin Returns /\ Returns' = Returns \union {d} /\ Booked' = Booked
               /\ change[d] \in 1..MaxQty /\ sold' = sold - change[d] /\ change' = change
    <2>1. /\ phase[d] = "written" /\ phase'[d] = "committed" /\ sold' = sold - change[d]
          /\ change' = change /\ \A u \in Txn : u # d => phase'[u] = phase[u]
      BY <1>0, <1>3, Types, CommitMeans
    <2>2. d \notin Returns /\ Returns' = Returns \union {d}
      BY <1>0, <2>1, Types DEF Returns
    <2>3. job[d].pc # "idle" /\ change[d] = -change[job[d].booking] /\ d \in Jobs
      BY <1>0, <2>1, Types DEF RestoresItsBooking
    <2>4. change[job[d].booking] \in -MaxQty..-1
      BY <1>0, <2>3, Types
    <2>5. change[d] \in 1..MaxQty
      BY <2>3, <2>4, MaxQtyAssumption
    <2> QED
      BY <1>2, <1>3, <2>1, <2>2, <2>5 DEF bookingVars
  <1>4. ASSUME NEW d \in Canceller, RestoreSeats(d)
        PROVE  Booked' = Booked /\ Returns' = Returns /\ sold' = sold
    BY <1>0, <1>2, <1>4, RestoreMeans, Types DEF Returns
  <1>5. ASSUME NEW r \in Jobs, NEW v \in Job, Reads(r, v)
        PROVE  Booked' = Booked /\ Returns' = Returns /\ sold' = sold
    BY <1>0, <1>2, <1>5, ReadsMeans DEF Returns
  <1>6. CASE SeatsOnly
    BY <1>0, <1>2, <1>6, Types DEF SeatsOnly, Returns
  <1>7. ASSUME NEW r \in Jobs, NEW l \in JobPC, GoesOn(r, l)
        PROVE  Booked' = Booked /\ Returns' = Returns /\ sold' = sold
    <2>1. Returns' = Returns /\ sold' = sold
      BY <1>0, <1>7, GoesOnMeans DEF Returns
    <2>2. CASE MarkCancelled(r) /\ r \in Canceller
      BY <1>0, <2>1, <2>2, CancelMarks DEF Booked
    <2>3. CASE SaveConfirmed(r) /\ r \in Confirmer
      BY <1>0, <2>1, <2>3, ConfirmMarks DEF Booked
    <2> QED
      BY <1>2, <1>7, <2>1, <2>2, <2>3 DEF GoesOn
  <1> QED
    BY <1>0, <1>1, <1>3, <1>4, <1>5, <1>6, <1>7, StepKinds

LEMMA StepKeepsSold ==
    ASSUME RInv, [BookingStep]_allVars
    PROVE  SoldIsCounted'
  <1>0. BInv /\ BookedIsCommitted /\ RestoresItsBooking /\ sold \in Int
    BY Types DEF RInv
  <1>1. /\ Booked \subseteq Txn /\ Returns \subseteq Txn
        /\ Booked' \subseteq Txn /\ Returns' \subseteq Txn
    BY <1>0, Types DEF Booked, Returns
  <1> DEFINE p == Places(Booked, Taken)
             q == Places(Returns, change)
  <1>2. /\ IsFiniteSet(p) /\ IsFiniteSet(q) /\ sold + Cardinality(q) = Cardinality(p)
        /\ Cardinality(p) \in Nat /\ Cardinality(q) \in Nat
    <2>1. SeatsOf(Booked) = p /\ SeatsBack(Returns) = q
      BY <1>1, SeatsArePlaces
    <2> QED
      BY <2>1, FS_CardinalityType DEF RInv, SoldIsCounted
  <1>3. SeatsOf(Booked)' = Places(Booked', Taken') /\ SeatsBack(Returns)' = Places(Returns', change')
    BY <1>1 DEF SeatsOf, SeatsBack, Places, Quantity, Taken
  <1>4. /\ Places(Booked, Taken') = p
        /\ Places(Returns, change') = q
    <2>1. \A b \in Booked : Taken'[b] = Taken[b]
      BY <1>0, <1>1, ChangeStays DEF Booked, Taken
    <2>2. \A c \in Returns : change'[c] = change[c]
      <3> SUFFICES ASSUME NEW c \in Returns PROVE change'[c] = change[c]
        OBVIOUS
      <3>1. /\ change[c] = -change[job[c].booking] /\ c \in Canceller /\ c \in Jobs
            /\ phase'[c] = "committed" /\ job[c].pc # "idle"
            /\ job'[c].booking = job[c].booking
        BY <1>0, ReturnsGoOn, Types DEF RestoresItsBooking, Returns
      <3>2. change'[c] = -change'[job'[c].booking]
        BY <1>0, <3>1, StepKeepsRestores DEF RestoresItsBooking
      <3> QED
        BY <1>0, <3>1, <3>2, ChangeStays
    <2> QED
      BY <2>1, <2>2, SamePlaces
  <1>5. CASE Booked' = Booked /\ Returns' = Returns /\ sold' = sold
    BY <1>2, <1>3, <1>4, <1>5 DEF SoldIsCounted
  <1>6. ASSUME NEW a \in Creator,
               a \notin Booked, Booked' = Booked \union {a}, Returns' = Returns,
               change[a] \in -MaxQty..-1, sold' = sold - change[a], change' = change
        PROVE  SoldIsCounted'
    <2>1. Taken' = Taken
      BY <1>6 DEF Taken
    <2>2. Taken[a] = -change[a] /\ Taken[a] \in 1..MaxQty
      BY <1>0, <1>6, Types, MaxQtyAssumption DEF Taken
    <2>3. /\ IsFiniteSet(Places(Booked \union {a}, Taken))
          /\ Cardinality(Places(Booked \union {a}, Taken)) = Cardinality(p) + Taken[a]
      <3>1. a \notin Booked /\ Taken[a] \in 1..MaxQty /\ IsFiniteSet(Places(Booked, Taken))
        BY <1>2, <1>6, <2>2
      <3> QED
        BY ONLY <3>1, AddPlaces
    <2> HIDE DEF p, q
    <2>4. sold' + Cardinality(q) = Cardinality(p) + Taken[a]
      BY <1>0, <1>2, <1>6, <2>2
    <2> QED
      BY <1>2, <1>3, <1>4, <1>6, <2>1, <2>3, <2>4 DEF SoldIsCounted
  <1>7. ASSUME NEW d \in Canceller,
               d \notin Returns, Returns' = Returns \union {d}, Booked' = Booked,
               change[d] \in 1..MaxQty, sold' = sold - change[d], change' = change
        PROVE  SoldIsCounted'
    <2>1. /\ IsFiniteSet(Places(Returns \union {d}, change))
          /\ Cardinality(Places(Returns \union {d}, change)) = Cardinality(q) + change[d]
      <3>1. d \notin Returns /\ change[d] \in 1..MaxQty /\ IsFiniteSet(Places(Returns, change))
        BY <1>2, <1>7
      <3> QED
        BY ONLY <3>1, AddPlaces
    <2> HIDE DEF p, q
    <2>2. sold' + (Cardinality(q) + change[d]) = Cardinality(p)
      BY <1>0, <1>2, <1>7
    <2> QED
      BY <1>2, <1>3, <1>4, <1>7, <2>1, <2>2 DEF SoldIsCounted
  <1> HIDE DEF p, q
  <1> QED
    BY <1>5, <1>6, <1>7, SoldMoves

-----------------------------------------------------------------------------
(* The coupon.                                                               *)

LEMMA UseCounts ==
    ASSUME RInv
    PROVE  /\ IsFiniteSet(Coup) /\ Cardinality(Coup) \in Nat /\ IsFiniteSet(Returns)
           /\ IsFiniteSet(MayHaveReverted) /\ Cardinality(MayHaveReverted) \in Nat
           /\ IsFiniteSet(HasReverted) /\ Cardinality(HasReverted) \in Nat
           /\ Cardinality(Coup) <= usages + Cardinality(MayHaveReverted)
           /\ usages + Cardinality(HasReverted) <= Cardinality(Coup)
           /\ usages <= MaxUsages /\ usages \in Int
  <1>1. IsFiniteSet(Coup) /\ IsFiniteSet(Returns)
    BY DEF RInv, UsesAreCounted
  <1>2. MayHaveReverted \subseteq Returns /\ HasReverted \subseteq Returns
    BY DEF MayHaveReverted, HasReverted
  <1>3. IsFiniteSet(MayHaveReverted) /\ IsFiniteSet(HasReverted)
    BY <1>1, <1>2, FS_Subset
  <1> QED
    BY <1>1, <1>3, FS_CardinalityType, Types DEF RInv, UsesAreCounted

\* While a create request moves its coupon, it has no booking that could have
\* been given back.
LEMMA CreateMovesUse ==
    ASSUME RInv, NEW b \in Creator, phase[b] \in {"checked", "undone"},
           \A a \in Creator : a # b => coupon'[a] = coupon[a],
           UNCHANGED <<phase, job>>
    PROVE  Returns' = Returns /\ MayHaveReverted' = MayHaveReverted /\ HasReverted' = HasReverted
  <1>1. status[b] = "none"
    BY DEF RInv, BookedIsCommitted
  <1>2. Returns' = Returns
    BY DEF Returns
  <1>3. \A c \in Returns : HasCoupon(job[c].booking)' <=> HasCoupon(job[c].booking)
    <2> SUFFICES ASSUME NEW c \in Returns
                 PROVE  HasCoupon(job[c].booking)' <=> HasCoupon(job[c].booking)
      OBVIOUS
    <2>1. job[c].pc # "idle" /\ c \in Jobs
      BY Types DEF RInv, RestoresItsBooking, Returns
    <2>2. job[c].booking # b /\ job[c].booking \in Creator
      BY <1>1, <2>1, Types DEF RInv
    <2> QED
      BY <2>2 DEF HasCoupon
  <1> QED
    BY <1>2, <1>3 DEF MayHaveReverted, HasReverted

LEMMA StepKeepsUses ==
    ASSUME RInv, [BookingStep]_allVars
    PROVE  UsesAreCounted'
  <1>0. BInv /\ BookedIsCommitted /\ RestoresItsBooking /\ MaxUsages \in Nat
    BY MaxUsagesAssumption DEF RInv
  <1>1. ASSUME NEW b \in Creator, ApplyCoupon(b) PROVE UsesAreCounted'
    <2>1. /\ phase[b] = "checked" /\ UNCHANGED <<phase, job>>
          /\ usages' = usages + 1 /\ usages < MaxUsages
          /\ coupon[b] = "asked" /\ coupon'[b] = "applied"
          /\ \A a \in Creator : a # b => coupon'[a] = coupon[a]
      BY <1>0, <1>1 DEF ApplyCoupon, seats, vars, BInv, BookingTypeOK
    <2>2. Returns' = Returns /\ MayHaveReverted' = MayHaveReverted /\ HasReverted' = HasReverted
      BY <2>1, CreateMovesUse
    <2>3. b \notin Coup /\ Coup' = Coup \union {b}
      BY <2>1 DEF Coup, HasCoupon
    <2>4. IsFiniteSet(Coup') /\ Cardinality(Coup') = Cardinality(Coup) + 1
      BY <2>3, UseCounts, FS_AddElement
    <2> QED
      BY <1>0, <2>1, <2>2, <2>4, UseCounts DEF UsesAreCounted
  <1>2. ASSUME NEW b \in Creator, RevertInCatch(b) PROVE UsesAreCounted'
    <2>1. /\ phase[b] = "undone" /\ UNCHANGED <<phase, job>>
          /\ usages' = usages - 1
          /\ coupon[b] = "applied" /\ coupon'[b] = "reverted"
          /\ \A a \in Creator : a # b => coupon'[a] = coupon[a]
      BY <1>0, <1>2 DEF RevertInCatch, seats, vars, BInv, BookingTypeOK
    <2>2. Returns' = Returns /\ MayHaveReverted' = MayHaveReverted /\ HasReverted' = HasReverted
      BY <2>1, CreateMovesUse
    <2>3. b \in Coup /\ Coup' = Coup \ {b}
      BY <2>1 DEF Coup, HasCoupon
    <2>4. IsFiniteSet(Coup') /\ Cardinality(Coup') = Cardinality(Coup) - 1
      BY <2>3, UseCounts, FS_RemoveElement
    <2> QED
      BY <1>0, <2>1, <2>2, <2>4, UseCounts DEF UsesAreCounted
  <1>3. ASSUME NEW c \in Canceller, RevertCoupon(c) PROVE UsesAreCounted'
    <2>1. /\ c \in Jobs /\ job[c].pc = "restoring" /\ phase[c] = "committed"
          /\ UNCHANGED <<phase, coupon>>
          /\ usages' = IF HasCoupon(job[c].booking) THEN usages - 1 ELSE usages
          /\ job' = [job EXCEPT ![c].pc = "reverted"]
      BY <1>3 DEF RevertCoupon, HasCoupon, Jobs, seats, vars
    <2>2. /\ job'[c].pc = "reverted"
          /\ \A r \in Jobs : job'[r].booking = job[r].booking
          /\ \A r \in Jobs : r # c => job'[r] = job[r]
      BY <1>0, <2>1, Types, JobMoves DEF JobPC
    <2>3. Returns' = Returns /\ Coup' = Coup /\ c \in Returns
          /\ \A b : HasCoupon(b)' <=> HasCoupon(b)
      BY <2>1 DEF Returns, Coup, HasCoupon
    <2>4. CASE HasCoupon(job[c].booking)
      <3>1. /\ c \notin MayHaveReverted /\ MayHaveReverted' = MayHaveReverted \union {c}
            /\ c \notin HasReverted /\ HasReverted' = HasReverted \union {c}
        BY <1>0, <2>1, <2>2, <2>3, <2>4, Types DEF MayHaveReverted, HasReverted, Returns
      <3>2. /\ Cardinality(MayHaveReverted') = Cardinality(MayHaveReverted) + 1
            /\ Cardinality(HasReverted') = Cardinality(HasReverted) + 1
        BY <3>1, UseCounts, FS_AddElement
      <3> QED
        BY <1>0, <2>1, <2>3, <2>4, <3>2, UseCounts DEF UsesAreCounted
    <2>5. CASE ~HasCoupon(job[c].booking)
      <3>1. MayHaveReverted' = MayHaveReverted /\ HasReverted' = HasReverted
        BY <1>0, <2>1, <2>2, <2>3, <2>5, Types DEF MayHaveReverted, HasReverted, Returns
      <3> QED
        BY <1>0, <2>1, <2>3, <2>5, <3>1, UseCounts DEF UsesAreCounted
    <2> QED
      BY <2>4, <2>5
  <1>4. CASE UNCHANGED usages /\ \A b \in Creator : HasCoupon(b)' <=> HasCoupon(b)
    <2>1. Coup' = Coup
      BY <1>4 DEF Coup
    <2>2. IsFiniteSet(Returns')
      <3>1. CASE Returns' = Returns
        BY <3>1, UseCounts
      <3>2. ASSUME NEW d \in Canceller, Returns' = Returns \union {d}
            PROVE  IsFiniteSet(Returns')
        BY <3>2, UseCounts, FS_AddElement
      <3> QED
        BY <1>0, <3>1, <3>2, ReturnsMove
    <2>3. MayHaveReverted \subseteq MayHaveReverted'
      <3> SUFFICES ASSUME NEW c \in MayHaveReverted PROVE c \in MayHaveReverted'
        OBVIOUS
      <3>1. c \in Returns /\ HasCoupon(job[c].booking) /\ job[c].pc # "restoring"
        BY DEF MayHaveReverted
      <3>2. job'[c].booking = job[c].booking /\ phase'[c] = "committed" /\ job'[c].pc # "restoring"
        BY <1>0, <3>1, ReturnsGoOn
      <3>3. job[c].booking \in Creator
        BY <1>0, <3>1, Types DEF Returns
      <3>4. HasCoupon(job[c].booking)'
        BY <1>4, <3>1, <3>2, <3>3 DEF HasCoupon
      <3> QED
        BY <3>1, <3>2, <3>4 DEF MayHaveReverted, Returns
    <2>4. HasReverted' \subseteq HasReverted
      <3> SUFFICES ASSUME NEW c \in HasReverted' PROVE c \in HasReverted
        OBVIOUS
      <3>1. c \in Returns' /\ HasCoupon(job[c].booking)' /\ job'[c].pc \in {"reverted", "done"}
        BY DEF HasReverted
      <3>2. c \in Returns
        BY <1>0, <3>1, ReturnsMove DEF bookingVars
      <3>3. job'[c].booking = job[c].booking /\ job[c].booking \in Creator
        BY <1>0, <3>2, ReturnsGoOn, Types DEF Returns
      <3>4. HasCoupon(job[c].booking)
        BY <1>4, <3>1, <3>3 DEF HasCoupon
      <3>5. ~RevertCoupon(c)
        <4>1. usages # usages - 1
          BY UseCounts
        <4> QED
          BY <1>4, <3>4, <4>1 DEF RevertCoupon, HasCoupon
      <3>6. job[c].pc \in {"reverted", "done"}
        BY <1>0, <3>1, <3>2, <3>5, ReturnsGoOn
      <3> QED
        BY <3>2, <3>4, <3>6 DEF HasReverted
    <2>5. IsFiniteSet(MayHaveReverted')
      <3>1. MayHaveReverted' \subseteq Returns'
        BY DEF MayHaveReverted
      <3> QED
        BY <2>2, <3>1, FS_Subset
    <2>6. /\ Cardinality(MayHaveReverted) <= Cardinality(MayHaveReverted')
          /\ Cardinality(HasReverted') <= Cardinality(HasReverted)
          /\ Cardinality(MayHaveReverted') \in Nat /\ Cardinality(HasReverted') \in Nat
      <3>1. IsFiniteSet(HasReverted')
        BY <2>4, UseCounts, FS_Subset
      <3> QED
        BY <2>3, <2>4, <2>5, <3>1, UseCounts, FS_Subset, FS_CardinalityType
    <2> QED
      BY <1>4, <2>1, <2>2, <2>6, UseCounts DEF UsesAreCounted
  <1> QED
    BY <1>0, <1>1, <1>2, <1>3, <1>4, UseMoves

-----------------------------------------------------------------------------
LEMMA InitRInv == BookingInit => RInv
  <1> SUFFICES ASSUME BookingInit PROVE RInv
    OBVIOUS
  <1>1. BInv
    BY InitBInv
  <1>2. /\ \A r \in Jobs : job[r].pc = "idle"
        /\ \A b \in Creator : status[b] = "none" /\ coupon[b] = "no"
        /\ \A t \in Txn : phase[t] = "idle"
        /\ sold = 0 /\ usages = 0
    BY DEF BookingInit, Init
  <1>3. RestoresItsBooking /\ BookedIsCommitted
    BY <1>1, <1>2, Types DEF RestoresItsBooking, BookedIsCommitted, HasCoupon
  <1>4. OneAtATime /\ ActiveIsLive
    BY <1>1, <1>2, Types DEF OneAtATime, ActiveIsLive, Active
  <1>5. Returns = {} /\ Booked = {} /\ Coup = {}
    BY <1>1, <1>2, Types DEF Returns, Booked, Coup, HasCoupon
  <1>6. ReturnsAreMarked /\ ReturnedOnce
    BY <1>5 DEF ReturnsAreMarked, ReturnedOnce
  <1>7. SoldIsCounted
    <2>1. SeatsOf(Booked) = {} /\ SeatsBack(Returns) = {}
      BY <1>5 DEF SeatsOf, SeatsBack
    <2> QED
      BY <1>2, <2>1, FS_EmptySet DEF SoldIsCounted
  <1>8. UsesAreCounted
    <2>1. MayHaveReverted = {} /\ HasReverted = {}
      BY <1>5 DEF MayHaveReverted, HasReverted
    <2> QED
      BY <1>2, <1>5, <2>1, FS_EmptySet, MaxUsagesAssumption DEF UsesAreCounted
  <1> QED
    BY <1>1, <1>3, <1>4, <1>6, <1>7, <1>8 DEF RInv

LEMMA NextRInv == RInv /\ [BookingNext]_bookVars => RInv'
  <1> SUFFICES ASSUME RInv, [BookingNext]_bookVars PROVE RInv'
    OBVIOUS
  <1>1. BInv /\ RestoresItsBooking /\ [BookingStep]_allVars
    BY StepOfNext DEF RInv
  <1>2. BInv' /\ RestoresItsBooking'
    BY <1>1, NextBInv, StepKeepsRestores
  <1> QED
    BY <1>1, <1>2, StepKeepsBooked, StepKeepsOneAtATime, StepKeepsActiveIsLive,
       StepKeepsReturnsMarked, StepKeepsReturnedOnce, StepKeepsSold, StepKeepsUses DEF RInv

\* The inductive invariant of the seats and the coupon.
THEOREM ReturnsInvariance == BookingSpec => []RInv
  BY InitRInv, NextRInv, PTL DEF BookingSpec

-----------------------------------------------------------------------------
(* What follows from it at rest. *)

Cancelled == {b \in Creator : status[b] = "CANCELLED"}

Orderly == Returns \ Unruly(Returns)

\* Each cancelled booking has a return of its own, made by a request that ran to
\* its end; and each return of an orderly booking has a cancelled booking.
LEMMA ReturnOfCancelled ==
    ASSUME RInv
    PROVE  \E w \in [Cancelled -> Returns] :
              /\ \A b \in Cancelled : /\ job[w[b]].booking = b /\ job[w[b]].pc = "done"
                                      /\ change[w[b]] = -change[b]
              /\ \A a, b \in Cancelled : w[a] = w[b] => a = b
  <1> DEFINE w == [b \in Cancelled |->
                      CHOOSE c \in Returns : job[c].booking = b /\ job[c].pc = "done"]
  <1>1. ASSUME NEW b \in Cancelled
        PROVE  w[b] \in Returns /\ job[w[b]].booking = b /\ job[w[b]].pc = "done"
    <2>1. \E c \in Returns : job[c].booking = b /\ job[c].pc = "done"
      BY DEF Cancelled, RInv, BookedIsCommitted
    <2> QED
      BY <2>1
  <1>2. w \in [Cancelled -> Returns]
    BY <1>1
  <1> HIDE DEF w
  <1>3. \A b \in Cancelled : change[w[b]] = -change[b]
    BY <1>1 DEF RInv, RestoresItsBooking, Returns
  <1> QED
    BY <1>1, <1>2, <1>3

LEMMA CancelledOfReturn ==
    ASSUME RInv, Quiet
    PROVE  \E w \in [Orderly -> Cancelled] :
              /\ \A c \in Orderly : job[c].booking = w[c] /\ -change[w[c]] = change[c]
              /\ \A c, d \in Orderly : w[c] = w[d] => c = d
  <1> DEFINE w == [c \in Orderly |-> job[c].booking]
  <1>0. BInv
    BY DEF RInv
  <1>1. ASSUME NEW c \in Orderly
        PROVE  /\ job[c].booking \in Cancelled /\ job[c].booking \notin unruly
               /\ c \in Returns /\ -change[job[c].booking] = change[c]
    <2>1. c \in Returns /\ c \in Jobs /\ c \in Canceller /\ job[c].booking \notin unruly
          /\ phase[c] = "committed"
      BY <1>0, Types DEF Orderly, Unruly, Returns
    <2>2. status[job[c].booking] = "CANCELLED" /\ job[c].booking \in Creator
      BY <1>0, <2>1, Types DEF RInv, ReturnsAreMarked, Quiet
    <2>3. change[c] = -change[job[c].booking]
      BY <2>1 DEF RInv, RestoresItsBooking
    <2>4. change[job[c].booking] \in Int /\ change[c] \in Int
      BY <1>0, <2>1, <2>2, Types, MaxQtyAssumption
    <2> QED
      BY <2>1, <2>2, <2>3, <2>4 DEF Cancelled
  <1>2. w \in [Orderly -> Cancelled]
    BY <1>1
  <1>3. \A c, d \in Orderly : w[c] = w[d] => c = d
    BY <1>1 DEF RInv, ReturnedOnce
  <1> QED
    BY <1>1, <1>2, <1>3

\* Two sets apart count apart.
LEMMA SplitSet ==
    ASSUME NEW S, IsFiniteSet(S), NEW A \in SUBSET S, NEW B \in SUBSET S, A \intersect B = {}
    PROVE  /\ IsFiniteSet(A) /\ IsFiniteSet(B)
           /\ Cardinality(A) \in Nat /\ Cardinality(B) \in Nat /\ Cardinality(S) \in Nat
           /\ Cardinality(A) + Cardinality(B) <= Cardinality(S)
           /\ A \union B = S => Cardinality(A) + Cardinality(B) = Cardinality(S)
  <1>1. IsFiniteSet(A) /\ IsFiniteSet(B)
    BY FS_Subset
  <1>2. /\ Cardinality(A \union B) = Cardinality(A) + Cardinality(B) - Cardinality(A \intersect B)
        /\ IsFiniteSet(A \union B)
    BY <1>1, FS_Union
  <1>3. /\ Cardinality(A) \in Nat /\ Cardinality(B) \in Nat /\ Cardinality(S) \in Nat
        /\ Cardinality(A \intersect B) = 0
    BY <1>1, FS_CardinalityType, FS_EmptySet
  <1>4. PICK m \in Nat, n \in Nat : m = Cardinality(A) /\ n = Cardinality(B)
    BY <1>3
  <1>5. Cardinality(A \union B) = m + n - 0
    BY <1>2, <1>3, <1>4
  <1>6. A \union B \in SUBSET S /\ Cardinality(A \union B) <= Cardinality(S)
    BY FS_Subset
  <1>7. Cardinality(A) + Cardinality(B) = Cardinality(A \union B)
    BY <1>4, <1>5
  <1> QED
    BY <1>1, <1>3, <1>6, <1>7

LEMMA SeatsAtRest == RInv => SeatsMatchBookings
  <1> SUFFICES ASSUME RInv PROVE SeatsMatchBookings
    OBVIOUS
  <1>0. BInv /\ sold \in Int /\ event.availableSeats \in Int /\ event.capacity \in Int
        /\ event.availableSeats + sold = event.capacity
    BY Types DEF RInv, BInv, IInv, LInv, Seats, Ledger, TypeOK, Row
  <1>1. /\ Live \union Cancelled = Booked /\ Live \intersect Cancelled = {}
        /\ Live \subseteq Txn /\ Cancelled \subseteq Txn /\ Booked \subseteq Txn
    BY <1>0, Types DEF Live, Cancelled, Booked, Status
  <1>2. /\ Orderly \union Unruly(Returns) = Returns /\ Orderly \intersect Unruly(Returns) = {}
    BY DEF Orderly, Unruly
  <1>3. /\ SeatsOf(Live) = Places(Live, Taken) /\ SeatsOf(Booked) = Places(Booked, Taken)
        /\ SeatsBack(Returns) = Places(Returns, change)
        /\ SeatsBack(Unruly(Returns)) = Places(Unruly(Returns), change)
    BY <1>1, SeatsArePlaces
  <1>4. /\ IsFiniteSet(Places(Booked, Taken)) /\ IsFiniteSet(Places(Returns, change))
        /\ sold + Cardinality(Places(Returns, change)) = Cardinality(Places(Booked, Taken))
    BY <1>3 DEF RInv, SoldIsCounted
  <1>5. /\ IsFiniteSet(Places(Live, Taken)) /\ IsFiniteSet(Places(Cancelled, Taken))
        /\ Cardinality(Places(Booked, Taken)) =
              Cardinality(Places(Live, Taken)) + Cardinality(Places(Cancelled, Taken))
    BY <1>1, <1>4, SplitPlaces
  <1>6. /\ IsFiniteSet(Places(Orderly, change)) /\ IsFiniteSet(Places(Unruly(Returns), change))
        /\ Cardinality(Places(Returns, change)) =
              Cardinality(Places(Orderly, change)) + Cardinality(Places(Unruly(Returns), change))
    BY <1>2, <1>4, SplitPlaces
  <1>7. Cardinality(Places(Cancelled, Taken)) <= Cardinality(Places(Returns, change))
    <2>1. PICK w \in [Cancelled -> Returns] :
             /\ \A b \in Cancelled : change[w[b]] = -change[b]
             /\ \A a, b \in Cancelled : w[a] = w[b] => a = b
      BY ReturnOfCancelled
    <2>2. \A b \in Cancelled : change[w[b]] = Taken[b]
      BY <1>1, <2>1 DEF Taken
    <2> QED
      BY ONLY <1>4, <2>1, <2>2, CarryPlaces
  <1>8. Quiet => Cardinality(Places(Orderly, change)) <= Cardinality(Places(Cancelled, Taken))
    <2> SUFFICES ASSUME Quiet
                 PROVE  Cardinality(Places(Orderly, change)) <= Cardinality(Places(Cancelled, Taken))
      OBVIOUS
    <2>1. PICK w \in [Orderly -> Cancelled] :
             /\ \A c \in Orderly : -change[w[c]] = change[c]
             /\ \A c, d \in Orderly : w[c] = w[d] => c = d
      BY CancelledOfReturn
    <2>2. \A c \in Orderly : Taken[w[c]] = change[c]
      BY <1>1, <2>1 DEF Taken
    <2> QED
      BY ONLY <1>5, <2>1, <2>2, CarryPlaces
  <1>9. PICK l \in Nat, k \in Nat, o \in Nat, u \in Nat :
           /\ l = Cardinality(Places(Live, Taken)) /\ k = Cardinality(Places(Cancelled, Taken))
           /\ o = Cardinality(Places(Orderly, change))
           /\ u = Cardinality(Places(Unruly(Returns), change))
    BY <1>5, <1>6, FS_CardinalityType
  <1>10. sold + (o + u) = l + k /\ k <= o + u /\ (Quiet => o <= k)
    BY <1>4, <1>5, <1>6, <1>7, <1>8, <1>9
  <1>11. /\ event.availableSeats + l >= event.capacity
         /\ Quiet => event.availableSeats + l <= event.capacity + u
    BY <1>0, <1>9, <1>10
  <1> QED
    BY <1>3, <1>9, <1>11 DEF SeatsMatchBookings

\* Whatever the clients do and wherever a cancel request stops, every seat is on
\* offer or held by a live booking, and no more seats are both than cancel
\* requests have given back of bookings on which requests got in each other's
\* way: for any number of bookings, requests and seats.
THEOREM SeatsMatchBookingsHolds == BookingSpec => []SeatsMatchBookings
  BY SeatsAtRest, ReturnsInvariance, PTL

LEMMA CouponAtRest == RInv => CouponLimit
  <1> SUFFICES ASSUME RInv, Quiet
               PROVE  Cardinality({b \in Live : HasCoupon(b)}) <=
                      MaxUsages + Cardinality({c \in Unruly(Returns) : HasCoupon(job[c].booking)})
    BY DEF CouponLimit
  <1> DEFINE L == {b \in Live : HasCoupon(b)}
             K == {b \in Cancelled : HasCoupon(b)}
             U == {c \in Unruly(Returns) : HasCoupon(job[c].booking)}
             O == {c \in Orderly : HasCoupon(job[c].booking)}
             R == {c \in Returns : HasCoupon(job[c].booking)}
  <1>1. /\ IsFiniteSet(Coup) /\ IsFiniteSet(Returns) /\ IsFiniteSet(MayHaveReverted)
        /\ Cardinality(Coup) \in Nat /\ Cardinality(MayHaveReverted) \in Nat
        /\ Cardinality(Coup) <= usages + Cardinality(MayHaveReverted)
        /\ usages <= MaxUsages /\ usages \in Int /\ MaxUsages \in Nat
    BY UseCounts, MaxUsagesAssumption
  <1>2. /\ L \subseteq Coup /\ K \subseteq Coup /\ L \intersect K = {}
        /\ R \subseteq Returns /\ MayHaveReverted \subseteq R
        /\ O \subseteq R /\ U \subseteq R /\ O \intersect U = {} /\ O \union U = R
    BY DEF Live, Cancelled, Coup, MayHaveReverted, Orderly, Unruly
  <1>3. IsFiniteSet(R) /\ Cardinality(MayHaveReverted) <= Cardinality(R)
    <2> HIDE DEF R
    <2>1. IsFiniteSet(R)
      BY <1>1, <1>2, FS_Subset
    <2> QED
      BY <1>2, <2>1, FS_Subset
  <1>4. Cardinality(O) <= Cardinality(K)
    <2>1. PICK w \in [Orderly -> Cancelled] :
             /\ \A c \in Orderly : job[c].booking = w[c]
             /\ \A c, d \in Orderly : w[c] = w[d] => c = d
      BY CancelledOfReturn
    <2> DEFINE h == [c \in O |-> w[c]]
    <2>2. h \in [O -> K]
      BY <2>1
    <2>3. \A c, d \in O : h[c] = h[d] => c = d
      BY <2>1
    <2>4. IsFiniteSet(K)
      <3> HIDE DEF K
      <3> QED
        BY <1>1, <1>2, FS_Subset
    <2> HIDE DEF h, O, K
    <2>5. h \in Injection(O, K)
      BY <2>2, <2>3 DEF Injection, IsInjective
    <2> QED
      BY <2>4, <2>5, FS_Injection
  <1> HIDE DEF L, K, U, O, R
  <1>5. /\ Cardinality(L) \in Nat /\ Cardinality(K) \in Nat
        /\ Cardinality(L) + Cardinality(K) <= Cardinality(Coup)
    BY <1>1, <1>2, SplitSet
  <1>6. /\ Cardinality(O) \in Nat /\ Cardinality(U) \in Nat /\ Cardinality(R) \in Nat
        /\ Cardinality(O) + Cardinality(U) = Cardinality(R)
    BY <1>2, <1>3, SplitSet
  <1>7. Cardinality(L) <= MaxUsages + Cardinality(U)
    BY <1>1, <1>3, <1>4, <1>5, <1>6
  <1> QED
    BY <1>7 DEF L, U

\* No more live bookings have the coupon than may use it and requests that got
\* in each other's way have given back, for any limit.
THEOREM CouponLimitHolds == BookingSpec => []CouponLimit
  BY CouponAtRest, ReturnsInvariance, PTL

LEMMA UsesOfCancelled == RInv => CancelledUsesComeBack
  <1> SUFFICES ASSUME RInv
               PROVE  usages <= Cardinality({b \in Creator : HasCoupon(b) /\ status[b] # "CANCELLED"})
    BY DEF CancelledUsesComeBack
  <1> DEFINE K == {b \in Cancelled : HasCoupon(b)}
             N == {b \in Creator : HasCoupon(b) /\ status[b] # "CANCELLED"}
  <1>1. /\ K \subseteq Coup /\ N \subseteq Coup /\ K \intersect N = {} /\ K \union N = Coup
    BY DEF Coup, Cancelled
  <1>2. Cardinality(K) <= Cardinality(HasReverted)
    <2>1. PICK w \in [Cancelled -> Returns] :
             /\ \A b \in Cancelled : job[w[b]].booking = b /\ job[w[b]].pc = "done"
             /\ \A a, b \in Cancelled : w[a] = w[b] => a = b
      BY ReturnOfCancelled
    <2> DEFINE h == [b \in K |-> w[b]]
    <2>2. h \in [K -> HasReverted]
      BY <2>1 DEF HasReverted
    <2>3. \A a, b \in K : h[a] = h[b] => a = b
      BY <2>1
    <2> HIDE DEF h, K
    <2>4. h \in Injection(K, HasReverted)
      BY <2>2, <2>3 DEF Injection, IsInjective
    <2> QED
      BY <2>4, UseCounts, FS_Injection
  <1> HIDE DEF K, N
  <1>3. /\ Cardinality(K) \in Nat /\ Cardinality(N) \in Nat
        /\ Cardinality(K) + Cardinality(N) = Cardinality(Coup)
    BY <1>1, UseCounts, SplitSet
  <1>4. usages <= Cardinality(N)
    BY <1>2, <1>3, UseCounts
  <1> QED
    BY <1>4 DEF N

\* No cancelled booking keeps a use of the coupon, whatever the clients do and
\* wherever the requests that worked on it stopped, for any limit.
THEOREM CancelledUsesComeBackHolds == BookingSpec => []CancelledUsesComeBack
  BY UsesOfCancelled, ReturnsInvariance, PTL

-----------------------------------------------------------------------------
(* The tickets. *)

\* The ticket of a booking is spoken for: validations have it, or it is used and
\* no confirm request carries it back.
SpokenFor(b) == AtGate(b) # {} \/ (validated[b] /\ Carrying(b) = {})

\* Those let in, and those who are going to be, are not more than the overlaps
\* allow; and one, if the ticket is spoken for.
AdmissionsAreCounted ==
    \A b \in Creator :
        /\ IsFiniteSet(AtGate(b))
        /\ admitted[b] + Cardinality(AtGate(b)) <= overlaps[b] + (IF SpokenFor(b) THEN 1 ELSE 0)

GInv == BInv /\ GateTypeOK /\ AdmissionsAreCounted

LEMMA InitGInv == GateInit => GInv
  <1> SUFFICES ASSUME GateInit PROVE GInv
    OBVIOUS
  <1>1. BInv
    BY InitBInv DEF GateInit
  <1>2. GateTypeOK
    BY DEF GateInit, GateTypeOK
  <1>3. \A b \in Creator : AtGate(b) = {} /\ admitted[b] = 0 /\ overlaps[b] = 0 /\ ~validated[b]
    BY DEF GateInit, AtGate
  <1>4. AdmissionsAreCounted
    BY <1>3, FS_EmptySet DEF AdmissionsAreCounted, SpokenFor
  <1> QED
    BY <1>1, <1>2, <1>4 DEF GInv

LEMMA GateCounts ==
    ASSUME GInv, NEW b \in Creator
    PROVE  /\ IsFiniteSet(AtGate(b)) /\ Cardinality(AtGate(b)) \in Nat
           /\ admitted[b] \in Nat /\ overlaps[b] \in Nat
           /\ SpokenFor(b) => admitted[b] + Cardinality(AtGate(b)) <= overlaps[b] + 1
           /\ ~SpokenFor(b) => admitted[b] + Cardinality(AtGate(b)) <= overlaps[b]
  BY FS_CardinalityType DEF GInv, GateTypeOK, AdmissionsAreCounted

\* A confirm request that is going to save its booking was going to before, or
\* has just loaded it.
LEMMA CarriersLoad ==
    ASSUME BInv, [BookingStep]_allVars, NEW f \in Confirmer, job'[f].pc \in {"read", "verified"}
    PROVE  \/ Loads(f)
           \/ job[f].pc \in {"read", "verified"} /\ job'[f].booking = job[f].booking
  <1>0. f \in Jobs /\ f \notin Canceller
    BY Types
  <1>1. CASE job' = job
    BY <1>1
  <1>2. ASSUME NEW d \in Canceller, RestoreSeats(d) PROVE job'[f] = job[f]
    BY <1>0, <1>2, RestoreMeans
  <1>3. ASSUME NEW s \in Jobs, NEW l \in JobPC, GoesOn(s, l), s # f PROVE job'[f] = job[f]
    BY <1>0, <1>3, GoesOnMeans
  <1>4. ASSUME NEW l \in JobPC, GoesOn(f, l)
        PROVE  job[f].pc \in {"read", "verified"} /\ job'[f].booking = job[f].booking
    <2>1. job'[f].pc = l /\ job'[f].booking = job[f].booking
      BY <1>0, <1>4, GoesOnMeans
    <2> QED
      BY <1>0, <1>4, <2>1 DEF GoesOn
  <1>5. ASSUME NEW s \in Jobs, NEW v \in Job, Reads(s, v), s # f PROVE job'[f] = job[f]
    BY <1>0, <1>5, ReadsMeans
  <1>6. ASSUME NEW v \in Job, Reads(f, v) PROVE Loads(f)
    <2>1. job'[f] = v /\ v.pc \in {"read", "done"} /\ job[f].pc = "idle"
      BY <1>0, <1>6, ReadsMeans DEF Reads
    <2> QED
      BY <2>1 DEF Loads
  <1> QED
    BY <1>0, <1>1, <1>2, <1>3, <1>4, <1>5, <1>6, StepKinds DEF CommitCreate, bookingVars, SeatsOnly

\* Saving the tickets with a booking leaves a used one used unless a request
\* carries it back.
LEMMA CascadeGInv ==
    ASSUME GInv, BookingNext, Cascade
    PROVE  GInv'
  <1>1. BInv /\ BInv' /\ [BookingStep]_allVars
    BY NextBInv, StepOfNext DEF GInv
  <1>2. validated' \in [Creator -> BOOLEAN]
    BY DEF GInv, GateTypeOK, Cascade
  <1>3. held' \in [Confirmer -> BOOLEAN]
    <2>1. \A f \in Confirmer : job'[f].booking \in Creator
      BY <1>1 DEF BInv, BookingTypeOK, Jobs, Job
    <2> QED
      BY <2>1 DEF GInv, GateTypeOK, Cascade
  <1>4. UNCHANGED <<gate, admitted, overlaps>> /\ \A b \in Creator : AtGate(b)' = AtGate(b)
    BY DEF Cascade, AtGate
  <1>5. GateTypeOK'
    BY <1>2, <1>3, <1>4 DEF GInv, GateTypeOK
  <1>6. ASSUME NEW b \in Creator, validated[b], Carrying(b) = {}
        PROVE  validated'[b] /\ Carrying(b)' = {}
    <2>1. validated'[b]
      BY <1>6 DEF Cascade, SavesTickets, Carrying, GInv, GateTypeOK
    <2>2. ASSUME NEW f \in Confirmer, f \in Carrying(b)' PROVE FALSE
      <3>1. job'[f].booking = b /\ job'[f].pc \in {"read", "verified"} /\ ~held'[f]
        BY <2>2 DEF Carrying
      <3>2. ~Loads(f) /\ held'[f] = held[f]
        BY <1>6, <3>1 DEF Cascade
      <3>3. f \in Carrying(b)
        BY <1>1, <3>1, <3>2, CarriersLoad DEF Carrying
      <3> QED
        BY <1>6, <3>3
    <2> QED
      BY <2>1, <2>2 DEF Carrying
  <1>7. \A b \in Creator : SpokenFor(b) => SpokenFor(b)'
    BY <1>4, <1>6 DEF SpokenFor
  <1>8. AdmissionsAreCounted'
    <2> SUFFICES ASSUME NEW b \in Creator
                 PROVE  /\ IsFiniteSet(AtGate(b)')
                        /\ admitted'[b] + Cardinality(AtGate(b)')
                              <= overlaps'[b] + (IF SpokenFor(b)' THEN 1 ELSE 0)
      BY DEF AdmissionsAreCounted
    <2> QED
      BY <1>4, <1>7, GateCounts
  <1> QED
    BY <1>1, <1>5, <1>8 DEF GInv

\* What a step of a validation leaves alone.
LEMMA GateStep ==
    ASSUME GInv, NEW g \in Gate, NEW b \in Creator, UNCHANGED bookVars,
           NEW v \in [pc : {"idle", "found", "done"}, booking : Creator],
           gate' = [gate EXCEPT ![g] = v], v.booking = b,
           gate[g].pc = "idle" \/ gate[g].booking = b,
           UNCHANGED held,
           \A a \in Creator : a # b => /\ validated'[a] = validated[a]
                                       /\ admitted'[a] = admitted[a]
                                       /\ overlaps'[a] = overlaps[a]
    PROVE  /\ BInv'
           /\ gate' \in [Gate -> [pc : {"idle", "found", "done"}, booking : Creator]]
           /\ \A a \in Creator : Carrying(a)' = Carrying(a)
           /\ AtGate(b)' = IF v.pc = "found" THEN AtGate(b) \union {g} ELSE AtGate(b) \ {g}
           /\ \A a \in Creator : a # b =>
                 /\ IsFiniteSet(AtGate(a)')
                 /\ admitted'[a] + Cardinality(AtGate(a)')
                       <= overlaps'[a] + (IF SpokenFor(a)' THEN 1 ELSE 0)
  <1>1. BInv'
    BY NextBInv DEF GInv
  <1>2. gate \in [Gate -> [pc : {"idle", "found", "done"}, booking : Creator]]
    BY DEF GInv, GateTypeOK
  <1>3. gate'[g] = v /\ (\A h \in Gate : h # g => gate'[h] = gate[h])
    BY <1>2
  <1>4. \A a \in Creator : Carrying(a)' = Carrying(a)
    BY DEF Carrying, bookVars, allVars
  <1>5. AtGate(b)' = IF v.pc = "found" THEN AtGate(b) \union {g} ELSE AtGate(b) \ {g}
    BY <1>3 DEF AtGate
  <1>6. \A a \in Creator : a # b => AtGate(a)' = AtGate(a)
    BY <1>3 DEF AtGate
  <1>7. \A a \in Creator : a # b => (SpokenFor(a)' <=> SpokenFor(a))
    BY <1>4, <1>6 DEF SpokenFor
  <1>8. ASSUME NEW a \in Creator, a # b
        PROVE  /\ IsFiniteSet(AtGate(a)')
               /\ admitted'[a] + Cardinality(AtGate(a)')
                     <= overlaps'[a] + (IF SpokenFor(a)' THEN 1 ELSE 0)
    BY <1>6, <1>7, <1>8, GateCounts
  <1> QED
    BY <1>1, <1>2, <1>4, <1>5, <1>8

\* A validation that finds the ticket unused speaks for it, or overlaps with the
\* ones that have.
LEMMA FindTicketGInv ==
    ASSUME GInv, NEW g \in Gate, NEW b \in Creator, FindTicket(g, b)
    PROVE  GInv'
  <1> DEFINE v == [pc |-> "found", booking |-> b]
  <1>1. /\ v \in [pc : {"idle", "found", "done"}, booking : Creator]
        /\ v.booking = b /\ v.pc = "found"
    OBVIOUS
  <1>2. /\ gate' = [gate EXCEPT ![g] = v] /\ gate[g].pc = "idle" /\ ~validated[b]
        /\ UNCHANGED <<bookVars, validated, held, admitted>>
        /\ overlaps' = IF AtGate(b) = {} THEN overlaps
                                         ELSE [overlaps EXCEPT ![b] = @ + 1]
    BY DEF FindTicket, Overlapping
  <1> HIDE DEF v
  <1>3. /\ overlaps' \in [Creator -> Nat]
        /\ overlaps'[b] = IF AtGate(b) = {} THEN overlaps[b] ELSE overlaps[b] + 1
        /\ \A a \in Creator : a # b => overlaps'[a] = overlaps[a]
    BY <1>2 DEF GInv, GateTypeOK
  <1>4. /\ BInv'
        /\ gate' \in [Gate -> [pc : {"idle", "found", "done"}, booking : Creator]]
        /\ AtGate(b)' = AtGate(b) \union {g}
        /\ \A a \in Creator : a # b =>
              /\ IsFiniteSet(AtGate(a)')
              /\ admitted'[a] + Cardinality(AtGate(a)')
                    <= overlaps'[a] + (IF SpokenFor(a)' THEN 1 ELSE 0)
    <2>1. /\ GInv /\ g \in Gate /\ b \in Creator /\ UNCHANGED bookVars
          /\ v \in [pc : {"idle", "found", "done"}, booking : Creator]
          /\ gate' = [gate EXCEPT ![g] = v] /\ v.booking = b
          /\ gate[g].pc = "idle" \/ gate[g].booking = b
          /\ UNCHANGED held
          /\ \A a \in Creator : a # b => /\ validated'[a] = validated[a]
                                         /\ admitted'[a] = admitted[a]
                                         /\ overlaps'[a] = overlaps[a]
      BY <1>1, <1>2, <1>3
    <2>2. AtGate(b)' = IF v.pc = "found" THEN AtGate(b) \union {g} ELSE AtGate(b) \ {g}
      BY ONLY <2>1, GateStep
    <2>3. AtGate(b)' = AtGate(b) \union {g}
      BY <1>1, <2>2
    <2> QED
      BY ONLY <2>1, <2>3, GateStep
  <1>5. GateTypeOK'
    BY <1>2, <1>3, <1>4 DEF GInv, GateTypeOK
  <1>6. /\ IsFiniteSet(AtGate(b)')
        /\ admitted'[b] + Cardinality(AtGate(b)') <= overlaps'[b] + (IF SpokenFor(b)' THEN 1 ELSE 0)
    <2>1. g \notin AtGate(b)
      BY <1>2 DEF AtGate
    <2>2. /\ IsFiniteSet(AtGate(b)') /\ Cardinality(AtGate(b)') = Cardinality(AtGate(b)) + 1
      BY <1>4, <2>1, GateCounts, FS_AddElement
    <2>3. SpokenFor(b)'
      BY <1>4 DEF SpokenFor
    <2>4. admitted'[b] = admitted[b]
      BY <1>2
    <2>5. CASE AtGate(b) = {}
      <3>1. ~SpokenFor(b)
        BY <1>2, <2>5 DEF SpokenFor
      <3>2. admitted[b] + Cardinality(AtGate(b)) <= overlaps[b] /\ overlaps'[b] = overlaps[b]
        BY <1>3, <2>5, <3>1, GateCounts
      <3> QED
        BY <2>2, <2>3, <2>4, <3>2, GateCounts
    <2>6. CASE AtGate(b) # {}
      <3>1. SpokenFor(b)
        BY <2>6 DEF SpokenFor
      <3> QED
        BY <1>3, <2>2, <2>3, <2>4, <2>6, <3>1, GateCounts
    <2> QED
      BY <2>5, <2>6
  <1>7. AdmissionsAreCounted'
    BY <1>4, <1>6 DEF AdmissionsAreCounted
  <1> QED
    BY <1>4, <1>5, <1>7 DEF GInv

LEMMA RefuseTicketGInv ==
    ASSUME GInv, NEW g \in Gate, NEW b \in Creator, RefuseTicket(g, b)
    PROVE  GInv'
  <1> DEFINE v == [pc |-> "done", booking |-> b]
  <1>1. /\ v \in [pc : {"idle", "found", "done"}, booking : Creator]
        /\ v.booking = b /\ v.pc = "done"
    OBVIOUS
  <1>2. /\ gate' = [gate EXCEPT ![g] = v] /\ gate[g].pc = "idle"
        /\ UNCHANGED <<bookVars, validated, held, admitted, overlaps>>
    BY DEF RefuseTicket
  <1> HIDE DEF v
  <1>3. /\ BInv'
        /\ gate' \in [Gate -> [pc : {"idle", "found", "done"}, booking : Creator]]
        /\ \A a \in Creator : Carrying(a)' = Carrying(a)
        /\ AtGate(b)' = AtGate(b) \ {g}
        /\ \A a \in Creator : a # b =>
              /\ IsFiniteSet(AtGate(a)')
              /\ admitted'[a] + Cardinality(AtGate(a)')
                    <= overlaps'[a] + (IF SpokenFor(a)' THEN 1 ELSE 0)
    BY <1>1, <1>2, GateStep
  <1>4. GateTypeOK'
    BY <1>2, <1>3 DEF GInv, GateTypeOK
  <1>5. /\ IsFiniteSet(AtGate(b)')
        /\ admitted'[b] + Cardinality(AtGate(b)') <= overlaps'[b] + (IF SpokenFor(b)' THEN 1 ELSE 0)
    <2>1. AtGate(b)' = AtGate(b)
      BY <1>2, <1>3 DEF AtGate
    <2>2. SpokenFor(b)' <=> SpokenFor(b)
      BY <1>2, <1>3, <2>1 DEF SpokenFor
    <2> QED
      BY <1>2, <2>1, <2>2, GateCounts
  <1>6. AdmissionsAreCounted'
    BY <1>3, <1>5 DEF AdmissionsAreCounted
  <1> QED
    BY <1>3, <1>4, <1>6 DEF GInv

\* A validation that ends leaves the gate; the one that lets the holder in marks
\* the ticket as it does, which lasts unless a confirm request carries it back.
LEMMA LeavingGateGInv ==
    ASSUME GInv, NEW g \in Gate, SaveTicket(g) \/ GateStops(g)
    PROVE  GInv'
  <1>0. PICK b \in Creator : b = gate[g].booking
    BY DEF GInv, GateTypeOK
  <1> DEFINE v == [gate[g] EXCEPT !.pc = "done"]
  <1>1. /\ v \in [pc : {"idle", "found", "done"}, booking : Creator]
        /\ v.booking = b /\ v.pc = "done" /\ g \in AtGate(b)
    BY <1>0 DEF GInv, GateTypeOK, SaveTicket, GateStops, AtGate
  <1>2. gate' = [gate EXCEPT ![g] = v] /\ UNCHANGED <<bookVars, held>>
    BY DEF SaveTicket, GateStops
  <1>3. CASE GateStops(g)
    <2>1. UNCHANGED <<validated, admitted, overlaps>>
      BY <1>3 DEF GateStops
    <2> HIDE DEF v
    <2>2. /\ BInv'
          /\ gate' \in [Gate -> [pc : {"idle", "found", "done"}, booking : Creator]]
          /\ AtGate(b)' = AtGate(b) \ {g}
          /\ \A a \in Creator : a # b =>
                /\ IsFiniteSet(AtGate(a)')
                /\ admitted'[a] + Cardinality(AtGate(a)')
                      <= overlaps'[a] + (IF SpokenFor(a)' THEN 1 ELSE 0)
      BY <1>0, <1>1, <1>2, <2>1, GateStep
    <2>3. GateTypeOK'
      BY <1>2, <2>1, <2>2 DEF GInv, GateTypeOK
    <2>4. /\ IsFiniteSet(AtGate(b)')
          /\ admitted'[b] + Cardinality(AtGate(b)')
                <= overlaps'[b] + (IF SpokenFor(b)' THEN 1 ELSE 0)
      <3>1. IsFiniteSet(AtGate(b)') /\ Cardinality(AtGate(b)') = Cardinality(AtGate(b)) - 1
        BY <1>1, <2>2, GateCounts, FS_RemoveElement
      <3>2. SpokenFor(b)
        BY <1>1 DEF SpokenFor
      <3> QED
        BY <2>1, <3>1, <3>2, GateCounts
    <2>5. AdmissionsAreCounted'
      BY <2>2, <2>4 DEF AdmissionsAreCounted
    <2> QED
      BY <2>2, <2>3, <2>5 DEF GInv
  <1>4. CASE SaveTicket(g)
    <2>1. /\ validated' = [validated EXCEPT ![b] = TRUE]
          /\ admitted' = [admitted EXCEPT ![b] = @ + 1]
          /\ overlaps' = IF Carrying(b) = {} THEN overlaps
                                             ELSE [overlaps EXCEPT ![b] = @ + 1]
      BY <1>0, <1>4 DEF SaveTicket, Overlapping
    <2>2. /\ validated' \in [Creator -> BOOLEAN] /\ validated'[b] = TRUE
          /\ admitted' \in [Creator -> Nat] /\ admitted'[b] = admitted[b] + 1
          /\ overlaps' \in [Creator -> Nat]
          /\ overlaps'[b] = IF Carrying(b) = {} THEN overlaps[b] ELSE overlaps[b] + 1
          /\ \A a \in Creator : a # b => /\ validated'[a] = validated[a]
                                         /\ admitted'[a] = admitted[a]
                                         /\ overlaps'[a] = overlaps[a]
      BY <2>1 DEF GInv, GateTypeOK
    <2> HIDE DEF v
    <2>3. /\ BInv'
          /\ gate' \in [Gate -> [pc : {"idle", "found", "done"}, booking : Creator]]
          /\ \A a \in Creator : Carrying(a)' = Carrying(a)
          /\ AtGate(b)' = AtGate(b) \ {g}
          /\ \A a \in Creator : a # b =>
                /\ IsFiniteSet(AtGate(a)')
                /\ admitted'[a] + Cardinality(AtGate(a)')
                      <= overlaps'[a] + (IF SpokenFor(a)' THEN 1 ELSE 0)
      <3>1. /\ GInv /\ g \in Gate /\ b \in Creator /\ UNCHANGED bookVars
            /\ v \in [pc : {"idle", "found", "done"}, booking : Creator]
            /\ gate' = [gate EXCEPT ![g] = v] /\ v.booking = b
            /\ gate[g].pc = "idle" \/ gate[g].booking = b
            /\ UNCHANGED held
            /\ \A a \in Creator : a # b => /\ validated'[a] = validated[a]
                                           /\ admitted'[a] = admitted[a]
                                           /\ overlaps'[a] = overlaps[a]
        BY <1>0, <1>1, <1>2, <1>4, <2>2 DEF SaveTicket
      <3>2. AtGate(b)' = IF v.pc = "found" THEN AtGate(b) \union {g} ELSE AtGate(b) \ {g}
        BY ONLY <3>1, GateStep
      <3>3. AtGate(b)' = AtGate(b) \ {g}
        BY <1>1, <3>2
      <3> QED
        BY ONLY <3>1, <3>3, GateStep
    <2>4. GateTypeOK'
      BY <1>2, <2>2, <2>3 DEF GInv, GateTypeOK
    <2>5. /\ IsFiniteSet(AtGate(b)')
          /\ admitted'[b] + Cardinality(AtGate(b)')
                <= overlaps'[b] + (IF SpokenFor(b)' THEN 1 ELSE 0)
      <3>1. IsFiniteSet(AtGate(b)') /\ Cardinality(AtGate(b)') = Cardinality(AtGate(b)) - 1
        BY <1>1, <2>3, GateCounts, FS_RemoveElement
      <3>2. SpokenFor(b)
        BY <1>1 DEF SpokenFor
      <3>3. Carrying(b) = {} => SpokenFor(b)'
        BY <2>2, <2>3 DEF SpokenFor
      <3> QED
        BY <2>2, <3>1, <3>2, <3>3, GateCounts
    <2>6. AdmissionsAreCounted'
      BY <2>3, <2>5 DEF AdmissionsAreCounted
    <2> QED
      BY <2>3, <2>4, <2>6 DEF GInv
  <1> QED
    BY <1>3, <1>4

LEMMA NextGInv == GInv /\ [GateNext]_gateVars => GInv'
  <1>1. ASSUME GInv, UNCHANGED gateVars PROVE GInv'
    <2>1. BInv'
      BY <1>1, NextBInv DEF GInv, gateVars
    <2>2. GateTypeOK' /\ AdmissionsAreCounted'
      BY <1>1 DEF gateVars, bookVars, allVars, GInv, GateTypeOK, AdmissionsAreCounted,
                  SpokenFor, AtGate, Carrying
    <2> QED
      BY <2>1, <2>2 DEF GInv
  <1> QED
    BY <1>1, CascadeGInv, FindTicketGInv, RefuseTicketGInv, LeavingGateGInv
       DEF GateNext, Validate

\* The inductive invariant of the tickets at the gate.
THEOREM GateInvariance == GateSpec => []GInv
  BY InitGInv, NextGInv, PTL DEF GateSpec

\* Every variable of the tickets keeps its type.
THEOREM GateTypeCorrect == GateSpec => []GateTypeOK
  <1>1. GInv => GateTypeOK
    BY DEF GInv
  <1> QED
    BY <1>1, GateInvariance, PTL

\* A ticket lets in one holder, and one more for each time two requests had the
\* unused ticket at a time, for any number of validations, confirmations and
\* cancellations.
THEOREM AdmitsOnceHolds == GateSpec => []AdmitsOnce
  <1>1. GInv => AdmitsOnce
    <2> SUFFICES ASSUME GInv, NEW b \in Creator PROVE admitted[b] <= 1 + overlaps[b]
      BY DEF AdmitsOnce
    <2> QED
      BY GateCounts
  <1> QED
    BY <1>1, GateInvariance, PTL

\* The tickets are saved in the steps of the bookings or beside them: what is
\* proved of BookingSpec holds at the gate too.
THEOREM GateRefinesBookings == GateSpec => BookingSpec
  <1>1. GateInit => BookingInit
    BY DEF GateInit
  <1>2. [GateNext]_gateVars => [BookingNext]_bookVars
    BY DEF GateNext, Validate, gateVars, FindTicket, RefuseTicket, SaveTicket, GateStops
  <1> QED
    BY <1>1, <1>2, PTL DEF GateSpec, BookingSpec

\* The bookings keep their promises whatever the gates do meanwhile.
THEOREM GateKeepsBookings ==
    GateSpec => /\ []PaidBeforeConfirmed /\ []SeatsMatchBookings
                /\ []CouponLimit /\ []CancelledUsesComeBack
                /\ ImplementsInventory /\ ImplementsCounter
  BY GateRefinesBookings, PaidBeforeConfirmedHolds, SeatsMatchBookingsHolds, CouponLimitHolds,
     CancelledUsesComeBackHolds, BookingsRefineInventory, BookingsImplementCounter
=============================================================================
