----------------------------- MODULE SeatCounter -----------------------------
(***************************************************************************)
(* What the booking service promises about the seats of one event: a      *)
(* counter that is decremented by a reservation only when enough seats     *)
(* remain, and incremented by a cancellation only up to the capacity.      *)
(* Every reservation and every cancellation is one atomic step here;      *)
(* SeatInventory has the transactions, row locks and failures, and is      *)
(* shown to implement this specification.                                  *)
(***************************************************************************)
EXTENDS Integers

CONSTANTS
    Capacity,   \* seats of the event when it is created
    MaxQty      \* the largest quantity one booking may ask for

VARIABLES
    available,  \* events.availableSeats
    sold        \* seats held by bookings that are not cancelled

vars == <<available, sold>>

Init == available = Capacity /\ sold = 0

\* create: only when newAvailable >= 0.
Reserve(q) ==
    /\ available >= q
    /\ available' = available - q
    /\ sold' = sold + q

\* cancelBooking: only when newAvailable <= capacity.
Release(q) ==
    /\ available + q <= Capacity
    /\ available' = available + q
    /\ sold' = sold - q

Next == \E q \in 1..MaxQty : Reserve(q) \/ Release(q)

Spec == Init /\ [][Next]_vars
=============================================================================
