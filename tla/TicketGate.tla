------------------------------ MODULE TicketGate ------------------------------
(***************************************************************************)
(* Bookings with the tickets of the bookings: TicketsService validates     *)
(* them at the gate, and confirmBooking saves them too, because the        *)
(* relation Booking.tickets cascades.  One ticket stands for all those of  *)
(* a booking; the code treats each alike.                                  *)
(*                                                                         *)
(* As in EventEditing, save writes the columns in which the object differs *)
(* from the row.  Both halves of save are one step here: a validation that *)
(* comes between them leaves what it would have left before or after.      *)
(***************************************************************************)
EXTENDS Bookings

CONSTANT Gate       \* requests to validate a ticket

VARIABLES
    validated,  \* isValidated of the ticket of each booking
    held,       \* isValidated of the ticket each confirm request has loaded
    gate,       \* each validation: progress and booking
    admitted,   \* ghost: validations of each ticket answered with isValid
    overlaps    \* ghost: how often two requests held the unused ticket at a time

gateVars == <<bookVars, validated, held, gate, admitted, overlaps>>

GateTypeOK ==
    /\ validated \in [Creator -> BOOLEAN]
    /\ held \in [Confirmer -> BOOLEAN]
    /\ gate \in [Gate -> [pc : {"idle", "found", "done"}, booking : Creator]]
    /\ admitted \in [Creator -> Nat]
    /\ overlaps \in [Creator -> Nat]

\* create saves the tickets in its transaction, before updateAvailableSeats:
\* they are there when the booking is.
GateInit ==
    /\ BookingInit
    /\ validated = [b \in Creator |-> FALSE]
    /\ held = [f \in Confirmer |-> FALSE]
    /\ \E b \in Creator : gate = [g \in Gate |-> [pc |-> "idle", booking |-> b]]
    /\ admitted = [b \in Creator |-> 0]
    /\ overlaps = [b \in Creator |-> 0]

-----------------------------------------------------------------------------
(* TicketsService.validateTicket.  A ticket that is not found, or comes with *)
(* a wrong code, changes nothing.                                            *)

AtGate(b) == {g \in Gate : gate[g].booking = b /\ gate[g].pc = "found"}

\* Confirm requests whose save is to come, with the ticket loaded unused.
Carrying(b) ==
    {f \in Confirmer : job[f].booking = b /\ job[f].pc \in {"read", "verified"} /\ ~held[f]}

Overlapping(b, R) == overlaps' = IF R = {} THEN overlaps ELSE [overlaps EXCEPT ![b] = @ + 1]

\* findOne: whatever the status of the booking.
FindTicket(g, b) ==
    /\ gate[g].pc = "idle"
    /\ status[b] # "none"
    /\ ~validated[b]
    /\ gate' = [gate EXCEPT ![g] = [pc |-> "found", booking |-> b]]
    /\ Overlapping(b, AtGate(b))
    /\ UNCHANGED <<bookVars, validated, held, admitted>>

\* "Ticket already used".
RefuseTicket(g, b) ==
    /\ gate[g].pc = "idle"
    /\ status[b] # "none"
    /\ validated[b]
    /\ gate' = [gate EXCEPT ![g] = [pc |-> "done", booking |-> b]]
    /\ UNCHANGED <<bookVars, validated, held, admitted, overlaps>>

\* save, and the answer isValid.
SaveTicket(g) ==
    /\ gate[g].pc = "found"
    /\ gate' = [gate EXCEPT ![g].pc = "done"]
    /\ validated' = [validated EXCEPT ![gate[g].booking] = TRUE]
    /\ admitted' = [admitted EXCEPT ![gate[g].booking] = @ + 1]
    /\ Overlapping(gate[g].booking, Carrying(gate[g].booking))
    /\ UNCHANGED <<bookVars, held>>

\* The save throws.
GateStops(g) ==
    /\ gate[g].pc = "found"
    /\ gate' = [gate EXCEPT ![g].pc = "done"]
    /\ UNCHANGED <<bookVars, validated, held, admitted, overlaps>>

-----------------------------------------------------------------------------
(* The tickets in the steps of confirmBooking. *)

\* findOne with relations: the tickets are loaded with the booking.
Loads(f) == job[f].pc = "idle" /\ job'[f].pc = "read"

\* save cascades to the tickets that were loaded.
SavesTickets(f, b) ==
    job[f].pc = "verified" /\ job'[f].pc = "saved" /\ job[f].booking = b

\* Mutant: the tickets are saved as they were created.
CascadeResets ==
    /\ UNCHANGED <<held, overlaps, gate, admitted>>
    /\ validated' = [b \in Creator |->
                       validated[b] /\ ~ \E f \in Confirmer : SavesTickets(f, b)]

Cascade ==
    /\ held' = [f \in Confirmer |->
                  IF Loads(f) THEN validated[job'[f].booking] ELSE held[f]]
    /\ validated' = [b \in Creator |->
                       IF \E f \in Confirmer : SavesTickets(f, b)
                       THEN \E f \in Confirmer : SavesTickets(f, b) /\ held[f]
                       ELSE validated[b]]
    /\ UNCHANGED <<gate, admitted, overlaps>>

Validate(g) ==
    \/ \E b \in Creator : FindTicket(g, b) \/ RefuseTicket(g, b)
    \/ SaveTicket(g) \/ GateStops(g)

GateNext ==
    \/ BookingNext /\ Cascade
    \/ \E g \in Gate : Validate(g)

GateSpec == GateInit /\ [][GateNext]_gateVars /\ BookingFairness

-----------------------------------------------------------------------------
(* Properties. *)

\* A ticket lets one holder in, however validations, payments, confirmations
\* and cancellations of its booking interleave, and however often its row is
\* written back by a confirmation.  It takes two requests at a time to let in
\* one more: a validation that finds it unused while another one holds it, or
\* one that is saved while a confirmation, which has loaded it unused, is going
\* to write it back.
AdmitsOnce == \A b \in Creator : admitted[b] <= 1 + overlaps[b]
=============================================================================
