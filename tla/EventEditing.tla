---------------------------- MODULE EventEditing -----------------------------
(***************************************************************************)
(* SeatInventory with the organizer's side of the same row: EventsService  *)
(* update and delete, which take part in no seat transaction.              *)
(*                                                                         *)
(* update loads the whole Event, assigns the fields of the request and     *)
(* hands the object to repository.save.  TypeORM (external) then reads the *)
(* row again, and updates the columns in which the object differs from it: *)
(* those the request sets, and those another transaction has changed since *)
(* the object was loaded.  The UPDATE waits for a FOR UPDATE holder.       *)
(***************************************************************************)
EXTENDS SeatInventory

CONSTANTS
    Editor,     \* requests to update the event
    Capacities  \* capacities an update may ask for

ASSUME CapacitiesAssumption == Capacities \subseteq Nat

VARIABLES
    edit,       \* each update: its progress, its Event object, columns to write
    deleted     \* the row is gone

editVars == <<event, sharers, rowLock, phase, change, entity, sold,
              edit, deleted>>

seatVars == vars

Columns == {"capacity", "availableSeats"}

EditTypeOK ==
    /\ TypeOK
    /\ edit \in [Editor -> [phase : {"idle", "loaded", "saving", "done"},
                            row : Row, cols : SUBSET Columns]]
    /\ deleted \in BOOLEAN

EditInit ==
    /\ Init
    /\ edit = [e \in Editor |-> [phase |-> "idle", row |-> event, cols |-> {}]]
    /\ deleted = FALSE

-----------------------------------------------------------------------------
(* EventsService.update. *)

\* findOne, then Object.assign of the request; c is the requested capacity,
\* or the present one when the request leaves the capacity alone.
LoadEvent(e, c) ==
    /\ edit[e].phase = "idle"
    /\ ~deleted
    /\ edit' = [edit EXCEPT ![e].phase = "loaded",
                            ![e].row = [event EXCEPT !.capacity = c]]
    /\ UNCHANGED <<seatVars, deleted>>

\* save, first half: TypeORM compares the object with the row.
DiffEvent(e) ==
    /\ edit[e].phase = "loaded"
    /\ ~deleted
    /\ edit' = [edit EXCEPT ![e].phase = "saving",
                            ![e].cols = {c \in Columns : edit[e].row[c] # event[c]}]
    /\ UNCHANGED <<seatVars, deleted>>

\* Mutant: the UPDATE does not wait for the row lock.
StoreEventUnlocked(e) ==
    /\ edit[e].phase = "saving"
    /\ event' = [c \in Columns |->
                    IF c \in edit[e].cols THEN edit[e].row[c] ELSE event[c]]
    /\ edit' = [edit EXCEPT ![e].phase = "done"]
    /\ UNCHANGED <<sharers, rowLock, phase, change, entity, sold, deleted>>

\* save, second half: one UPDATE of the columns that differ, of no row if the
\* event has been deleted.
StoreEvent(e) ==
    /\ edit[e].phase = "saving"
    /\ edit[e].cols # {} => rowLock = NoTxn
    /\ event' = IF deleted THEN event
                ELSE [c \in Columns |->
                        IF c \in edit[e].cols THEN edit[e].row[c] ELSE event[c]]
    /\ edit' = [edit EXCEPT ![e].phase = "done"]
    /\ UNCHANGED <<sharers, rowLock, phase, change, entity, sold, deleted>>

\* findOne finds nothing: the request is refused.
LoadFails(e) ==
    /\ edit[e].phase = "idle"
    /\ deleted
    /\ edit' = [edit EXCEPT ![e].phase = "done"]
    /\ UNCHANGED <<seatVars, deleted>>

\* save finds no row with the object's id, so it inserts the object: the
\* deleted event is back.
Reinsert(e) ==
    /\ edit[e].phase = "loaded"
    /\ deleted
    /\ event' = edit[e].row
    /\ deleted' = FALSE
    /\ edit' = [edit EXCEPT ![e].phase = "done"]
    /\ UNCHANGED <<sharers, rowLock, phase, change, entity, sold>>

-----------------------------------------------------------------------------
(* EventsService.delete, and what the seat transactions meet after it. *)

\* Bookings are never deleted, so a committed one keeps its event for ever.
Booked == \E t \in Txn : phase[t] = "committed" /\ change[t] < 0

\* Mutant: the foreign key of bookings is not enforced.
DeleteEventUnchecked ==
    /\ ~deleted
    /\ rowLock = NoTxn
    /\ deleted' = TRUE
    /\ UNCHANGED <<seatVars, edit>>

\* DELETE waits for every lock on the row, then fails on the foreign key if a
\* booking refers to it (nothing changes, so that is no step).
DeleteEvent ==
    /\ ~deleted
    /\ rowLock = NoTxn /\ sharers = {}
    /\ ~Booked
    /\ deleted' = TRUE
    /\ UNCHANGED <<seatVars, edit>>

\* No event to read, to refer to or to lock: the handler throws.
EventNotFound(t) ==
    /\ deleted
    /\ phase[t] \in {"idle", "checked", "open"}
    /\ phase' = [phase EXCEPT ![t] = "failed"]
    /\ UNCHANGED <<event, sharers, rowLock, change, entity, sold,
                   edit, deleted>>

\* NOWAIT meets the short row lock of a save in progress.
LockRefusedBySave(t) ==
    /\ phase[t] \in {"inserted", "open"}
    /\ \E e \in Editor : edit[e].phase = "saving" /\ edit[e].cols # {}
    /\ phase' = [phase EXCEPT ![t] = "failed"]
    /\ UNCHANGED <<event, sharers, rowLock, change, entity, sold,
                   edit, deleted>>

-----------------------------------------------------------------------------
SeatAdvance(t) ==
    \/ ~deleted /\ Advance(t) /\ UNCHANGED <<edit, deleted>>
    \/ deleted /\ Rollback(t) /\ UNCHANGED <<edit, deleted>>
    \/ EventNotFound(t)
    \/ LockRefusedBySave(t)

SeatStep(t) ==
    \/ ~deleted /\ Start(t) /\ UNCHANGED <<edit, deleted>>
    \/ (Compensate(t) \/ Fault(t)) /\ UNCHANGED <<edit, deleted>>
    \/ SeatAdvance(t)

Save(e) == DiffEvent(e) \/ StoreEvent(e) \/ Reinsert(e) \/ LoadFails(e)

EditorNext ==
    \/ \E e \in Editor : Save(e) \/ \E c \in Capacities \union {event.capacity} : LoadEvent(e, c)
    \/ DeleteEvent

EditNext == (\E t \in Txn : SeatStep(t)) \/ EditorNext

\* A handler that has started runs on.
EditFairness ==
    /\ \A t \in Txn : WF_editVars(SeatAdvance(t))
    /\ \A e \in Editor : WF_editVars(Save(e))

EditSpec == EditInit /\ [][EditNext]_editVars /\ EditFairness

-----------------------------------------------------------------------------
(* Properties. *)

\* An edit cannot slip between the locked read of updateAvailableSeats and the
\* commit of its transaction, and neither can a deletion.
LockKeepsEditorsOut ==
    /\ LockedReadIsCurrent
    /\ rowLock # NoTxn => ~deleted

\* A deleted event has no bookings: a booking in flight when the event goes
\* either keeps it or fails.
DeletedHasNoBookings == deleted => ~Booked /\ sold = 0

\* Seat requests and edits end, whatever waits for whom.
EverythingEnds ==
    /\ EveryRequestEnds
    /\ \A e \in Editor : edit[e].phase # "idle" ~> edit[e].phase = "done"

\* "... to avoid 'lost update' anomalies": the seats offered move only by the
\* commits of seat transactions.
NoLostSeatUpdate ==
    [][event'.availableSeats # event.availableSeats =>
         \E t \in Txn :
            /\ phase[t] = "written" /\ phase'[t] = "committed"
            /\ event'.availableSeats = event.availableSeats + change[t]]_editVars
=============================================================================
