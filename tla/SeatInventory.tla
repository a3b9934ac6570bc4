---------------------------- MODULE SeatInventory ----------------------------
(***************************************************************************)
(* The seat inventory of one event: the row of the events table, the       *)
(* database transactions of BookingsService.create and cancelBooking, and  *)
(* EventsService.updateAvailableSeats, which both of them call.            *)
(*                                                                         *)
(* A transaction is identified by its request and runs once.  PostgreSQL   *)
(* is external and modelled by what the code relies on: inserting a        *)
(* booking takes a KEY SHARE lock on the event row (the foreign key), the  *)
(* pessimistic_write_or_fail read takes FOR UPDATE NOWAIT, which fails     *)
(* rather than waits when another transaction holds either lock, locks     *)
(* are kept to the end of the outer transaction, and a rollback to the     *)
(* savepoint of the nested transaction frees what it had locked.           *)
(*                                                                         *)
(* The version column is left out: nothing reads it.                       *)
(***************************************************************************)
EXTENDS Integers, FiniteSets

CONSTANTS
    Txn,        \* the requests that open a transaction on the event row
    NoTxn,      \* nobody
    Capacity,   \* capacity given to EventsService.create
    MaxQty      \* the largest quantity of a booking

ASSUME TxnAssumption == NoTxn \notin Txn
ASSUME CapacityAssumption == Capacity \in Nat
ASSUME MaxQtyAssumption == MaxQty \in Nat \ {0}

VARIABLES
    event,      \* the committed row: its capacity and availableSeats columns
    sharers,    \* transactions holding KEY SHARE on the row
    rowLock,    \* the transaction holding FOR UPDATE on the row, or NoTxn
    phase,      \* where each transaction is in its handler
    change,     \* the change each transaction asks of availableSeats
    entity,     \* the Event object each transaction has loaded
    sold        \* ghost: seats taken less seats given back, by commits

vars == <<event, sharers, rowLock, phase, change, entity, sold>>

Row == [capacity : Nat, availableSeats : Nat]

Phase == {"idle", "checked", "inserted", "open", "locked", "written",
          "undone", "failed", "committed", "rolledBack"}

Ended == {"committed", "rolledBack"}

\* Phases from which a transaction holds FOR UPDATE on the row.
Holding == {"locked", "written", "undone"}

TypeOK ==
    /\ event \in Row
    /\ sharers \in SUBSET Txn
    /\ rowLock \in Txn \union {NoTxn}
    /\ phase \in [Txn -> Phase]
    /\ change \in [Txn -> -MaxQty..MaxQty]
    /\ entity \in [Txn -> Row]
    /\ sold \in Int

\* EventsService.create: every seat of a new event is available.
Init ==
    /\ event = [capacity |-> Capacity, availableSeats |-> Capacity]
    /\ sharers = {}
    /\ rowLock = NoTxn
    /\ phase = [t \in Txn |-> "idle"]
    /\ change = [t \in Txn |-> 0]
    /\ entity = [t \in Txn |-> event]
    /\ sold = 0

-----------------------------------------------------------------------------
(* BookingsService.create up to its insert. *)

\* The plain read of the event and the seat check on it.  No lock is taken.
CheckSeats(t, q) ==
    /\ phase[t] = "idle"
    /\ phase' = [phase EXCEPT ![t] =
                    IF event.availableSeats < q THEN "failed" ELSE "checked"]
    /\ change' = [change EXCEPT ![t] = -q]
    /\ entity' = [entity EXCEPT ![t] = event]
    /\ UNCHANGED <<event, sharers, rowLock, sold>>

\* Saving the booking and its tickets: the foreign key takes KEY SHARE on the
\* event row, and waits while another transaction holds FOR UPDATE.
InsertBooking(t) ==
    /\ phase[t] = "checked"
    /\ rowLock = NoTxn
    /\ sharers' = sharers \union {t}
    /\ phase' = [phase EXCEPT ![t] = "inserted"]
    /\ UNCHANGED <<event, rowLock, change, entity, sold>>

\* cancelBooking opens a transaction of its own to restore the seats of a
\* booking it has read.  Which bookings it restores, and how often, is the
\* subject of Bookings; here any committed booking may be restored any time.
BeginRestore(t, q) ==
    /\ phase[t] = "idle"
    /\ \E b \in Txn : phase[b] = "committed" /\ change[b] = -q
    /\ phase' = [phase EXCEPT ![t] = "open"]
    /\ change' = [change EXCEPT ![t] = q]
    /\ UNCHANGED <<event, sharers, rowLock, entity, sold>>

-----------------------------------------------------------------------------
(* EventsService.updateAvailableSeats. *)

\* Mutant: a read without a lock.
RowFreeAlways(t) == TRUE

RowFree(t) == rowLock = NoTxn /\ sharers \subseteq {t}

\* findOne with pessimistic_write_or_fail: FOR UPDATE NOWAIT.
LockRow(t) ==
    /\ phase[t] \in {"inserted", "open"}
    /\ RowFree(t)
    /\ rowLock' = t
    /\ entity' = [entity EXCEPT ![t] = event]
    /\ phase' = [phase EXCEPT ![t] = "locked"]
    /\ UNCHANGED <<event, sharers, change, sold>>

\* The row is locked by another transaction: the read throws.
LockRefused(t) ==
    /\ phase[t] \in {"inserted", "open"}
    /\ ~RowFree(t)
    /\ phase' = [phase EXCEPT ![t] = "failed"]
    /\ UNCHANGED <<event, sharers, rowLock, change, entity, sold>>

NewAvailable(t) == entity[t].availableSeats + change[t]

InBounds(t, n) == 0 <= n /\ n <= entity[t].capacity

\* Both bounds hold: save the row and broadcast it, before the commit.
WriteSeats(t) ==
    /\ phase[t] = "locked"
    /\ InBounds(t, NewAvailable(t))
    /\ entity' = [entity EXCEPT ![t].availableSeats = NewAvailable(t)]
    /\ phase' = [phase EXCEPT ![t] = "written"]
    /\ UNCHANGED <<event, sharers, rowLock, change, sold>>

\* "Insufficient available seats" or "cannot exceed capacity": the nested
\* transaction rolls back to its savepoint, which frees the row.
RejectSeats(t) ==
    /\ phase[t] = "locked"
    /\ ~InBounds(t, NewAvailable(t))
    /\ rowLock' = NoTxn
    /\ phase' = [phase EXCEPT ![t] = "failed"]
    /\ UNCHANGED <<event, sharers, change, entity, sold>>

\* createPaymentIntent threw: the catch block gives the seats back inside the
\* same transaction (and broadcasts that) before it rethrows.
Compensate(t) ==
    /\ phase[t] = "written"
    /\ change[t] < 0
    /\ LET n == entity[t].availableSeats - change[t]
       IN  entity' = IF InBounds(t, n) THEN [entity EXCEPT ![t].availableSeats = n] ELSE entity
    /\ phase' = [phase EXCEPT ![t] = "undone"]
    /\ UNCHANGED <<event, sharers, rowLock, change, sold>>

-----------------------------------------------------------------------------
(* The end of the outer transaction. *)

Unlocked(t) == IF rowLock = t THEN NoTxn ELSE rowLock

Commit(t) ==
    /\ phase[t] = "written"
    /\ event' = [event EXCEPT !.availableSeats = entity[t].availableSeats]
    /\ sold' = sold - change[t]
    /\ sharers' = sharers \ {t}
    /\ rowLock' = Unlocked(t)
    /\ phase' = [phase EXCEPT ![t] = "committed"]
    /\ UNCHANGED <<change, entity>>

\* Mutant: the lock is kept by the pooled connection.
RollbackKeepsLock(t) ==
    /\ phase[t] \in {"failed", "undone"}
    /\ sharers' = sharers \ {t}
    /\ phase' = [phase EXCEPT ![t] = "rolledBack"]
    /\ UNCHANGED <<event, rowLock, change, entity, sold>>

\* The exception reaches dataSource.transaction.
Rollback(t) ==
    /\ phase[t] \in {"failed", "undone"}
    /\ sharers' = sharers \ {t}
    /\ rowLock' = Unlocked(t)
    /\ phase' = [phase EXCEPT ![t] = "rolledBack"]
    /\ UNCHANGED <<event, change, entity, sold>>

\* A query fails, the commit fails or the process dies: PostgreSQL rolls the
\* transaction back and nothing else runs.
Fault(t) ==
    /\ phase[t] \notin Ended \union {"idle"}
    /\ sharers' = sharers \ {t}
    /\ rowLock' = Unlocked(t)
    /\ phase' = [phase EXCEPT ![t] = "rolledBack"]
    /\ UNCHANGED <<event, change, entity, sold>>

-----------------------------------------------------------------------------
Start(t) == \E q \in 1..MaxQty : CheckSeats(t, q) \/ BeginRestore(t, q)

Update(t) == LockRow(t) \/ LockRefused(t) \/ WriteSeats(t) \/ RejectSeats(t)

Advance(t) == InsertBooking(t) \/ Update(t) \/ Commit(t) \/ Rollback(t)

Next == \E t \in Txn : Start(t) \/ Advance(t) \/ Compensate(t) \/ Fault(t)

Spec == Init /\ [][Next]_vars

\* Once started, a handler runs on: its awaits are answered by the database,
\* by the payment call or by their timeouts.  Failures are never owed.
Fairness == \A t \in Txn : WF_vars(Advance(t))

FairSpec == Spec /\ Fairness

-----------------------------------------------------------------------------
(* Properties. *)

\* No seat is sold twice and none is lost: what the row offers and what the
\* committed requests hold add up to the capacity, whatever the handlers
\* interleave, refuse, compensate or lose in a crash.
Ledger ==
    /\ event.availableSeats + sold = event.capacity
    /\ event.availableSeats \in 0..event.capacity

\* updateAvailableSeats computes from the row as it is: until the commit of
\* the transaction that locked it, the committed row cannot move under it.
LockedReadIsCurrent ==
    \A t \in Txn :
        /\ phase[t] = "locked" => entity[t] = event
        /\ phase[t] = "written" =>
              entity[t].availableSeats = event.availableSeats + change[t]
        /\ phase[t] \in Holding => rowLock = t /\ sharers \subseteq {t}

\* The committed row moves only when a transaction that wrote it commits, and
\* then by what that one request asked: no update is lost, and an aborted
\* request leaves nothing behind.
RowMovesByCommittedChange ==
    [][event' # event =>
         \E t \in Txn :
            /\ phase[t] = "written" /\ phase'[t] = "committed"
            /\ event'.availableSeats = event.availableSeats + change[t]
            /\ event'.capacity = event.capacity]_vars

\* Every request that starts ends, although inserting a booking may wait for
\* the row: a handler never waits for one that waits for it.
EveryRequestEnds ==
    \A t \in Txn : phase[t] # "idle" ~> phase[t] \in Ended

\* SeatCounter, with the row's availableSeats as its counter.
Counter == INSTANCE SeatCounter WITH available <- event.availableSeats

\* Locks, snapshots and compensations implement the atomic counter.
ImplementsCounter == Counter!Spec
=============================================================================
