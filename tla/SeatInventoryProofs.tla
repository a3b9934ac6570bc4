------------------------- MODULE SeatInventoryProofs -------------------------
(***************************************************************************)
(* What SeatInventory promises, for every set of requests, every capacity  *)
(* and every quantity: type correctness, the ledger of the seats, that a   *)
(* locked read stays current, and that the module implements SeatCounter.  *)
(*                                                                         *)
(* Ledger alone is not inductive: Commit stores what the transaction       *)
(* computed some steps before, so the invariant has to say that nobody     *)
(* else could move the row meanwhile.  That is LockedReadIsCurrent, which  *)
(* in turn needs to know that the lock is held only by a transaction in    *)
(* one of the Holding phases.  These parts are LInv, which says nothing of *)
(* how many seats there are: SeatFeedProofs uses it where the organizer    *)
(* edits the row.  IInv adds the seats to it.                              *)
(***************************************************************************)
EXTENDS SeatInventory, TLAPS

\* The row lock belongs to a transaction that will still end.
LockHolderIsHolding == rowLock # NoTxn => phase[rowLock] \in Holding

LInv == TypeOK /\ LockedReadIsCurrent /\ LockHolderIsHolding

\* What a transaction is about to commit passed both of the code's checks.
WrittenIsInBounds ==
    \A t \in Txn : phase[t] = "written" => entity[t].availableSeats \in 0..event.capacity

Seats ==
    /\ event.capacity = Capacity
    /\ Ledger
    /\ WrittenIsInBounds

IInv == LInv /\ Seats

-----------------------------------------------------------------------------
(* Facts about the row the steps use. *)

\* A row is the record of its two columns.
LEMMA RowIsItsColumns ==
    ASSUME NEW r \in Row
    PROVE  /\ r.capacity \in Nat
           /\ r.availableSeats \in Nat
           /\ r = [capacity |-> r.capacity, availableSeats |-> r.availableSeats]
  BY DEF Row

\* Storing a natural number in availableSeats gives a row.
LEMMA RowWithSeats ==
    ASSUME NEW r \in Row, NEW n \in Nat
    PROVE  /\ [r EXCEPT !.availableSeats = n] \in Row
           /\ [r EXCEPT !.availableSeats = n].availableSeats = n
           /\ [r EXCEPT !.availableSeats = n].capacity = r.capacity
  BY DEF Row

\* The holder of FOR UPDATE is the only transaction in a Holding phase, so a
\* step of another transaction finds it waiting for nothing but itself.
LEMMA OneHolder ==
    ASSUME LockedReadIsCurrent, NEW t \in Txn, NEW u \in Txn,
           phase[t] \in Holding, phase[u] \in Holding
    PROVE  t = u
  BY DEF LockedReadIsCurrent

-----------------------------------------------------------------------------
(* The lock, action by action. *)

\* The steps before the row is locked: they touch neither row nor lock, and
\* lead to no Holding phase.
LEMMA StartLInv ==
    ASSUME LInv, NEW t \in Txn, Start(t)
    PROVE  LInv'
  <1> USE MaxQtyAssumption
  <1>1. PICK q \in 1..MaxQty : CheckSeats(t, q) \/ BeginRestore(t, q)
    BY DEF Start
  <1>2. /\ phase[t] = "idle"
        /\ phase' \in [Txn -> Phase]
        /\ phase'[t] \in {"checked", "failed", "open"}
        /\ \A u \in Txn : u # t => phase'[u] = phase[u]
    BY <1>1 DEF CheckSeats, BeginRestore, LInv, TypeOK, Phase
  <1>3. /\ entity' \in [Txn -> Row]
        /\ \A u \in Txn : u # t => entity'[u] = entity[u] /\ change'[u] = change[u]
    BY <1>1 DEF CheckSeats, BeginRestore, LInv, TypeOK
  <1>4. change' \in [Txn -> -MaxQty..MaxQty]
    <2>1. q \in -MaxQty..MaxQty /\ -q \in -MaxQty..MaxQty
      OBVIOUS
    <2> QED
      BY <1>1, <2>1 DEF CheckSeats, BeginRestore, LInv, TypeOK
  <1>5. UNCHANGED <<event, sharers, rowLock, sold>>
    BY <1>1 DEF CheckSeats, BeginRestore
  <1>6. TypeOK'
    BY <1>2, <1>3, <1>4, <1>5 DEF LInv, TypeOK
  <1>7. LockedReadIsCurrent'
    BY <1>2, <1>3, <1>5 DEF LInv, LockedReadIsCurrent, Holding
  <1>8. LockHolderIsHolding'
    BY <1>2, <1>3, <1>5 DEF LInv, TypeOK, LockHolderIsHolding, Holding
  <1> QED
    BY <1>6, <1>7, <1>8 DEF LInv

\* Inserting the booking is possible only while nobody holds the row, so the
\* new sharer disturbs no holder.
LEMMA InsertBookingLInv ==
    ASSUME LInv, NEW t \in Txn, InsertBooking(t)
    PROVE  LInv'
  <1>1. /\ \A u \in Txn : phase[u] \notin Holding
        /\ \A u \in Txn : phase'[u] \notin Holding
        /\ phase' \in [Txn -> Phase]
    BY TxnAssumption DEF InsertBooking, LInv, TypeOK, LockedReadIsCurrent, Holding, Phase
  <1>2. TypeOK'
    BY <1>1 DEF InsertBooking, LInv, TypeOK
  <1>3. LockedReadIsCurrent'
    BY <1>1 DEF LockedReadIsCurrent, Holding
  <1>4. LockHolderIsHolding'
    BY DEF InsertBooking, LockHolderIsHolding
  <1> QED
    BY <1>2, <1>3, <1>4 DEF LInv

\* Locking the row reads it, and it was free.
LEMMA LockRowLInv ==
    ASSUME LInv, NEW t \in Txn, LockRow(t)
    PROVE  LInv'
  <1>1. /\ rowLock' = t /\ rowLock = NoTxn /\ sharers \subseteq {t}
        /\ phase'[t] = "locked" /\ phase' \in [Txn -> Phase]
        /\ entity'[t] = event /\ entity' \in [Txn -> Row]
        /\ UNCHANGED <<event, sharers, change, sold>>
    BY DEF LockRow, RowFree, LInv, TypeOK, Phase
  <1>2. \A u \in Txn : u # t => phase'[u] = phase[u] /\ phase'[u] \notin Holding
    BY <1>1, TxnAssumption DEF LockRow, LInv, TypeOK, LockedReadIsCurrent
  <1>3. TypeOK'
    BY <1>1 DEF LInv, TypeOK
  <1>4. LockedReadIsCurrent' /\ LockHolderIsHolding'
    BY <1>1, <1>2 DEF LockedReadIsCurrent, LockHolderIsHolding, Holding
  <1> QED
    BY <1>3, <1>4 DEF LInv

\* A refused lock changes the phase of the refused transaction only.
LEMMA LockRefusedLInv ==
    ASSUME LInv, NEW t \in Txn, LockRefused(t)
    PROVE  LInv'
  <1>1. /\ phase[t] \notin Holding
        /\ phase'[t] = "failed" /\ phase' \in [Txn -> Phase]
        /\ \A u \in Txn : u # t => phase'[u] = phase[u]
        /\ UNCHANGED <<event, sharers, rowLock, change, entity, sold>>
    BY DEF LockRefused, LInv, TypeOK, Phase, Holding
  <1>2. TypeOK'
    BY <1>1 DEF LInv, TypeOK
  <1>3. LockedReadIsCurrent' /\ LockHolderIsHolding'
    BY <1>1 DEF LInv, TypeOK, LockedReadIsCurrent, LockHolderIsHolding, Holding
  <1> QED
    BY <1>2, <1>3 DEF LInv

\* Writing the seats: the object was current, so what it now holds is the
\* committed row moved by the change, within the bounds just checked.
LEMMA WriteSeatsLInv ==
    ASSUME LInv, NEW t \in Txn, WriteSeats(t)
    PROVE  /\ LInv'
           /\ phase'[t] = "written"
           /\ \A u \in Txn : u # t => phase'[u] = phase[u] /\ entity'[u] = entity[u]
           /\ entity'[t].availableSeats = NewAvailable(t)
           /\ NewAvailable(t) = event.availableSeats + change[t]
           /\ NewAvailable(t) \in 0..event.capacity
  <1>1. /\ entity[t] = event /\ rowLock = t /\ sharers \subseteq {t}
        /\ phase[t] \in Holding
        /\ event \in Row /\ change[t] \in Int
    BY MaxQtyAssumption DEF WriteSeats, LInv, TypeOK, LockedReadIsCurrent, Holding
  <1>2. /\ NewAvailable(t) \in Nat
        /\ NewAvailable(t) \in 0..event.capacity
        /\ NewAvailable(t) = event.availableSeats + change[t]
    BY <1>1, RowIsItsColumns DEF WriteSeats, InBounds, NewAvailable
  <1>3. /\ entity' \in [Txn -> Row]
        /\ entity'[t].availableSeats = NewAvailable(t)
        /\ \A u \in Txn : u # t => entity'[u] = entity[u]
    <2>1. entity' = [entity EXCEPT ![t] =
                        [entity[t] EXCEPT !.availableSeats = NewAvailable(t)]]
      BY DEF WriteSeats
    <2> QED
      BY <1>1, <1>2, <2>1, RowWithSeats DEF LInv, TypeOK
  <1>4. /\ phase'[t] = "written" /\ phase' \in [Txn -> Phase]
        /\ \A u \in Txn : u # t => phase'[u] = phase[u]
        /\ UNCHANGED <<event, sharers, rowLock, change, sold>>
    BY DEF WriteSeats, LInv, TypeOK, Phase
  <1>5. TypeOK'
    BY <1>2, <1>3, <1>4 DEF LInv, TypeOK
  <1>6. LockedReadIsCurrent' /\ LockHolderIsHolding'
    BY <1>1, <1>2, <1>3, <1>4 DEF LInv, LockedReadIsCurrent, LockHolderIsHolding, Holding
  <1> QED
    BY <1>2, <1>3, <1>4, <1>5, <1>6 DEF LInv

\* A rejected change frees the row and leaves no holder.
LEMMA RejectSeatsLInv ==
    ASSUME LInv, NEW t \in Txn, RejectSeats(t)
    PROVE  LInv'
  <1>1. /\ phase[t] \in Holding
        /\ rowLock' = NoTxn
        /\ phase'[t] = "failed" /\ phase' \in [Txn -> Phase]
        /\ \A u \in Txn : u # t => phase'[u] = phase[u]
        /\ UNCHANGED <<event, sharers, change, entity, sold>>
    BY DEF RejectSeats, LInv, TypeOK, Phase, Holding
  <1>2. \A u \in Txn : phase'[u] \notin Holding
    BY <1>1, OneHolder DEF LInv, Holding
  <1>3. TypeOK'
    BY <1>1 DEF LInv, TypeOK
  <1>4. LockedReadIsCurrent' /\ LockHolderIsHolding'
    BY <1>1, <1>2 DEF LockedReadIsCurrent, LockHolderIsHolding, Holding
  <1> QED
    BY <1>3, <1>4 DEF LInv

\* Giving the seats back writes the object again, still under the lock.
LEMMA CompensateLInv ==
    ASSUME LInv, NEW t \in Txn, Compensate(t)
    PROVE  LInv'
  <1> DEFINE n == entity[t].availableSeats - change[t]
  <1>1. /\ phase[t] = "written" /\ rowLock = t /\ sharers \subseteq {t}
        /\ entity[t] \in Row /\ change[t] \in Int
    BY MaxQtyAssumption DEF Compensate, LInv, TypeOK, LockedReadIsCurrent, Holding
  <1>2. n \in Int
    BY <1>1, RowIsItsColumns
  <1>3. /\ phase'[t] = "undone" /\ phase' \in [Txn -> Phase]
        /\ \A u \in Txn : u # t => phase'[u] = phase[u] /\ phase[u] \notin Holding
        /\ UNCHANGED <<event, sharers, rowLock, change, sold>>
    <2>1. \A u \in Txn : u # t => phase[u] \notin Holding
      BY <1>1, OneHolder DEF LInv, Holding
    <2> QED
      BY <2>1 DEF Compensate, LInv, TypeOK, Phase
  <1>4. entity' \in [Txn -> Row]
    <2>1. CASE InBounds(t, n)
      <3>1. n \in Nat
        BY <1>2, <2>1 DEF InBounds
      <3>2. entity' = [entity EXCEPT ![t] = [entity[t] EXCEPT !.availableSeats = n]]
        BY <2>1 DEF Compensate
      <3> QED
        BY <1>1, <2>1, <3>1, <3>2, RowWithSeats DEF Compensate, LInv, TypeOK
    <2>2. CASE ~InBounds(t, n)
      BY <2>2 DEF Compensate, LInv, TypeOK
    <2> QED
      BY <2>1, <2>2
  <1>5. TypeOK'
    BY <1>3, <1>4 DEF LInv, TypeOK
  <1>6. LockedReadIsCurrent' /\ LockHolderIsHolding'
    BY <1>1, <1>3 DEF LockedReadIsCurrent, LockHolderIsHolding, Holding
  <1> QED
    BY <1>5, <1>6 DEF LInv

\* Committing moves the row by the change of its transaction and leaves no
\* holder.
LEMMA CommitLInv ==
    ASSUME LInv, NEW t \in Txn, Commit(t)
    PROVE  /\ LInv'
           /\ phase[t] = "written" /\ phase'[t] = "committed"
           /\ \A u \in Txn : phase'[u] \notin Holding
           /\ change[t] \in -MaxQty..MaxQty
           /\ event'.capacity = event.capacity
           /\ event'.availableSeats = entity[t].availableSeats
           /\ event'.availableSeats = event.availableSeats + change[t]
           /\ sold' = sold - change[t]
  <1>1. /\ phase[t] = "written" /\ rowLock = t
        /\ entity[t].availableSeats = event.availableSeats + change[t]
        /\ entity[t] \in Row
        /\ event \in Row /\ sold \in Int /\ change[t] \in -MaxQty..MaxQty
    BY DEF Commit, LInv, TypeOK, LockedReadIsCurrent, Holding
  <1>2. change[t] \in Int
    BY <1>1, MaxQtyAssumption
  <1>3. /\ event' \in Row
        /\ event'.capacity = event.capacity
        /\ event'.availableSeats = entity[t].availableSeats
    BY <1>1, RowIsItsColumns, RowWithSeats DEF Commit
  <1>4. /\ phase'[t] = "committed" /\ phase' \in [Txn -> Phase]
        /\ \A u \in Txn : phase'[u] \notin Holding
        /\ rowLock' = NoTxn
        /\ sold' = sold - change[t]
        /\ sharers' \in SUBSET Txn
        /\ UNCHANGED <<change, entity>>
    <2>1. \A u \in Txn : u # t => phase[u] \notin Holding
      BY <1>1, OneHolder DEF LInv, Holding
    <2> QED
      BY <1>1, <2>1 DEF Commit, LInv, TypeOK, Phase, Unlocked, Holding
  <1>5. TypeOK'
    BY <1>1, <1>2, <1>3, <1>4 DEF LInv, TypeOK
  <1>6. LockedReadIsCurrent' /\ LockHolderIsHolding'
    BY <1>4 DEF LockedReadIsCurrent, LockHolderIsHolding, Holding
  <1> QED
    BY <1>1, <1>3, <1>4, <1>5, <1>6 DEF LInv

\* A rollback, ordered or not, frees what the transaction held and leaves the
\* row as it was.
LEMMA AbortLInv ==
    ASSUME LInv, NEW t \in Txn, Rollback(t) \/ Fault(t)
    PROVE  LInv'
  <1>1. /\ phase'[t] = "rolledBack" /\ phase' \in [Txn -> Phase]
        /\ \A u \in Txn : u # t => phase'[u] = phase[u]
        /\ sharers' \in SUBSET Txn /\ sharers' \subseteq sharers
        /\ rowLock' = Unlocked(t) /\ rowLock' \in Txn \union {NoTxn}
        /\ UNCHANGED <<event, change, entity, sold>>
    BY DEF Rollback, Fault, LInv, TypeOK, Phase, Unlocked
  <1>2. TypeOK'
    BY <1>1 DEF LInv, TypeOK
  <1>3. LockedReadIsCurrent'
    BY <1>1 DEF LInv, LockedReadIsCurrent, Unlocked, Holding
  <1>4. LockHolderIsHolding'
    BY <1>1 DEF LInv, TypeOK, LockHolderIsHolding, Unlocked
  <1> QED
    BY <1>2, <1>3, <1>4 DEF LInv

LEMMA NextLInv == LInv /\ [Next]_vars => LInv'
  <1>1. ASSUME LInv, UNCHANGED vars PROVE LInv'
    BY <1>1 DEF vars, LInv, TypeOK, LockedReadIsCurrent, LockHolderIsHolding
  <1>2. ASSUME LInv, NEW t \in Txn, Start(t) \/ Advance(t) \/ Compensate(t) \/ Fault(t)
        PROVE  LInv'
    BY <1>2, StartLInv, InsertBookingLInv, LockRowLInv, LockRefusedLInv, WriteSeatsLInv,
       RejectSeatsLInv, CompensateLInv, CommitLInv, AbortLInv DEF Advance, Update
  <1> QED
    BY <1>1, <1>2 DEF Next

-----------------------------------------------------------------------------
(* The seats. *)

LEMMA InitIInv == Init => IInv
  <1> SUFFICES ASSUME Init PROVE IInv
    OBVIOUS
  <1> USE CapacityAssumption, MaxQtyAssumption, TxnAssumption
  <1>1. event \in Row /\ event.capacity = Capacity /\ event.availableSeats = Capacity
    BY DEF Init, Row
  <1>2. TypeOK
    BY <1>1 DEF Init, TypeOK, Phase
  <1>3. Ledger
    BY <1>1 DEF Init, Ledger
  <1>4. LockedReadIsCurrent /\ LockHolderIsHolding /\ WrittenIsInBounds
    BY DEF Init, LockedReadIsCurrent, LockHolderIsHolding, WrittenIsInBounds, Holding
  <1> QED
    BY <1>1, <1>2, <1>3, <1>4 DEF IInv, LInv, Seats

\* Of all the actions only Commit moves the row or the ledger, and only
\* WriteSeats makes a transaction written.
LEMMA StepMoves ==
    ASSUME LInv, [Next]_vars
    PROVE  \/ \E t \in Txn : Commit(t) \/ WriteSeats(t)
           \/ /\ UNCHANGED <<event, sold>>
              /\ \A u \in Txn : phase'[u] = "written" =>
                                   phase[u] = "written" /\ entity'[u] = entity[u]
  <1>1. ASSUME UNCHANGED vars
        PROVE  /\ UNCHANGED <<event, sold>>
               /\ \A u \in Txn : phase'[u] = "written" =>
                                    phase[u] = "written" /\ entity'[u] = entity[u]
    BY <1>1 DEF vars
  <1>2. ASSUME NEW t \in Txn,
               \/ Start(t) \/ InsertBooking(t) \/ LockRow(t) \/ LockRefused(t)
               \/ RejectSeats(t) \/ Rollback(t) \/ Compensate(t) \/ Fault(t)
        PROVE  /\ UNCHANGED <<event, sold>>
               /\ \A u \in Txn : phase'[u] = "written" =>
                                    phase[u] = "written" /\ entity'[u] = entity[u]
    <2>1. /\ UNCHANGED <<event, sold>>
          /\ phase'[t] # "written"
          /\ \A u \in Txn : u # t => phase'[u] = phase[u] /\ entity'[u] = entity[u]
      BY <1>2 DEF LInv, TypeOK, Start, CheckSeats, BeginRestore, InsertBooking, LockRow,
                  LockRefused, RejectSeats, Rollback, Compensate, Fault
    <2> QED
      BY <2>1
  <1> QED
    BY <1>1, <1>2 DEF Next, Advance, Update

LEMMA NextIInv == IInv /\ [Next]_vars => IInv'
  <1> SUFFICES ASSUME IInv, [Next]_vars PROVE IInv'
    OBVIOUS
  <1>1. LInv /\ LInv' /\ event \in Row /\ sold \in Int
    BY NextLInv DEF IInv, Seats, LInv, TypeOK
  <1>2. ASSUME NEW t \in Txn, Commit(t) PROVE Seats'
    <2>1. /\ event'.capacity = event.capacity
          /\ event'.availableSeats = event.availableSeats + change[t]
          /\ event'.availableSeats \in 0..event.capacity
          /\ change[t] \in Int
          /\ sold' = sold - change[t]
          /\ \A u \in Txn : phase'[u] # "written"
      BY <1>1, <1>2, CommitLInv, MaxQtyAssumption DEF IInv, Seats, WrittenIsInBounds, Holding
    <2> QED
      BY <1>1, <2>1, RowIsItsColumns DEF IInv, Seats, Ledger, WrittenIsInBounds
  <1>3. ASSUME NEW t \in Txn, WriteSeats(t) PROVE Seats'
    <2>1. UNCHANGED <<event, sold>>
      BY <1>3 DEF WriteSeats
    <2> QED
      BY <1>1, <1>3, <2>1, WriteSeatsLInv DEF IInv, Seats, Ledger, WrittenIsInBounds
  <1>4. ASSUME UNCHANGED <<event, sold>>,
               \A u \in Txn : phase'[u] = "written" =>
                                 phase[u] = "written" /\ entity'[u] = entity[u]
        PROVE  Seats'
    BY <1>4 DEF IInv, Seats, Ledger, WrittenIsInBounds
  <1>5. Seats'
    BY <1>1, <1>2, <1>3, <1>4, StepMoves
  <1> QED
    BY <1>1, <1>5 DEF IInv

-----------------------------------------------------------------------------
(* The theorems. *)

\* The inductive invariant holds in every reachable state.
THEOREM Invariance == Spec => []IInv
  <1>1. Init => IInv
    BY InitIInv
  <1>2. IInv /\ [Next]_vars => IInv'
    BY NextIInv
  <1> QED
    BY <1>1, <1>2, PTL DEF Spec

\* Every variable keeps its type.
THEOREM TypeCorrect == Spec => []TypeOK
  BY Invariance, PTL DEF IInv, LInv

\* No seat is sold twice and none is lost, for any number of concurrent
\* bookings and cancellations.
THEOREM LedgerHolds == Spec => []Ledger
  <1>1. IInv => Ledger
    BY DEF IInv, Seats
  <1> QED
    BY <1>1, Invariance, PTL

\* What updateAvailableSeats has read stays the committed row until it commits.
THEOREM LockedReadStaysCurrent == Spec => []LockedReadIsCurrent
  <1>1. IInv => LockedReadIsCurrent
    BY DEF IInv, LInv
  <1> QED
    BY <1>1, Invariance, PTL

-----------------------------------------------------------------------------
(* Steps of the row, and of the counter. *)

\* Commit moves row and ledger, both by the change of its transaction.
LEMMA RowMoves ==
    ASSUME IInv, [Next]_vars, <<event, sold>>' # <<event, sold>>
    PROVE  \E t \in Txn :
              /\ phase[t] = "written" /\ phase'[t] = "committed"
              /\ change[t] \in -MaxQty..MaxQty
              /\ event'.capacity = event.capacity
              /\ event'.availableSeats = event.availableSeats + change[t]
              /\ event'.availableSeats \in 0..event.capacity
              /\ sold' = sold - change[t]
  <1>1. PICK t \in Txn : Commit(t)
    BY StepMoves DEF WriteSeats, IInv
  <1> QED
    BY <1>1, CommitLInv DEF IInv, Seats, WrittenIsInBounds

\* No update of the row is lost and no aborted request leaves a trace.
THEOREM RowMovesOnlyByCommits == Spec => RowMovesByCommittedChange
  <1>1. IInv /\ [Next]_vars =>
           [event' # event =>
              \E t \in Txn :
                 /\ phase[t] = "written" /\ phase'[t] = "committed"
                 /\ event'.availableSeats = event.availableSeats + change[t]
                 /\ event'.capacity = event.capacity]_vars
    BY RowMoves
  <1> QED
    BY <1>1, Invariance, PTL DEF Spec, RowMovesByCommittedChange

\* Every step of the transactions is a reservation, a release or nothing at
\* all of the atomic counter.
LEMMA StepImplementsCounter == IInv /\ [Next]_vars => [Counter!Next]_(Counter!vars)
  <1> SUFFICES ASSUME IInv, [Next]_vars, ~ UNCHANGED Counter!vars
               PROVE  Counter!Next
    OBVIOUS
  <1>1. <<event, sold>>' # <<event, sold>>
    BY DEF Counter!vars
  <1>2. PICK t \in Txn :
           /\ change[t] \in -MaxQty..MaxQty
           /\ event'.availableSeats = event.availableSeats + change[t]
           /\ event'.availableSeats \in 0..event.capacity
           /\ sold' = sold - change[t]
    BY <1>1, RowMoves
  <1>3. /\ event.availableSeats \in Nat /\ sold \in Int /\ event.capacity = Capacity
        /\ Capacity \in Nat /\ MaxQty \in Nat \ {0}
    BY RowIsItsColumns, CapacityAssumption, MaxQtyAssumption DEF IInv, Seats, LInv, TypeOK
  <1>4. CASE change[t] = 0
    <2>1. event'.availableSeats = event.availableSeats /\ sold' = sold
      BY <1>2, <1>3, <1>4
    <2> QED
      BY <2>1 DEF Counter!vars
  <1>5. CASE change[t] < 0
    <2>1. -change[t] \in 1..MaxQty
      BY <1>2, <1>3, <1>5
    <2>2. Counter!Reserve(-change[t])
      BY <1>2, <1>3, <1>5 DEF Counter!Reserve
    <2> QED
      BY <2>1, <2>2 DEF Counter!Next
  <1>6. CASE change[t] > 0
    <2>1. change[t] \in 1..MaxQty
      BY <1>2, <1>3, <1>6
    <2>2. Counter!Release(change[t])
      BY <1>2, <1>3, <1>6 DEF Counter!Release
    <2> QED
      BY <2>1, <2>2 DEF Counter!Next
  <1> QED
    BY <1>2, <1>3, <1>4, <1>5, <1>6

\* The transactions implement the atomic counter.
THEOREM Refinement == Spec => ImplementsCounter
  <1>1. Init => Counter!Init
    BY DEF Init, Counter!Init
  <1>2. IInv /\ [Next]_vars => [Counter!Next]_(Counter!vars)
    BY StepImplementsCounter
  <1> QED
    BY <1>1, <1>2, Invariance, PTL DEF Spec, ImplementsCounter, Counter!Spec
=============================================================================
