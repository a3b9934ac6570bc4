---------------------------- MODULE SeatFeedProofs ----------------------------
(***************************************************************************)
(* EventEditing and SeatFeed, for every set of requests, edits and pages   *)
(* and every capacity they ask for: the row lock keeps editors out, a      *)
(* deleted event has no bookings, and a page that has heard an update is   *)
(* off the committed row by what its replica never broadcast, no more.     *)
(*                                                                         *)
(* An edit may set any capacity and write stale seats, so the Ledger of    *)
(* SeatInventory does not hold here; what is left of its invariant is      *)
(* LInv, the part about the lock.                                          *)
(***************************************************************************)
EXTENDS SeatFeed, SeatInventoryProofs, SequenceTheorems

\* A row that is gone is not locked, and no booking refers to it.
GoneIsFree == deleted => rowLock = NoTxn /\ ~Booked

\* While nobody has booked, nobody has seats to give back.
UnbookedIsUnsold == ~Booked => sold = 0 /\ \A t \in Txn : change[t] <= 0

\* A transaction on its way to a write asks for a change of the seats.
Asking == {"checked", "inserted", "open", "locked", "written"}

AskingMoves == \A t \in Txn : phase[t] \in Asking => change[t] # 0

Bookkeeping == GoneIsFree /\ UnbookedIsUnsold /\ AskingMoves

EInv == EditTypeOK /\ LInv /\ Bookkeeping

EditState == [phase : {"idle", "loaded", "saving", "done"}, row : Row, cols : SUBSET Columns]

-----------------------------------------------------------------------------
(* The steps of the seat transactions. *)

\* What a step that commits nothing does to the bookings.
Uncommitted ==
    /\ sold' = sold
    /\ \A u \in Txn : phase[u] = "committed" \/ phase'[u] = "committed" =>
                         phase'[u] = phase[u] /\ change'[u] = change[u]
    /\ \A u \in Txn : change'[u] <= 0 \/ change'[u] = change[u] \/ Booked
    /\ \A u \in Txn : phase'[u] \in Asking =>
                         \/ phase[u] \in Asking /\ change'[u] = change[u]
                         \/ change'[u] # 0

LEMMA StartUncommitted ==
    ASSUME LInv, NEW t \in Txn, Start(t)
    PROVE  Uncommitted
  <1>1. PICK q \in 1..MaxQty : CheckSeats(t, q) \/ BeginRestore(t, q)
    BY DEF Start
  <1>2. q \in Nat /\ q # 0 /\ -q # 0
    BY <1>1, MaxQtyAssumption
  <1>3. /\ phase[t] = "idle" /\ sold' = sold
        /\ phase'[t] # "committed"
        /\ change'[t] # 0
        /\ change'[t] <= 0 \/ Booked
        /\ \A u \in Txn : u # t => phase'[u] = phase[u] /\ change'[u] = change[u]
    <2>1. CASE CheckSeats(t, q)
      BY <1>2, <2>1 DEF CheckSeats, LInv, TypeOK
    <2>2. CASE BeginRestore(t, q)
      <3>1. Booked
        BY <1>2, <2>2 DEF BeginRestore, Booked
      <3> QED
        BY <1>2, <2>2, <3>1 DEF BeginRestore, LInv, TypeOK
    <2> QED
      BY <1>1, <2>1, <2>2
  <1> QED
    BY <1>3 DEF Uncommitted

\* The other steps leave every change as it is.
LEMMA RestUncommitted ==
    ASSUME LInv, NEW t \in Txn,
           \/ InsertBooking(t) \/ Update(t) \/ Rollback(t) \/ Compensate(t) \/ Fault(t)
           \/ EventNotFound(t) \/ LockRefusedBySave(t)
    PROVE  Uncommitted
  <1>1. /\ phase[t] # "committed" /\ phase'[t] # "committed"
        /\ phase'[t] \in Asking => phase[t] \in Asking
        /\ \A u \in Txn : u # t => phase'[u] = phase[u]
        /\ change' = change /\ sold' = sold
    BY DEF InsertBooking, Update, LockRow, LockRefused, WriteSeats, RejectSeats, Rollback,
           Compensate, Fault, EventNotFound, LockRefusedBySave, LInv, TypeOK, Ended, Asking
  <1> QED
    BY <1>1 DEF Uncommitted

\* Such a step keeps the bookkeeping, as long as it locks no row that is gone.
LEMMA UncommittedKeeps ==
    ASSUME Bookkeeping, Uncommitted,
           deleted' = deleted,
           deleted => rowLock' = NoTxn
    PROVE  Bookkeeping'
  <1>1. Booked' <=> Booked
    BY DEF Uncommitted, Booked
  <1>2. GoneIsFree'
    BY <1>1 DEF Bookkeeping, GoneIsFree
  <1>3. UnbookedIsUnsold'
    BY <1>1 DEF Bookkeeping, UnbookedIsUnsold, Uncommitted
  <1>4. AskingMoves'
    BY DEF Bookkeeping, AskingMoves, Uncommitted
  <1> QED
    BY <1>2, <1>3, <1>4 DEF Bookkeeping

\* The first commit is one of a booking: there is nothing to give back before.
LEMMA CommitKeeps ==
    ASSUME LInv, Bookkeeping, NEW t \in Txn, Commit(t), ~deleted, ~deleted'
    PROVE  Bookkeeping'
  <1>1. /\ phase[t] = "written" /\ phase'[t] = "committed"
        /\ change[t] \in Int /\ sold \in Int
        /\ sold' = sold - change[t]
    BY CommitLInv, MaxQtyAssumption DEF LInv, TypeOK
  <1>2. change' = change /\ \A u \in Txn : u # t => phase'[u] = phase[u]
    BY DEF Commit, LInv, TypeOK
  <1>3. Booked => Booked'
    BY <1>1, <1>2 DEF Booked
  <1>4. ~Booked' => change[t] = 0 /\ ~Booked
    BY <1>1, <1>2, <1>3 DEF Booked, Bookkeeping, UnbookedIsUnsold
  <1>5. GoneIsFree' /\ AskingMoves'
    BY <1>1, <1>2 DEF Bookkeeping, GoneIsFree, AskingMoves, Asking
  <1>6. UnbookedIsUnsold'
    BY <1>1, <1>2, <1>4 DEF Bookkeeping, UnbookedIsUnsold
  <1> QED
    BY <1>5, <1>6 DEF Bookkeeping

-----------------------------------------------------------------------------
(* The steps of EventEditing. *)

LEMMA InitEInv == EditInit => EInv
  <1> SUFFICES ASSUME EditInit PROVE EInv
    OBVIOUS
  <1>1. LInv /\ event \in Row
    BY InitIInv DEF EditInit, IInv, LInv, TypeOK
  <1>2. EditTypeOK
    BY <1>1 DEF EditInit, EditTypeOK, LInv, Columns
  <1>3. Bookkeeping
    BY DEF EditInit, Init, Bookkeeping, GoneIsFree, UnbookedIsUnsold, AskingMoves, Asking,
           Booked
  <1> QED
    BY <1>1, <1>2, <1>3 DEF EInv

\* A request that fails for want of the event or of its lock held no lock.
LEMMA FailLInv ==
    ASSUME LInv, NEW t \in Txn, EventNotFound(t) \/ LockRefusedBySave(t)
    PROVE  LInv'
  <1>1. /\ phase[t] \notin Holding
        /\ phase'[t] = "failed" /\ phase' \in [Txn -> Phase]
        /\ \A u \in Txn : u # t => phase'[u] = phase[u]
        /\ UNCHANGED <<event, sharers, rowLock, change, entity, sold>>
    BY DEF EventNotFound, LockRefusedBySave, LInv, TypeOK, Phase, Holding
  <1>2. TypeOK'
    BY <1>1 DEF LInv, TypeOK
  <1>3. LockedReadIsCurrent' /\ LockHolderIsHolding'
    BY <1>1 DEF LInv, TypeOK, LockedReadIsCurrent, LockHolderIsHolding, Holding
  <1> QED
    BY <1>2, <1>3 DEF LInv

LEMMA SeatStepEInv ==
    ASSUME EInv, NEW t \in Txn, SeatStep(t)
    PROVE  EInv'
  <1>1. UNCHANGED <<edit, deleted>>
    BY DEF SeatStep, SeatAdvance, EventNotFound, LockRefusedBySave
  <1>2. LInv'
    <2>1. CASE Start(t) \/ Advance(t) \/ Compensate(t) \/ Fault(t)
      BY <2>1, NextLInv DEF EInv, Next
    <2>2. CASE EventNotFound(t) \/ LockRefusedBySave(t)
      BY <2>2, FailLInv DEF EInv
    <2> QED
      BY <2>1, <2>2 DEF SeatStep, SeatAdvance, Advance
  <1>3. EditTypeOK'
    BY <1>1, <1>2 DEF EInv, EditTypeOK, LInv
  <1>4. deleted => rowLock' = NoTxn
    BY DEF EInv, Bookkeeping, GoneIsFree, SeatStep, SeatAdvance, Compensate, Fault, Rollback,
           Unlocked, EventNotFound, LockRefusedBySave
  <1>5. Bookkeeping'
    <2>1. CASE Commit(t) /\ ~deleted
      BY <1>1, <2>1, CommitKeeps DEF EInv
    <2>2. CASE ~(Commit(t) /\ ~deleted)
      <3>1. Uncommitted
        BY <2>2, StartUncommitted, RestUncommitted
           DEF EInv, SeatStep, SeatAdvance, Advance
      <3> QED
        BY <1>1, <1>4, <3>1, UncommittedKeeps DEF EInv
    <2> QED
      BY <2>1, <2>2
  <1> QED
    BY <1>2, <1>3, <1>5 DEF EInv

\* An editor's step moves the row only while nobody has locked it, and removes
\* it only while nobody has booked.
LEMMA EditorStepEInv ==
    ASSUME EInv,
           event' \in Row,
           event' # event => rowLock = NoTxn,
           UNCHANGED <<sharers, rowLock, phase, change, entity, sold>>,
           edit' \in [Editor -> EditState],
           deleted' \in BOOLEAN,
           deleted' => deleted \/ (rowLock = NoTxn /\ ~Booked)
    PROVE  EInv'
  <1>1. TypeOK'
    BY DEF EInv, LInv, TypeOK
  <1>2. LockedReadIsCurrent' /\ LockHolderIsHolding'
    BY TxnAssumption DEF EInv, LInv, LockedReadIsCurrent, LockHolderIsHolding, Holding
  <1>3. Bookkeeping'
    BY DEF EInv, Bookkeeping, GoneIsFree, UnbookedIsUnsold, AskingMoves, Booked
  <1> QED
    BY <1>1, <1>2, <1>3 DEF EInv, EditTypeOK, EditState, LInv

\* The columns that an update writes, over those it leaves, make a row.
LEMMA StoredRow ==
    ASSUME NEW r \in Row, NEW s \in Row, NEW cols \in SUBSET Columns
    PROVE  LET stored == [c \in Columns |-> IF c \in cols THEN r[c] ELSE s[c]]
           IN  /\ stored \in Row
               /\ cols = {} => stored = s
  BY DEF Row, Columns

\* Each action of an update is such a step.
LEMMA EditorActionEInv ==
    ASSUME EInv, NEW e \in Editor,
           Save(e) \/ \E c \in Capacities \union {event.capacity} : LoadEvent(e, c)
    PROVE  EInv'
  <1>1. /\ event \in Row /\ edit \in [Editor -> EditState] /\ deleted \in BOOLEAN
        /\ edit[e] \in EditState /\ edit[e].row \in Row /\ edit[e].cols \in SUBSET Columns
    BY DEF EInv, LInv, TypeOK, EditTypeOK, EditState
  <1>2. ASSUME NEW v \in EditState, edit' = [edit EXCEPT ![e] = v]
        PROVE  edit' \in [Editor -> EditState]
    BY <1>1, <1>2
  <1>3. ASSUME NEW c \in Capacities \union {event.capacity}, LoadEvent(e, c) PROVE EInv'
    <2>1. c \in Nat
      BY <1>1, RowIsItsColumns, CapacitiesAssumption
    <2>2. [event EXCEPT !.capacity = c] \in Row
      BY <1>1, <2>1 DEF Row
    <2> DEFINE v == [edit[e] EXCEPT !.phase = "loaded", !.row = [event EXCEPT !.capacity = c]]
    <2>3. v \in EditState
      BY <1>1, <2>2 DEF EditState
    <2>4. edit' = [edit EXCEPT ![e] = v]
      BY <1>3 DEF LoadEvent
    <2> HIDE DEF v
    <2>5. edit' \in [Editor -> EditState]
      BY <1>2, <2>3, <2>4
    <2> QED
      BY <1>1, <1>3, <2>5, EditorStepEInv DEF LoadEvent, seatVars, vars
  <1>4. CASE DiffEvent(e)
    <2> DEFINE v == [edit[e] EXCEPT !.phase = "saving",
                                    !.cols = {c \in Columns : edit[e].row[c] # event[c]}]
    <2>1. v \in EditState
      BY <1>1 DEF EditState
    <2>2. edit' = [edit EXCEPT ![e] = v]
      BY <1>4 DEF DiffEvent
    <2> HIDE DEF v
    <2>3. edit' \in [Editor -> EditState]
      BY <1>2, <2>1, <2>2
    <2> QED
      BY <1>1, <1>4, <2>3, EditorStepEInv DEF DiffEvent, seatVars, vars
  <1>5. ASSUME edit' = [edit EXCEPT ![e].phase = "done"] PROVE edit' \in [Editor -> EditState]
    <2> DEFINE v == [edit[e] EXCEPT !.phase = "done"]
    <2>1. v \in EditState
      BY <1>1 DEF EditState
    <2>2. edit' = [edit EXCEPT ![e] = v]
      BY <1>5
    <2> HIDE DEF v
    <2> QED
      BY <1>2, <2>1, <2>2
  <1>6. CASE StoreEvent(e)
    <2>1. event' \in Row /\ (event' # event => rowLock = NoTxn)
      <3> DEFINE stored == [c \in Columns |-> IF c \in edit[e].cols THEN edit[e].row[c]
                                                                   ELSE event[c]]
      <3>1. stored \in Row /\ (edit[e].cols = {} => stored = event)
        BY <1>1, StoredRow
      <3>2. event' = event \/ event' = stored
        BY <1>6 DEF StoreEvent
      <3>3. edit[e].cols # {} => rowLock = NoTxn
        BY <1>6 DEF StoreEvent
      <3> HIDE DEF stored
      <3> QED
        BY <1>1, <3>1, <3>2, <3>3
    <2>2. edit' \in [Editor -> EditState]
      BY <1>5, <1>6 DEF StoreEvent
    <2> QED
      BY <1>1, <1>6, <2>1, <2>2, EditorStepEInv DEF StoreEvent
  <1>7. CASE LoadFails(e)
    <2>1. edit' \in [Editor -> EditState]
      BY <1>5, <1>7 DEF LoadFails
    <2> QED
      BY <1>1, <1>7, <2>1, EditorStepEInv DEF LoadFails, seatVars, vars
  <1>8. CASE Reinsert(e)
    <2>1. edit' \in [Editor -> EditState]
      BY <1>5, <1>8 DEF Reinsert
    <2>2. rowLock = NoTxn
      BY <1>8 DEF Reinsert, EInv, Bookkeeping, GoneIsFree
    <2> QED
      BY <1>1, <1>8, <2>1, <2>2, EditorStepEInv DEF Reinsert
  <1> QED
    BY <1>3, <1>4, <1>6, <1>7, <1>8 DEF Save

LEMMA DeleteEventEInv ==
    ASSUME EInv, DeleteEvent
    PROVE  EInv'
  <1>1. event \in Row /\ edit \in [Editor -> EditState]
    BY DEF EInv, LInv, TypeOK, EditTypeOK, EditState
  <1> QED
    BY <1>1, EditorStepEInv DEF DeleteEvent, seatVars, vars

LEMMA NextEInv == EInv /\ [EditNext]_editVars => EInv'
  <1>1. ASSUME EInv, UNCHANGED editVars PROVE EInv'
    BY <1>1 DEF editVars, EInv, EditTypeOK, LInv, TypeOK, LockedReadIsCurrent,
                LockHolderIsHolding, Bookkeeping, GoneIsFree, UnbookedIsUnsold, AskingMoves,
                Booked
  <1> QED
    BY <1>1, SeatStepEInv, EditorActionEInv, DeleteEventEInv DEF EditNext, EditorNext

\* The lock and the bookkeeping hold under every edit.
THEOREM EditInvariance == EditSpec => []EInv
  BY InitEInv, NextEInv, PTL DEF EditSpec

\* Every variable of the edited event keeps its type.
THEOREM EditTypeCorrect == EditSpec => []EditTypeOK
  <1>1. EInv => EditTypeOK
    BY DEF EInv
  <1> QED
    BY <1>1, EditInvariance, PTL

LEMMA EInvKeepsEditorsOut == EInv => LockKeepsEditorsOut
  BY DEF EInv, LInv, Bookkeeping, GoneIsFree, LockKeepsEditorsOut

LEMMA EInvDeletedHasNoBookings == EInv => DeletedHasNoBookings
  BY DEF EInv, Bookkeeping, GoneIsFree, UnbookedIsUnsold, DeletedHasNoBookings

\* No edit and no deletion slips between the locked read of
\* updateAvailableSeats and the end of its transaction.
THEOREM EditorsAreKeptOut == EditSpec => []LockKeepsEditorsOut
  BY EInvKeepsEditorsOut, EditInvariance, PTL

\* A deleted event has no bookings, whatever was in flight when it went.
THEOREM DeletedIsUnbooked == EditSpec => []DeletedHasNoBookings
  BY EInvDeletedHasNoBookings, EditInvariance, PTL

-----------------------------------------------------------------------------
(* The feed. *)

FeedTypeOK ==
    /\ servedBy \in [Txn -> Replica]
    /\ page \in [Viewer -> Page]
    /\ told \in [Replica -> Nat]
    /\ missed \in [Replica -> Int]

\* What a page shows when it has heard all that is under way to it.
Latest(v) == IF page[v].wire = <<>> THEN page[v].shown ELSE Last(page[v].wire)

\* Only a page in a room has heard an update, and the last one of its replica.
HeardIsLatest ==
    \A v \in Viewer :
        page[v].heard => /\ page[v].pc = "listening"
                         /\ page[v].at \in Replica
                         /\ Latest(v) = told[page[v].at]

\* With what it has missed, the last update of a replica is of what its
\* transaction will commit, or else of what is committed.
Reckons(r) ==
    /\ \A t \in Txn : phase[t] = "written" /\ servedBy[t] = r =>
                         told[r] + missed[r] = entity[t].availableSeats
    /\ (\A t \in Txn : phase[t] = "written" => servedBy[t] # r) =>
          told[r] + missed[r] = event.availableSeats

ReplicasReckon == \A r \in Replica : Reckons(r)

FInv == EInv /\ FeedTypeOK /\ HeardIsLatest /\ ReplicasReckon

\* A message put behind the others is the last, and delivering the first of
\* several leaves the last where it is.
LEMMA LastOfQueue ==
    ASSUME NEW s \in Seq(Nat), NEW n \in Nat
    PROVE  /\ Append(s, n) \in Seq(Nat)
           /\ Append(s, n) # <<>>
           /\ Last(Append(s, n)) = n
  BY DEF Last

LEMMA LastOfRest ==
    ASSUME NEW s \in Seq(Nat), s # <<>>
    PROVE  /\ Head(s) \in Nat
           /\ Tail(s) \in Seq(Nat)
           /\ Tail(s) = <<>> => Last(s) = Head(s)
           /\ Tail(s) # <<>> => Last(s) = Last(Tail(s))
  <1>1. /\ Len(s) \in Nat \ {0} /\ Head(s) \in Nat /\ Tail(s) \in Seq(Nat)
    BY EmptySeq, HeadTailProperties
  <1> DEFINE n == Len(s)
             m == Len(Tail(s))
  <1>2. n \in Nat \ {0} /\ m = n - 1 /\ (m = 0 => n = 1) /\ m + 1 = n
    <2>1. n \in Nat \ {0} /\ m = n - 1
      BY <1>1, HeadTailProperties
    <2> HIDE DEF n, m
    <2> QED
      BY <2>1
  <1>3. ASSUME Tail(s) = <<>> PROVE Last(s) = Head(s)
    <2>1. m = 0
      BY <1>3, EmptySeq
    <2> QED
      BY <1>2, <2>1 DEF Last
  <1>4. ASSUME Tail(s) # <<>> PROVE Last(s) = Last(Tail(s))
    <2>1. m \in Nat \ {0}
      BY <1>1, <1>4, EmptySeq
    <2>2. \A i \in 1..m : Tail(s)[i] = s[i + 1]
      BY HeadTailProperties
    <2>3. m \in 1..m
      <3> HIDE DEF m
      <3> QED
        BY <2>1
    <2>4. Tail(s)[m] = s[n]
      <3> HIDE DEF m, n
      <3> QED
        BY <1>2, <2>2, <2>3
    <2> QED
      BY <2>4 DEF Last
  <1> QED
    BY <1>1, <1>3, <1>4

-----------------------------------------------------------------------------
(* The backend's side of the feed. *)

\* A step of a transaction concerns no other one, and while the other one has
\* written it leaves the row alone.
LEMMA StepOfOne ==
    ASSUME EInv, NEW t \in Txn, SeatStep(t)
    PROVE  /\ \A u \in Txn : u # t => phase'[u] = phase[u] /\ entity'[u] = entity[u]
           /\ UNCHANGED event \/ Commit(t)
           /\ \/ WriteSeats(t) \/ Compensate(t) \/ Commit(t)
              \/ /\ phase'[t] # "written"
                 /\ phase[t] = "written" => phase'[t] = "rolledBack"
                 /\ phase'[t] = "undone" => entity'[t] = entity[t]
  BY DEF SeatStep, SeatAdvance, Start, Advance, Update, CheckSeats, BeginRestore,
         InsertBooking, LockRow, LockRefused, WriteSeats, RejectSeats, Compensate,
         Commit, Rollback, Fault, EventNotFound, LockRefusedBySave, EInv, LInv, TypeOK

\* Only one transaction at a time has written.
LEMMA OneWriter ==
    ASSUME EInv, NEW t \in Txn, NEW u \in Txn, phase[t] \in Holding, phase[u] = "written"
    PROVE  t = u
  BY OneHolder DEF EInv, LInv, Holding

\* What is emitted is what the transaction will commit; in the catch block it
\* is the committed row again.
LEMMA EmitsAnnounceRow ==
    ASSUME EInv, NEW t \in Txn, SeatStep(t), Emits(t)
    PROVE  /\ Announced(t) \in Nat
           /\ event' = event
           /\ phase'[t] = "written" => Announced(t) = entity'[t].availableSeats
           /\ phase'[t] # "written" => Announced(t) = event'.availableSeats
           /\ \A u \in Txn : u # t => phase[u] # "written"
  <1>1. CASE WriteSeats(t)
    <2>1. \A u \in Txn : u # t => phase[u] # "written"
      BY <1>1, OneWriter DEF WriteSeats, Holding
    <2>2. phase'[t] = "written" /\ Announced(t) = entity'[t].availableSeats
      BY <1>1, WriteSeatsLInv DEF EInv, Announced
    <2>3. Announced(t) \in Nat
      BY <1>1, <2>2, WriteSeatsLInv DEF EInv, LInv, TypeOK, Row
    <2> QED
      BY <1>1, <2>1, <2>2, <2>3 DEF WriteSeats
  <1>2. CASE Compensate(t)
    <2> DEFINE n == entity[t].availableSeats - change[t]
    <2>1. /\ phase[t] = "written" /\ phase'[t] = "undone"
          /\ event' = event /\ event \in Row
          /\ change[t] \in Int
          /\ entity[t].availableSeats = event.availableSeats + change[t]
      BY <1>2, MaxQtyAssumption DEF Compensate, EInv, LInv, TypeOK, LockedReadIsCurrent
    <2>2. n = event.availableSeats
      BY <2>1, RowIsItsColumns
    <2>3. Announced(t) = n
      <3>1. entity' = [entity EXCEPT ![t].availableSeats = n]
        BY <1>2 DEF Compensate, Emits
      <3>2. entity \in [Txn -> Row]
        BY DEF EInv, LInv, TypeOK
      <3> HIDE DEF n
      <3> QED
        BY <3>1, <3>2 DEF Announced, Row
    <2>4. \A u \in Txn : u # t => phase[u] # "written"
      BY <2>1, OneWriter DEF Holding
    <2> HIDE DEF n
    <2> QED
      BY <2>1, <2>2, <2>3, <2>4, RowIsItsColumns
  <1>3. WriteSeats(t) \/ Compensate(t)
    <2>1. Commit(t) => phase'[t] = "committed"
      BY DEF Commit, EInv, LInv, TypeOK
    <2> QED
      BY <2>1, StepOfOne DEF Emits
  <1> QED
    BY <1>1, <1>2, <1>3

\* A step that emits nothing leaves the row alone, loses what its replica has
\* announced, or commits it.
LEMMA SilentStep ==
    ASSUME EInv, NEW t \in Txn, SeatStep(t), ~Emits(t)
    PROVE  /\ change[t] \in Int /\ event.availableSeats \in Nat
           /\ event'.availableSeats \in Nat
           /\ phase'[t] # "written"
           /\ phase[t] = "written" =>
                 /\ entity[t].availableSeats = event.availableSeats + change[t]
                 /\ \A u \in Txn : u # t => phase[u] # "written"
           /\ \/ phase[t] = "written" /\ phase'[t] = "committed"
                 /\ event'.availableSeats = event.availableSeats + change[t]
              \/ phase'[t] # "committed" /\ event' = event
              \/ phase[t] # "written" /\ event' = event
  <1>1. EInv'
    BY NextEInv DEF EditNext
  <1>2. /\ change[t] \in Int /\ event.availableSeats \in Nat
        /\ event'.availableSeats \in Nat
    BY <1>1, RowIsItsColumns, MaxQtyAssumption DEF EInv, LInv, TypeOK
  <1>3. phase[t] = "written" =>
          /\ entity[t].availableSeats = event.availableSeats + change[t]
          /\ \A u \in Txn : u # t => phase[u] # "written"
    BY OneWriter DEF EInv, LInv, LockedReadIsCurrent, Holding
  <1>4. ~WriteSeats(t)
    <2>1. SUFFICES ASSUME WriteSeats(t) PROVE FALSE
      OBVIOUS
    <2>2. /\ phase'[t] = "written"
          /\ entity[t].availableSeats = event.availableSeats
          /\ entity'[t].availableSeats = event.availableSeats + change[t]
      BY <2>1, WriteSeatsLInv DEF WriteSeats, EInv, LInv, LockedReadIsCurrent
    <2>3. change[t] # 0
      BY <2>1 DEF WriteSeats, EInv, Bookkeeping, AskingMoves, Asking
    <2>4. entity'[t] # entity[t]
      BY <1>2, <2>2, <2>3
    <2> QED
      BY <2>2, <2>4 DEF Emits
  <1>5. CASE Commit(t)
    <2>1. /\ phase[t] = "written" /\ phase'[t] = "committed"
          /\ event'.availableSeats = entity[t].availableSeats
      BY <1>5, CommitLInv DEF EInv
    <2> QED
      BY <1>2, <1>3, <2>1
  <1>6. CASE Compensate(t)
    <2>1. phase'[t] = "undone" /\ event' = event
      BY <1>6 DEF Compensate, EInv, LInv, TypeOK
    <2> QED
      BY <1>2, <1>3, <2>1
  <1>7. CASE ~Compensate(t) /\ ~Commit(t)
    <2>1. /\ event' = event /\ phase'[t] # "written"
          /\ phase[t] = "written" => phase'[t] = "rolledBack"
      BY <1>4, <1>7, StepOfOne
    <2> QED
      BY <1>2, <1>3, <2>1
  <1> QED
    BY <1>5, <1>6, <1>7

LEMMA EmitReckons ==
    ASSUME EInv, FeedTypeOK, ReplicasReckon, NEW t \in Txn, SeatStep(t), Emits(t),
           EmitSeatUpdate(t), UNCHANGED servedBy
    PROVE  ReplicasReckon'
  <1>1. /\ Announced(t) \in Nat /\ event' = event
        /\ phase'[t] = "written" => Announced(t) = entity'[t].availableSeats
        /\ phase'[t] # "written" => Announced(t) = event'.availableSeats
        /\ \A u \in Txn : u # t => phase[u] # "written"
    BY EmitsAnnounceRow
  <1>2. \A u \in Txn : u # t => phase'[u] # "written"
    BY <1>1, StepOfOne
  <1>3. servedBy[t] \in Replica
    BY DEF FeedTypeOK
  <1>4. ASSUME NEW r \in Replica, r = servedBy[t] PROVE Reckons(r)'
    <2>0. told'[r] = Announced(t) /\ missed'[r] = 0
      BY <1>3, <1>4 DEF EmitSeatUpdate, FeedTypeOK
    <2>1. told'[r] + missed'[r] = Announced(t)
      <3>1. \A n \in Nat : n + 0 = n
        OBVIOUS
      <3>2. Announced(t) \in Nat
        BY <1>1
      <3>3. Announced(t) + 0 = Announced(t)
        BY <3>1, <3>2
      <3> QED
        BY <2>0, <3>3, Zenon
    <2> QED
      BY <1>1, <1>2, <1>4, <2>1 DEF Reckons
  <1>5. ASSUME NEW r \in Replica, r # servedBy[t] PROVE Reckons(r)'
    <2>1. told'[r] = told[r] /\ missed'[r] = missed[r]
      BY <1>5 DEF EmitSeatUpdate, FeedTypeOK
    <2>2. told[r] + missed[r] = event.availableSeats
      BY <1>1, <1>5 DEF ReplicasReckon, Reckons
    <2> QED
      BY <1>1, <1>2, <1>5, <2>1, <2>2 DEF Reckons
  <1> QED
    BY <1>4, <1>5 DEF ReplicasReckon

LEMMA SilentReckons ==
    ASSUME EInv, FeedTypeOK, ReplicasReckon, NEW t \in Txn, SeatStep(t), ~Emits(t),
           KeepSilent(t), UNCHANGED servedBy
    PROVE  ReplicasReckon' /\ missed' \in [Replica -> Int]
  <1> DEFINE shift == event'.availableSeats - event.availableSeats
  <1>1. /\ change[t] \in Int /\ event.availableSeats \in Nat /\ event'.availableSeats \in Nat
        /\ phase'[t] # "written"
        /\ phase[t] = "written" =>
              /\ entity[t].availableSeats = event.availableSeats + change[t]
              /\ \A u \in Txn : u # t => phase[u] # "written"
        /\ \/ phase[t] = "written" /\ phase'[t] = "committed"
              /\ event'.availableSeats = event.availableSeats + change[t]
           \/ phase'[t] # "committed" /\ event' = event
           \/ phase[t] # "written" /\ event' = event
    BY SilentStep
  <1>2. \A u \in Txn : u # t => phase'[u] = phase[u] /\ entity'[u] = entity[u]
    BY StepOfOne
  <1>3. /\ \A r \in Replica :
              /\ told[r] \in Nat /\ missed[r] \in Int
              /\ told'[r] = told[r]
              /\ r # servedBy[t] =>
                    missed'[r] = missed[r] + event'.availableSeats - event.availableSeats
              /\ r = servedBy[t] =>
                    missed'[r] = IF phase[t] = "written" /\ phase'[t] # "committed"
                                 THEN missed[r] - change[t] ELSE missed[r]
        /\ servedBy[t] \in Replica /\ servedBy' = servedBy
    BY DEF KeepSilent, FeedTypeOK
  <1>4. missed' \in [Replica -> Int]
    BY <1>1, <1>3 DEF KeepSilent
  <1>5. ASSUME NEW r \in Replica, r = servedBy[t] PROVE Reckons(r)'
    <2>1. CASE phase[t] = "written"
      <3>1. told[r] + missed[r] = event.availableSeats + change[t]
        BY <1>1, <1>5, <2>1 DEF ReplicasReckon, Reckons
      <3>2. \A u \in Txn : phase'[u] # "written"
        BY <1>1, <1>2, <2>1
      <3>3. told'[r] + missed'[r] = event'.availableSeats
        <4>1. CASE phase'[t] = "committed"
          BY <1>1, <1>3, <1>5, <2>1, <3>1, <4>1
        <4>2. CASE phase'[t] # "committed"
          BY <1>1, <1>3, <1>5, <2>1, <3>1, <4>2
        <4> QED
          BY <4>1, <4>2
      <3> QED
        BY <3>2, <3>3 DEF Reckons
    <2>2. CASE phase[t] # "written"
      <3>1. event' = event /\ told'[r] = told[r] /\ missed'[r] = missed[r]
        BY <1>1, <1>3, <1>5, <2>2
      <3> QED
        BY <1>1, <1>2, <1>3, <2>2, <3>1 DEF ReplicasReckon, Reckons
    <2> QED
      BY <2>1, <2>2
  <1>6. ASSUME NEW r \in Replica, r # servedBy[t] PROVE Reckons(r)'
    <2>1. /\ told'[r] = told[r]
          /\ missed'[r] = missed[r] + event'.availableSeats - event.availableSeats
      BY <1>3, <1>6
    <2>2. CASE phase[t] = "written"
      <3>1. told[r] + missed[r] = event.availableSeats
        BY <1>1, <1>6, <2>2 DEF ReplicasReckon, Reckons
      <3>2. \A u \in Txn : phase'[u] # "written"
        BY <1>1, <1>2, <2>2
      <3>3. told'[r] + missed'[r] = event'.availableSeats
        BY <1>1, <1>3, <2>1, <3>1
      <3> QED
        BY <3>2, <3>3 DEF Reckons
    <2>3. CASE phase[t] # "written"
      <3>1. event' = event
        BY <1>1, <2>3
      <3>2. missed'[r] = missed[r]
        BY <1>1, <1>3, <2>1, <3>1
      <3> QED
        BY <1>1, <1>2, <1>3, <2>1, <2>3, <3>1, <3>2 DEF ReplicasReckon, Reckons
    <2> QED
      BY <2>2, <2>3
  <1> QED
    BY <1>4, <1>5, <1>6 DEF ReplicasReckon

\* An edit moves the row only while no transaction has written.
LEMMA EditReckons ==
    ASSUME EInv, FeedTypeOK, ReplicasReckon, EditorNext, EditSilently, UNCHANGED servedBy
    PROVE  ReplicasReckon' /\ missed' \in [Replica -> Int]
  <1>1. UNCHANGED <<phase, entity, change>>
    BY DEF EditorNext, Save, DiffEvent, StoreEvent, Reinsert, LoadFails, LoadEvent,
           DeleteEvent, seatVars, vars
  <1>2. EInv'
    BY NextEInv DEF EditNext
  <1>3. event.availableSeats \in Nat /\ event'.availableSeats \in Nat
    BY <1>2, RowIsItsColumns DEF EInv, LInv, TypeOK
  <1>4. ASSUME NEW t \in Txn, phase[t] = "written"
        PROVE  event'.availableSeats = event.availableSeats
    <2>1. /\ entity[t].availableSeats = event.availableSeats + change[t]
          /\ entity[t].availableSeats = event'.availableSeats + change[t]
          /\ change[t] \in Int
      BY <1>1, <1>2, <1>4, MaxQtyAssumption DEF EInv, LInv, LockedReadIsCurrent, TypeOK
    <2> QED
      BY <1>3, <2>1
  <1>5. /\ \A r \in Replica :
              /\ told[r] \in Nat /\ missed[r] \in Int
              /\ told'[r] = told[r]
              /\ missed'[r] = missed[r] + event'.availableSeats - event.availableSeats
        /\ servedBy' = servedBy
    BY DEF EditSilently, FeedTypeOK
  <1>6. missed' \in [Replica -> Int]
    BY <1>3, <1>5 DEF EditSilently
  <1>7. ASSUME NEW r \in Replica PROVE Reckons(r)'
    <2>1. ASSUME NEW t \in Txn, phase[t] = "written", servedBy[t] = r
          PROVE  told'[r] + missed'[r] = entity[t].availableSeats
      <3>1. told[r] + missed[r] = entity[t].availableSeats
        BY <2>1 DEF ReplicasReckon, Reckons
      <3>2. missed'[r] = missed[r]
        BY <1>3, <1>4, <1>5, <2>1
      <3> QED
        BY <1>5, <3>1, <3>2
    <2>2. ASSUME \A t \in Txn : phase[t] = "written" => servedBy[t] # r
          PROVE  told'[r] + missed'[r] = event'.availableSeats
      <3>1. told[r] + missed[r] = event.availableSeats
        BY <2>2 DEF ReplicasReckon, Reckons
      <3> QED
        BY <1>3, <1>5, <3>1
    <2> QED
      BY <1>1, <1>5, <2>1, <2>2 DEF Reckons
  <1> QED
    BY <1>6, <1>7 DEF ReplicasReckon

\* Every page in the room has the update behind the others, as its last.
LEMMA EmitReaches ==
    ASSUME FInv, NEW t \in Txn, EmitSeatUpdate(t), Announced(t) \in Nat
    PROVE  /\ page' \in [Viewer -> Page]
           /\ told' \in [Replica -> Nat] /\ missed' \in [Replica -> Int]
           /\ HeardIsLatest'
  <1>0. /\ servedBy[t] \in Replica
        /\ page \in [Viewer -> Page]
        /\ told \in [Replica -> Nat] /\ missed \in [Replica -> Int]
        /\ told' = [told EXCEPT ![servedBy[t]] = Announced(t)]
        /\ missed' = [missed EXCEPT ![servedBy[t]] = 0]
    BY DEF FInv, FeedTypeOK, EmitSeatUpdate
  <1>1. /\ servedBy[t] \in Replica
        /\ page \in [Viewer -> Page]
        /\ told' \in [Replica -> Nat] /\ missed' \in [Replica -> Int]
        /\ told'[servedBy[t]] = Announced(t)
        /\ \A r \in Replica : r # servedBy[t] => told'[r] = told[r]
    BY ONLY <1>0, Announced(t) \in Nat
  <1>2. ASSUME NEW v \in Viewer, Joined(v, servedBy[t])
        PROVE  /\ page'[v] \in Page
               /\ page'[v].pc = "listening" /\ page'[v].at = servedBy[t]
               /\ page[v].wire \in Seq(Nat)
               /\ page'[v].wire = Append(page[v].wire, Announced(t))
    <2> DEFINE w == [page[v] EXCEPT !.wire = Append(@, Announced(t)), !.heard = TRUE]
    <2>1. page[v] \in Page /\ page'[v] = w
      BY <1>1, <1>2 DEF EmitSeatUpdate
    <2>2. page[v].wire \in Seq(Nat)
      BY <2>1 DEF Page
    <2>3. Append(page[v].wire, Announced(t)) \in Seq(Nat)
      BY <2>2, LastOfQueue
    <2>4. w.wire = Append(page[v].wire, Announced(t))
      BY <2>1 DEF Page
    <2>5. w \in Page /\ w.pc = "listening" /\ w.at = servedBy[t]
      BY <1>2, <2>1, <2>3, <2>4 DEF Page, Joined
    <2> HIDE DEF w
    <2> QED
      BY <2>1, <2>2, <2>4, <2>5
  <1>3. \A v \in Viewer : ~Joined(v, servedBy[t]) => page'[v] = page[v]
    BY DEF EmitSeatUpdate
  <1>4. page' \in [Viewer -> Page]
    BY <1>1, <1>2, <1>3 DEF EmitSeatUpdate
  <1>5. ASSUME NEW v \in Viewer, page'[v].heard
        PROVE  /\ page'[v].pc = "listening" /\ page'[v].at \in Replica
               /\ Latest(v)' = told'[page'[v].at]
    <2>1. CASE Joined(v, servedBy[t])
      <3>1. /\ page'[v].pc = "listening" /\ page'[v].at = servedBy[t]
            /\ page[v].wire \in Seq(Nat)
            /\ page'[v].wire = Append(page[v].wire, Announced(t))
        BY <1>2, <2>1
      <3>2. page'[v].wire # <<>> /\ Last(page'[v].wire) = Announced(t)
        BY <3>1, LastOfQueue
      <3> QED
        BY <1>1, <3>1, <3>2 DEF Latest
    <2>2. CASE ~Joined(v, servedBy[t])
      <3>1. page'[v] = page[v] /\ page[v].heard
        BY <1>3, <1>5, <2>2
      <3>2. /\ page[v].pc = "listening" /\ page[v].at \in Replica
            /\ Latest(v) = told[page[v].at]
        BY <3>1 DEF FInv, HeardIsLatest
      <3>3. page[v].at # servedBy[t]
        BY <2>2, <3>2 DEF Joined
      <3> QED
        BY <1>1, <3>1, <3>2, <3>3 DEF Latest
    <2> QED
      BY <2>1, <2>2
  <1> QED
    BY <1>1, <1>4, <1>5 DEF HeardIsLatest

LEMMA BackendFInv ==
    ASSUME FInv, UNCHANGED servedBy,
           \/ \E t \in Txn : /\ SeatStep(t)
                             /\ IF Emits(t) THEN EmitSeatUpdate(t) ELSE KeepSilent(t)
           \/ EditorNext /\ EditSilently
    PROVE  FInv'
  <1>1. EInv /\ EInv' /\ FeedTypeOK /\ ReplicasReckon
    BY NextEInv DEF FInv, EditNext
  <1>2. ASSUME NEW t \in Txn, SeatStep(t), Emits(t), EmitSeatUpdate(t) PROVE FInv'
    <2>1. Announced(t) \in Nat
      BY <1>1, <1>2, EmitsAnnounceRow
    <2>2. ReplicasReckon'
      BY <1>1, <1>2, EmitReckons
    <2> QED
      BY <1>1, <1>2, <2>1, <2>2, EmitReaches DEF FInv, FeedTypeOK
  <1>3. ASSUME UNCHANGED <<page, told>>, ReplicasReckon', missed' \in [Replica -> Int]
        PROVE  FInv'
    BY <1>1, <1>3 DEF FInv, FeedTypeOK, HeardIsLatest, Latest
  <1>4. ASSUME NEW t \in Txn, SeatStep(t), ~Emits(t), KeepSilent(t) PROVE FInv'
    <2>1. ReplicasReckon' /\ missed' \in [Replica -> Int]
      BY <1>1, <1>4, SilentReckons
    <2> QED
      BY <1>3, <1>4, <2>1 DEF KeepSilent
  <1>5. ASSUME EditorNext, EditSilently PROVE FInv'
    <2>1. ReplicasReckon' /\ missed' \in [Replica -> Int]
      BY <1>1, <1>5, EditReckons
    <2> QED
      BY <1>3, <1>5, <2>1 DEF EditSilently
  <1> QED
    BY <1>2, <1>4, <1>5

-----------------------------------------------------------------------------
(* The pages' side of the feed. *)

\* A step of a page concerns nobody else.
LEMMA PageChanges ==
    ASSUME FInv, NEW v \in Viewer, NEW p \in Page,
           page' = [page EXCEPT ![v] = p],
           p.heard => /\ p.pc = "listening"
                      /\ p.at \in Replica
                      /\ (IF p.wire = <<>> THEN p.shown ELSE Last(p.wire)) = told[p.at],
           UNCHANGED <<editVars, servedBy, told, missed>>
    PROVE  FInv'
  <1>1. EInv'
    BY NextEInv DEF FInv
  <1>2. page'[v] = p /\ (\A u \in Viewer : u # v => page'[u] = page[u])
    BY DEF FInv, FeedTypeOK
  <1>3. FeedTypeOK'
    BY DEF FInv, FeedTypeOK
  <1>4. HeardIsLatest'
    BY <1>2 DEF FInv, HeardIsLatest, Latest, editVars
  <1>5. ReplicasReckon'
    BY DEF FInv, ReplicasReckon, Reckons, editVars
  <1> QED
    BY <1>1, <1>3, <1>4, <1>5 DEF FInv

LEMMA PageStepFInv ==
    ASSUME FInv, NEW v \in Viewer, PageStep(v),
           UNCHANGED <<editVars, servedBy, told, missed>>
    PROVE  FInv'
  <1>1. /\ page[v] \in Page /\ page[v].wire \in Seq(Nat)
        /\ page[v].heard => /\ page[v].pc = "listening" /\ page[v].at \in Replica
                            /\ Latest(v) = told[page[v].at]
        /\ event.availableSeats \in Nat
    BY RowIsItsColumns DEF FInv, FeedTypeOK, HeardIsLatest, Page, EInv, LInv, TypeOK
  <1>2. ASSUME NEW to \in PagePC, page[v].pc # "listening", page' = [page EXCEPT ![v].pc = to]
        PROVE  FInv'
    <2> DEFINE p == [page[v] EXCEPT !.pc = to]
    <2>1. p \in Page /\ ~p.heard
      BY <1>1, <1>2 DEF Page
    <2>2. page' = [page EXCEPT ![v] = p]
      BY <1>2
    <2> HIDE DEF p
    <2> QED
      BY <2>1, <2>2, PageChanges
  <1>8. ASSUME NEW r \in Replica, OpenPage(v, r) PROVE FInv'
    <2> DEFINE p == [page[v] EXCEPT !.pc = "fetching", !.at = r]
    <2>1. p \in Page /\ ~p.heard
      BY <1>1, <1>8 DEF OpenPage, Page, PagePC
    <2>2. page' = [page EXCEPT ![v] = p]
      BY <1>8 DEF OpenPage
    <2> HIDE DEF p
    <2> QED
      BY <2>1, <2>2, PageChanges
  <1>3. CASE FetchFails(v) \/ Loaded(v) \/ Join(v)
    <2>1. \E to \in PagePC : page[v].pc # "listening" /\ page' = [page EXCEPT ![v].pc = to]
      BY <1>3 DEF FetchFails, Loaded, Join, Moves, PagePC
    <2> QED
      BY <1>2, <2>1
  <1>4. CASE ServeEvent(v)
    <2> DEFINE p == [page[v] EXCEPT !.pc = IF deleted THEN "failed" ELSE "answered",
                                    !.shown = IF deleted THEN 0 ELSE event.availableSeats]
    <2>1. p \in Page /\ ~p.heard
      BY <1>1, <1>4 DEF ServeEvent, Page, PagePC
    <2>2. page' = [page EXCEPT ![v] = p]
      BY <1>4 DEF ServeEvent
    <2> HIDE DEF p
    <2> QED
      BY <2>1, <2>2, PageChanges
  <1>5. CASE Deliver(v)
    <2> DEFINE p == [page[v] EXCEPT !.shown = Head(page[v].wire), !.wire = Tail(@)]
    <2>1. /\ page[v].wire # <<>>
          /\ Head(page[v].wire) \in Nat /\ Tail(page[v].wire) \in Seq(Nat)
      BY <1>1, <1>5, LastOfRest DEF Deliver
    <2>2. /\ p \in Page
          /\ p.heard = page[v].heard /\ p.pc = page[v].pc /\ p.at = page[v].at
          /\ p.shown = Head(page[v].wire) /\ p.wire = Tail(page[v].wire)
      BY <1>1, <2>1 DEF Page
    <2>3. page' = [page EXCEPT ![v] = p]
      BY <1>5 DEF Deliver
    <2> HIDE DEF p
    <2>4. p.heard => /\ p.pc = "listening" /\ p.at \in Replica
                     /\ (IF p.wire = <<>> THEN p.shown ELSE Last(p.wire)) = told[p.at]
      BY <1>1, <2>1, <2>2, LastOfRest DEF Latest
    <2> QED
      BY <2>2, <2>3, <2>4, PageChanges
  <1>6. CASE LeavePage(v)
    <2>1. ClosedPage \in Page /\ ~ClosedPage.heard
      BY EmptySeq DEF ClosedPage, Page, PagePC
    <2> QED
      BY <1>6, <2>1, PageChanges DEF LeavePage
  <1>7. CASE Disconnect(v)
    <2> DEFINE p == [page[v] EXCEPT !.pc = "deaf", !.wire = <<>>, !.heard = FALSE]
    <2>1. p \in Page /\ ~p.heard
      BY <1>1, EmptySeq DEF Page, PagePC
    <2>2. page' = [page EXCEPT ![v] = p]
      BY <1>7 DEF Disconnect
    <2> HIDE DEF p
    <2> QED
      BY <2>1, <2>2, PageChanges
  <1> QED
    BY <1>3, <1>4, <1>5, <1>6, <1>7, <1>8 DEF PageStep

-----------------------------------------------------------------------------
(* The theorems about the feed. *)

LEMMA InitFInv == FeedInit => FInv
  <1> SUFFICES ASSUME FeedInit PROVE FInv
    OBVIOUS
  <1>1. EInv
    BY InitEInv DEF FeedInit
  <1>2. ClosedPage \in Page /\ ~ClosedPage.heard
    BY EmptySeq DEF ClosedPage, Page, PagePC
  <1>3. FeedTypeOK /\ HeardIsLatest
    BY <1>2, CapacityAssumption DEF FeedInit, FeedTypeOK, HeardIsLatest
  <1>4. ReplicasReckon
    BY CapacityAssumption DEF FeedInit, EditInit, Init, ReplicasReckon, Reckons
  <1> QED
    BY <1>1, <1>3, <1>4 DEF FInv

LEMMA NextFInv == FInv /\ [FeedNext]_feedVars => FInv'
  <1>1. ASSUME FInv, UNCHANGED feedVars PROVE FInv'
    <2>1. EInv' /\ UNCHANGED <<editVars, servedBy, page, told, missed>>
      BY <1>1, NextEInv DEF FInv, feedVars
    <2> QED
      BY <1>1, <2>1 DEF FInv, FeedTypeOK, HeardIsLatest, Latest, ReplicasReckon, Reckons,
                        editVars
  <1> QED
    BY <1>1, BackendFInv, PageStepFInv DEF FeedNext

\* The inductive invariant of the event, its editors and its pages.
THEOREM FeedInvariance == FeedSpec => []FInv
  BY InitFInv, NextFInv, PTL DEF FeedSpec

\* Every variable of the feed keeps its type.
THEOREM FeedTypeCorrect == FeedSpec => [](EditTypeOK /\ FeedTypeOK)
  <1>1. FInv => EditTypeOK /\ FeedTypeOK
    BY DEF FInv, EInv
  <1> QED
    BY <1>1, FeedInvariance, PTL

\* A page that has heard an update and has no other to come is off the committed
\* row by exactly what its replica never broadcast, for any number of
\* transactions, edits, pages and replicas, and however they are spread.
THEOREM CommittedFeedHolds == FeedSpec => []CommittedFeedIsTrue
  <1>1. ASSUME FInv, NEW v \in Viewer, page[v].heard, page[v].wire = <<>>,
               \A t \in Txn : phase[t] = "written" => servedBy[t] # page[v].at
        PROVE  event.availableSeats = page[v].shown + missed[page[v].at]
    <2>1. page[v].at \in Replica /\ page[v].shown = told[page[v].at]
      BY <1>1 DEF FInv, HeardIsLatest, Latest
    <2> QED
      BY <1>1, <2>1 DEF FInv, ReplicasReckon, Reckons
  <1>2. FInv => CommittedFeedIsTrue
    BY <1>1 DEF CommittedFeedIsTrue
  <1> QED
    BY <1>2, FeedInvariance, PTL

\* No edit and no deletion slips between a locked read and its commit, and a
\* deleted event has no bookings, with pages looking on too.
THEOREM FeedKeepsEditing == FeedSpec => [](LockKeepsEditorsOut /\ DeletedHasNoBookings)
  <1>1. FInv => LockKeepsEditorsOut /\ DeletedHasNoBookings
    BY EInvKeepsEditorsOut, EInvDeletedHasNoBookings DEF FInv
  <1> QED
    BY <1>1, FeedInvariance, PTL
====
