----------------------------- MODULE CouponUsage -----------------------------
(***************************************************************************)
(* CouponsService for one coupon of one event: validateAndApply under its  *)
(* Redis lock, revertUsage outside it, and the organizer's update.         *)
(*                                                                         *)
(* A use of the coupon is counted twice: in the Redis counter, which is    *)
(* what the limit is checked against, and in the currentUsages column,     *)
(* which replaces the counter when the counter has expired.  TypeORM's     *)
(* save writes every column in which the object differs from the row, so   *)
(* each save here writes the object's currentUsages and isActive.          *)
(***************************************************************************)
EXTENDS Integers, FiniteSets

CONSTANTS
    Req,                \* requests to apply the coupon
    NoReq,              \* nobody
    Key,                \* lock keys, one for each spelling of the code
    KeyOf,              \* the lock key of each request
    MaxUsages,          \* coupons.maxUsages
    Tries               \* attempts to take the lock

ASSUME ReqAssumption == NoReq \notin Req /\ IsFiniteSet(Req)
ASSUME KeyAssumption == KeyOf \in [Req -> Key]
ASSUME LimitAssumption == MaxUsages \in Nat /\ Tries \in Nat \ {0}

VARIABLES
    lock,           \* the request whose value each lock key holds, or NoReq
    pc,             \* the progress of each request
    tries,          \* attempts each request has made
    coupon,         \* the Coupon object each request has loaded
    row,            \* the row: currentUsages and isActive
    counter,        \* the Redis counter, 0 while it does not exist
    counterExists,
    edit,           \* the organizer's update: progress and Coupon object
    live,           \* ghost: the uses taken and not given back
    slipped         \* ghost: what has expired although it was needed

vars == <<lock, pc, tries, coupon, row, counter, counterExists, edit, live, slipped>>

Row == [currentUsages : Int, isActive : BOOLEAN]

\* The steps between taking the lock and giving it back.
Inside == {"locked", "loaded", "checked", "counted", "leaving", "throwing", "applying"}

Ended == {"applied", "invalid", "threw", "crashed", "reverted"}

PC == Inside \union Ended \union {"idle", "waiting", "reverting", "decremented"}

TypeOK ==
    /\ lock \in [Key -> Req \union {NoReq}]
    /\ pc \in [Req -> PC]
    /\ tries \in [Req -> 0..Tries]
    /\ coupon \in [Req -> Row]
    /\ row \in Row
    /\ counter \in Int
    /\ counterExists \in BOOLEAN
    /\ edit \in [pc : {"idle", "loaded", "done"}, coupon : Row]
    /\ live \in SUBSET Req
    /\ slipped \in SUBSET {"lock", "counter"}

\* CouponsService.create: the row, and a counter of zero.
Init ==
    /\ row = [currentUsages |-> 0, isActive |-> TRUE]
    /\ lock = [k \in Key |-> NoReq]
    /\ pc = [r \in Req |-> "idle"]
    /\ tries = [r \in Req |-> 0]
    /\ coupon = [r \in Req |-> row]
    /\ counter = 0
    /\ counterExists = TRUE
    /\ edit = [pc |-> "idle", coupon |-> row]
    /\ live = {}
    /\ slipped = {}

Goto(r, l) == pc' = [pc EXCEPT ![r] = l]

-----------------------------------------------------------------------------
(* acquireLock and releaseLock. *)

\* Mutant: GET, then SET without NX.
AcquireOverwrites(r) ==
    /\ pc[r] \in {"idle", "waiting"}
    /\ lock' = [lock EXCEPT ![KeyOf[r]] = r]
    /\ Goto(r, "locked")
    /\ UNCHANGED <<tries, coupon, row, counter, counterExists, edit, live, slipped>>

\* SET key value PX ttl NX.
Acquire(r) ==
    /\ pc[r] \in {"idle", "waiting"}
    /\ lock[KeyOf[r]] = NoReq
    /\ lock' = [lock EXCEPT ![KeyOf[r]] = r]
    /\ Goto(r, "locked")
    /\ UNCHANGED <<tries, coupon, row, counter, counterExists, edit, live, slipped>>

\* The key exists: wait and try again, and give up after the last attempt.
AcquireFails(r) ==
    /\ pc[r] \in {"idle", "waiting"}
    /\ lock[KeyOf[r]] # NoReq
    /\ tries' = [tries EXCEPT ![r] = @ + 1]
    /\ Goto(r, IF tries[r] + 1 = Tries THEN "threw" ELSE "waiting")
    /\ UNCHANGED <<lock, coupon, row, counter, counterExists, edit, live, slipped>>

\* Mutant: DEL without comparing the value.
ReleaseAny(r) == [lock EXCEPT ![KeyOf[r]] = NoReq]

\* The Lua script: delete the key only if it holds this request's value.
ReleaseOwn(r) ==
    IF lock[KeyOf[r]] = r THEN [lock EXCEPT ![KeyOf[r]] = NoReq] ELSE lock

\* The finally block.
Release(r) ==
    /\ pc[r] \in {"leaving", "throwing", "applying"}
    /\ lock' = ReleaseOwn(r)
    /\ Goto(r, CASE pc[r] = "leaving"  -> "invalid"
                 [] pc[r] = "throwing" -> "threw"
                 [] pc[r] = "applying" -> "applied")
    /\ UNCHANGED <<tries, coupon, row, counter, counterExists, edit, live, slipped>>

\* Mutant: SET without PX.
ExpireLockNever(k) == FALSE /\ lock[k] # NoReq /\ UNCHANGED vars

\* The TTL runs out: for a request that died, or for one that is slow.
ExpireLock(k) ==
    /\ lock[k] # NoReq
    /\ lock' = [lock EXCEPT ![k] = NoReq]
    /\ slipped' = IF pc[lock[k]] = "crashed" THEN slipped ELSE slipped \union {"lock"}
    /\ UNCHANGED <<pc, tries, coupon, row, counter, counterExists, edit, live>>

-----------------------------------------------------------------------------
(* validateAndApply, under the lock. *)

LoadCoupon(r) ==
    /\ pc[r] = "locked"
    /\ row.isActive
    /\ coupon' = [coupon EXCEPT ![r] = row]
    /\ Goto(r, "loaded")
    /\ UNCHANGED <<lock, tries, row, counter, counterExists, edit, live, slipped>>

\* No active coupon, expired, or an amount below its minimum.
NotApplicable(r) ==
    /\ pc[r] = "locked"
    /\ Goto(r, "leaving")
    /\ UNCHANGED <<lock, tries, coupon, row, counter, counterExists, edit, live, slipped>>

\* Mutant: the limit is checked against the column.
UsageOfColumn(r) == coupon[r].currentUsages

Usage(r) == IF counterExists THEN counter ELSE coupon[r].currentUsages

CheckUsage(r) ==
    /\ pc[r] = "loaded"
    /\ Goto(r, IF Usage(r) >= MaxUsages THEN "leaving" ELSE "checked")
    /\ UNCHANGED <<lock, tries, coupon, row, counter, counterExists, edit, live, slipped>>

\* INCR creates a missing counter with the value 1.
Increment(r) ==
    /\ pc[r] = "checked"
    /\ counter' = counter + 1
    /\ counterExists' = TRUE
    /\ live' = live \union {r}
    /\ Goto(r, "counted")
    /\ UNCHANGED <<lock, tries, coupon, row, edit, slipped>>

SaveUsage(r) ==
    /\ pc[r] = "counted"
    /\ row' = [coupon[r] EXCEPT !.currentUsages = @ + 1]
    /\ Goto(r, "applying")
    /\ UNCHANGED <<lock, tries, coupon, counter, counterExists, edit, live, slipped>>

\* A query throws; the finally block still runs.
Throw(r) ==
    /\ pc[r] \in {"locked", "loaded", "checked", "counted"}
    /\ Goto(r, "throwing")
    /\ UNCHANGED <<lock, tries, coupon, row, counter, counterExists, edit, live, slipped>>

-----------------------------------------------------------------------------
(* revertUsage, when the booking fails later or is cancelled.  No lock. *)

RevertLoad(r) ==
    /\ pc[r] = "applied"
    /\ coupon' = [coupon EXCEPT ![r] = row]
    /\ Goto(r, "reverting")
    /\ UNCHANGED <<lock, tries, row, counter, counterExists, edit, live, slipped>>

RevertDecrement(r) ==
    /\ pc[r] = "reverting"
    /\ counter' = counter - 1
    /\ counterExists' = TRUE
    /\ live' = live \ {r}
    /\ Goto(r, "decremented")
    /\ UNCHANGED <<lock, tries, coupon, row, edit, slipped>>

AtLeastZero(n) == IF n < 0 THEN 0 ELSE n

RevertSave(r) ==
    /\ pc[r] = "decremented"
    /\ row' = [coupon[r] EXCEPT !.currentUsages = AtLeastZero(@ - 1)]
    /\ Goto(r, "reverted")
    /\ UNCHANGED <<lock, tries, coupon, counter, counterExists, edit, live, slipped>>

-----------------------------------------------------------------------------
(* The rest of the world. *)

\* The process dies, or Redis cannot be reached: the lock key stays.
Crash(r) ==
    /\ pc[r] \notin Ended \union {"idle"}
    /\ Goto(r, "crashed")
    /\ UNCHANGED <<lock, tries, coupon, row, counter, counterExists, edit, live, slipped>>

\* The counter has a TTL of 30 days, counted from the coupon's creation.
ExpireCounter ==
    /\ counterExists
    /\ counter' = 0
    /\ counterExists' = FALSE
    /\ slipped' = slipped \union {"counter"}
    /\ UNCHANGED <<lock, pc, tries, coupon, row, edit, live>>

\* CouponsService.update, by the organizer: load, assign isActive, save.
LoadEdit ==
    /\ edit.pc = "idle"
    /\ edit' = [pc |-> "loaded", coupon |-> [row EXCEPT !.isActive = FALSE]]
    /\ UNCHANGED <<lock, pc, tries, coupon, row, counter, counterExists, live, slipped>>

SaveEdit ==
    /\ edit.pc = "loaded"
    /\ row' = edit.coupon
    /\ edit' = [edit EXCEPT !.pc = "done"]
    /\ UNCHANGED <<lock, pc, tries, coupon, counter, counterExists, live, slipped>>

-----------------------------------------------------------------------------
Apply(r) ==
    \/ Acquire(r) \/ AcquireFails(r)
    \/ LoadCoupon(r) \/ NotApplicable(r) \/ CheckUsage(r) \/ Increment(r)
    \/ SaveUsage(r) \/ Throw(r) \/ Release(r)

Revert(r) == RevertLoad(r) \/ RevertDecrement(r) \/ RevertSave(r)

Next ==
    \/ \E r \in Req : Apply(r) \/ Revert(r) \/ Crash(r)
    \/ \E k \in Key : ExpireLock(k)
    \/ ExpireCounter \/ LoadEdit \/ SaveEdit

\* A request that has begun runs on unless it crashes, and Redis drops a key
\* when its time is over.
Fairness ==
    /\ \A r \in Req : WF_vars(pc[r] # "idle" /\ Apply(r))
    /\ \A k \in Key : WF_vars(ExpireLock(k))

Spec == Init /\ [][Next]_vars /\ Fairness

-----------------------------------------------------------------------------
(* Properties. *)

\* The lock serves its purpose as long as no request outlives it: of the
\* requests that share a lock key, at most one is between its check of the limit
\* and its increment.
AloneInside ==
    "lock" \notin slipped =>
        \A r, s \in Req :
            r # s /\ KeyOf[r] = KeyOf[s] => ~ (pc[r] \in Inside /\ pc[s] \in Inside)

\* "Usage limits (max redemptions)": as long as neither a lock nor the counter
\* has expired too early, no more uses are out than the coupon has, although the
\* check reads the counter and the increment comes later.
UsageLimit == slipped = {} => Cardinality(live) <= MaxUsages

\* CouponCounter, with the uses that are out as its counter.
Promise == INSTANCE CouponCounter
               WITH Limit <- MaxUsages, uses <- Cardinality(live), lost <- (slipped # {})

\* What BookingsService is told: until a key is lost, any interleaving of
\* requests that apply and revert the coupon takes or gives back one use at a
\* time, and never takes one that is not there.
ImplementsPromise == Promise!Spec

\* A lock key goes only by expiry, or by the request whose value it holds:
\* a slow request does not free the lock of the one that came after it.
ReleasedByHolder ==
    [][\A k \in Key :
         lock[k] # NoReq /\ lock'[k] # lock[k] =>
            \/ pc' = pc
            \/ pc[lock[k]] # pc'[lock[k]]]_vars

\* Whatever becomes of its holder, the lock is free again some time.
LockIsFreed == \A k \in Key : lock[k] # NoReq ~> lock[k] = NoReq
=============================================================================
