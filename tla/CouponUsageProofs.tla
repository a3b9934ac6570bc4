-------------------------- MODULE CouponUsageProofs --------------------------
(***************************************************************************)
(* CouponUsage for every set of requests and every limit.  The lock        *)
(* excludes until one expires under its holder; the limit also needs one   *)
(* spelling of the code, without which two requests hold two locks, and a  *)
(* counter that has not expired.                                           *)
(*                                                                         *)
(* UsageLimit is not inductive: Increment does not look at the counter.    *)
(* The invariant adds that a request that has passed the check still has   *)
(* room (CheckedHasRoom), which holds because every other request that     *)
(* could take the room is kept out by the lock (InsideHoldsLock), and that *)
(* the counter counts the uses (CounterCountsLive).                        *)
(***************************************************************************)
EXTENDS CouponUsage, FiniteSetTheorems, TLAPS

\* A request inside holds the lock of its key.
InsideHoldsLock ==
    "lock" \notin slipped => \A r \in Req : pc[r] \in Inside => lock[KeyOf[r]] = r

\* A request that still tries has an attempt left.
TriesLeft == \A r \in Req : pc[r] \in {"idle", "waiting"} => tries[r] < Tries

LockInv == TypeOK /\ InsideHoldsLock /\ TriesLeft

CounterCountsLive == counterExists /\ counter = Cardinality(live)

CheckedHasRoom == \A r \in Req : pc[r] = "checked" => counter < MaxUsages

\* When a request's use is out, as far as its progress tells.
LiveByProgress ==
    \A r \in Req :
        /\ pc[r] \in {"idle", "waiting", "locked", "loaded", "checked"} => r \notin live
        /\ pc[r] \in {"counted", "applying", "applied", "reverting"} => r \in live

LimitInv ==
    /\ LockInv
    /\ CounterCountsLive
    /\ CheckedHasRoom
    /\ LiveByProgress
    /\ UsageLimit

\* What holds whatever expires, and what holds until something has.
CouponInv == LockInv /\ (slipped = {} => LimitInv)

-----------------------------------------------------------------------------
(* The lock. *)

LEMMA InitLockInv == Init => LockInv
  <1> SUFFICES ASSUME Init PROVE LockInv
    OBVIOUS
  <1> USE ReqAssumption, KeyAssumption, LimitAssumption
  <1>1. row \in Row
    BY DEF Init, Row
  <1>2. pc \in [Req -> PC] /\ \A r \in Req : pc[r] \notin Inside
    BY DEF Init, PC, Inside
  <1>3. tries \in [Req -> 0..Tries] /\ counter \in Int /\ counterExists \in BOOLEAN
    BY DEF Init
  <1>4. edit \in [pc : {"idle", "loaded", "done"}, coupon : Row]
    BY <1>1 DEF Init
  <1>5. TypeOK
    BY <1>1, <1>2, <1>3, <1>4 DEF Init, TypeOK
  <1>6. TriesLeft
    BY DEF Init, TriesLeft
  <1> QED
    BY <1>2, <1>5, <1>6 DEF LockInv, InsideHoldsLock

\* Taking the lock, and not getting it.
LEMMA AcquireLockInv ==
    ASSUME LockInv, NEW r \in Req, Acquire(r) \/ AcquireFails(r)
    PROVE  LockInv'
  <1> USE ReqAssumption, KeyAssumption, LimitAssumption
  <1>1. CASE Acquire(r)
    <2>1. TypeOK'
      BY <1>1 DEF Acquire, Goto, LockInv, TypeOK, PC, Inside
    <2>2. \A s \in Req : s # r => pc'[s] = pc[s]
      BY <1>1 DEF Acquire, Goto, LockInv, TypeOK
    <2>3. InsideHoldsLock'
      BY <1>1, <2>2 DEF Acquire, LockInv, TypeOK, InsideHoldsLock
    <2>4. TriesLeft'
      BY <1>1, <2>2 DEF Acquire, Goto, LockInv, TypeOK, TriesLeft
    <2> QED
      BY <2>1, <2>3, <2>4 DEF LockInv
  <1>2. CASE AcquireFails(r)
    <2>1. /\ pc' \in [Req -> PC]
          /\ pc'[r] \notin Inside
          /\ pc'[r] \in {"idle", "waiting"} => tries[r] + 1 # Tries
          /\ \A s \in Req : s # r => pc'[s] = pc[s]
      BY <1>2 DEF AcquireFails, Goto, LockInv, TypeOK, PC, Inside, Ended
    <2>2. tries[r] \in 0..Tries /\ tries[r] < Tries
      BY <1>2 DEF AcquireFails, LockInv, TypeOK, TriesLeft
    <2>3. /\ tries' \in [Req -> 0..Tries]
          /\ tries'[r] = tries[r] + 1
          /\ \A s \in Req : s # r => tries'[s] = tries[s]
      BY <1>2, <2>2 DEF AcquireFails, LockInv, TypeOK
    <2>4. TypeOK' /\ InsideHoldsLock'
      BY <1>2, <2>1, <2>3 DEF AcquireFails, LockInv, TypeOK, InsideHoldsLock
    <2>5. TriesLeft'
      BY <2>1, <2>2, <2>3 DEF LockInv, TriesLeft
    <2> QED
      BY <2>4, <2>5 DEF LockInv
  <1> QED
    BY <1>1, <1>2

\* A step that moves one request on, without entering and without touching
\* the lock, keeps the lock's invariant.
LEMMA MovesOn ==
    ASSUME LockInv, NEW r \in Req, NEW l \in PC, Goto(r, l),
           l \notin {"idle", "waiting"},
           l \in Inside => pc[r] \in Inside,
           UNCHANGED <<lock, tries, slipped>>
    PROVE  /\ pc' \in [Req -> PC]
           /\ pc'[r] = l
           /\ \A s \in Req : s # r => pc'[s] = pc[s]
           /\ InsideHoldsLock'
           /\ TriesLeft'
  <1>1. /\ pc' \in [Req -> PC] /\ pc'[r] = l
        /\ \A s \in Req : s # r => pc'[s] = pc[s]
    BY DEF Goto, LockInv, TypeOK
  <1> QED
    BY <1>1 DEF LockInv, InsideHoldsLock, TriesLeft

\* The steps under the lock, and those of revertUsage.
LEMMA InsideLockInv ==
    ASSUME LockInv, NEW r \in Req,
           \/ LoadCoupon(r) \/ NotApplicable(r) \/ CheckUsage(r) \/ Increment(r)
           \/ SaveUsage(r) \/ Throw(r) \/ Revert(r) \/ Crash(r)
    PROVE  LockInv'
  <1> USE DEF PC, Inside, Ended
  <1>1. CASE LoadCoupon(r) \/ RevertLoad(r)
    <2>1. PICK l \in PC : /\ Goto(r, l)
                          /\ l \notin {"idle", "waiting"}
                          /\ l \in Inside => pc[r] \in Inside
      BY <1>1 DEF LoadCoupon, RevertLoad
    <2>2. /\ UNCHANGED <<lock, tries, row, counter, counterExists, edit, live, slipped>>
          /\ coupon' \in [Req -> Row]
      BY <1>1 DEF LoadCoupon, RevertLoad, LockInv, TypeOK
    <2>3. pc' \in [Req -> PC] /\ InsideHoldsLock' /\ TriesLeft'
      BY <2>1, <2>2, MovesOn
    <2> QED
      BY <2>2, <2>3 DEF LockInv, TypeOK
  <1>2. CASE NotApplicable(r) \/ CheckUsage(r) \/ Throw(r) \/ Crash(r)
    <2>1. PICK l \in PC : /\ Goto(r, l)
                          /\ l \notin {"idle", "waiting"}
                          /\ l \in Inside => pc[r] \in Inside
      BY <1>2 DEF NotApplicable, CheckUsage, Throw, Crash
    <2>2. UNCHANGED <<lock, tries, coupon, row, counter, counterExists, edit, live, slipped>>
      BY <1>2 DEF NotApplicable, CheckUsage, Throw, Crash
    <2> QED
      BY <2>1, <2>2, MovesOn DEF LockInv, TypeOK
  <1>3. CASE Increment(r) \/ RevertDecrement(r)
    <2>1. PICK l \in PC : /\ Goto(r, l)
                          /\ l \notin {"idle", "waiting"}
                          /\ l \in Inside => pc[r] \in Inside
      BY <1>3 DEF Increment, RevertDecrement
    <2>2. /\ counter' \in Int
          /\ live' \in SUBSET Req
      BY <1>3 DEF Increment, RevertDecrement, LockInv, TypeOK
    <2>3. counterExists' \in BOOLEAN
      BY <1>3 DEF Increment, RevertDecrement
    <2>4. UNCHANGED <<lock, tries, coupon, row, edit, slipped>>
      BY <1>3 DEF Increment, RevertDecrement
    <2>5. LockInv
      OBVIOUS
    <2>6. pc' \in [Req -> PC] /\ InsideHoldsLock' /\ TriesLeft'
      BY <2>1, <2>4, MovesOn
    <2> QED
      BY <2>2, <2>3, <2>4, <2>6 DEF LockInv, TypeOK
  <1>4. CASE SaveUsage(r) \/ RevertSave(r)
    <2>1. PICK l \in PC : /\ Goto(r, l)
                          /\ l \notin {"idle", "waiting"}
                          /\ l \in Inside => pc[r] \in Inside
      BY <1>4 DEF SaveUsage, RevertSave
    <2>2. UNCHANGED <<lock, tries, coupon, counter, counterExists, edit, live, slipped>>
      BY <1>4 DEF SaveUsage, RevertSave
    <2>3. row' \in Row
      BY <1>4 DEF SaveUsage, RevertSave, AtLeastZero, LockInv, TypeOK, Row
    <2>4. pc' \in [Req -> PC] /\ InsideHoldsLock' /\ TriesLeft'
      BY <2>1, <2>2, MovesOn
    <2> QED
      BY <2>2, <2>3, <2>4 DEF LockInv, TypeOK
  <1> QED
    BY <1>1, <1>2, <1>3, <1>4 DEF Revert

\* Giving the lock back, or leaving to another what is not one's own.
LEMMA ReleaseLockInv ==
    ASSUME LockInv, NEW r \in Req, Release(r)
    PROVE  LockInv'
  <1>1. /\ pc' \in [Req -> PC] /\ pc'[r] \in Ended
        /\ \A s \in Req : s # r => pc'[s] = pc[s]
        /\ slipped' = slipped
    BY DEF Release, Goto, LockInv, TypeOK, PC, Ended
  <1>2. /\ lock' \in [Key -> Req \union {NoReq}]
        /\ \A k \in Key : lock[k] # r => lock'[k] = lock[k]
    BY KeyAssumption DEF Release, ReleaseOwn, LockInv, TypeOK
  <1>3. TypeOK'
    BY <1>1, <1>2 DEF Release, LockInv, TypeOK
  <1>4. InsideHoldsLock'
    BY <1>1, <1>2, KeyAssumption DEF LockInv, InsideHoldsLock, Ended, Inside
  <1>5. TriesLeft'
    BY <1>1 DEF Release, LockInv, TriesLeft, Ended
  <1> QED
    BY <1>3, <1>4, <1>5 DEF LockInv

\* The rest of the world; a lock expires for a request that is dead, or slips.
LEMMA WorldLockInv ==
    ASSUME LockInv,
           (\E k \in Key : ExpireLock(k)) \/ ExpireCounter \/ LoadEdit \/ SaveEdit
    PROVE  LockInv'
  <1>1. ASSUME NEW k \in Key, ExpireLock(k) PROVE LockInv'
    <2>1. /\ lock' \in [Key -> Req \union {NoReq}]
          /\ \A j \in Key : j # k => lock'[j] = lock[j]
          /\ slipped' \in SUBSET {"lock", "counter"}
          /\ "lock" \notin slipped' => "lock" \notin slipped /\ pc[lock[k]] = "crashed"
      BY <1>1 DEF ExpireLock, LockInv, TypeOK
    <2>2. InsideHoldsLock'
      BY <1>1, <2>1, KeyAssumption DEF ExpireLock, LockInv, InsideHoldsLock, Inside
    <2>3. UNCHANGED <<pc, tries, coupon, row, counter, counterExists, edit, live>>
      BY <1>1 DEF ExpireLock
    <2>4. TypeOK'
      BY <2>1, <2>3 DEF LockInv, TypeOK
    <2>5. TriesLeft'
      BY <2>3 DEF LockInv, TriesLeft
    <2> QED
      BY <2>2, <2>4, <2>5 DEF LockInv
  <1>2. CASE ExpireCounter
    <2>1. counter' \in Int
      BY <1>2 DEF ExpireCounter
    <2>2. counterExists' \in BOOLEAN
      BY <1>2 DEF ExpireCounter
    <2>3. UNCHANGED <<lock, pc, tries, coupon, row, edit, live>> /\ slipped' = slipped \union {"counter"}
      BY <1>2 DEF ExpireCounter
    <2> QED
      BY <2>1, <2>2, <2>3 DEF LockInv, TypeOK, InsideHoldsLock, TriesLeft
  <1>3. CASE LoadEdit
    <2>1. edit' \in [pc : {"idle", "loaded", "done"}, coupon : Row]
      BY <1>3 DEF LoadEdit, LockInv, TypeOK, Row
    <2> QED
      BY <1>3, <2>1 DEF LoadEdit, LockInv, TypeOK, InsideHoldsLock, TriesLeft
  <1>4. CASE SaveEdit
    <2>1. edit' \in [pc : {"idle", "loaded", "done"}, coupon : Row] /\ row' \in Row
      BY <1>4 DEF SaveEdit, LockInv, TypeOK
    <2> QED
      BY <1>4, <2>1 DEF SaveEdit, LockInv, TypeOK, InsideHoldsLock, TriesLeft
  <1> QED
    BY <1>1, <1>2, <1>3, <1>4

LEMMA NextLockInv == LockInv /\ [Next]_vars => LockInv'
  <1>1. LockInv /\ UNCHANGED vars => LockInv'
    BY DEF vars, LockInv, TypeOK, InsideHoldsLock, TriesLeft
  <1> QED
    BY <1>1, AcquireLockInv, InsideLockInv, ReleaseLockInv, WorldLockInv
       DEF Next, Apply

-----------------------------------------------------------------------------
(* The limit. *)

\* One spelling: every request goes by the same lock key.
OneKey == \A r, s \in Req : KeyOf[r] = KeyOf[s]

\* The lock keeps all requests but one outside.
LEMMA OneInside ==
    ASSUME LockInv, NEW r \in Req, NEW s \in Req, KeyOf[r] = KeyOf[s],
           pc[r] \in Inside, pc[s] \in Inside, "lock" \notin slipped
    PROVE  r = s
  BY DEF LockInv, InsideHoldsLock

\* Taking a use out, and giving one back, as the counter sees it.
LEMMA CountOne ==
    ASSUME LockInv, NEW r \in Req
    PROVE  /\ Cardinality(live) \in Nat
           /\ r \notin live => Cardinality(live \union {r}) = Cardinality(live) + 1
           /\ r \in live => Cardinality(live \ {r}) = Cardinality(live) - 1
  <1>1. IsFiniteSet(live)
    BY ReqAssumption, FS_Subset DEF LockInv, TypeOK
  <1> QED
    BY <1>1, FS_CardinalityType, FS_AddElement, FS_RemoveElement

LEMMA InitLimitInv == Init => LimitInv
  <1> SUFFICES ASSUME Init PROVE LimitInv
    OBVIOUS
  <1>1. LockInv
    BY InitLockInv
  <1>2. live = {} /\ Cardinality(live) = 0 /\ counter = 0 /\ counterExists
    BY FS_EmptySet DEF Init
  <1>3. CounterCountsLive /\ UsageLimit
    BY <1>2, LimitAssumption DEF CounterCountsLive, UsageLimit
  <1>4. CheckedHasRoom /\ LiveByProgress
    BY <1>2 DEF Init, CheckedHasRoom, LiveByProgress
  <1> QED
    BY <1>1, <1>3, <1>4 DEF LimitInv

\* Steps of a request that count nothing.
LEMMA UncountedLimitInv ==
    ASSUME slipped = {}, LimitInv, LockInv', NEW r \in Req,
           UNCHANGED <<counter, counterExists, live>>,
           \A s \in Req : s # r => pc'[s] = pc[s],
           pc'[r] # "checked",
           /\ pc'[r] \in {"idle", "waiting", "locked", "loaded", "checked"} => r \notin live
           /\ pc'[r] \in {"counted", "applying", "applied", "reverting"} => r \in live
    PROVE  LimitInv'
  BY DEF LimitInv, CounterCountsLive, CheckedHasRoom, LiveByProgress, UsageLimit

LEMMA ApplyLimitInv ==
    ASSUME OneKey, slipped = {}, LimitInv, LockInv', NEW r \in Req, Apply(r)
    PROVE  LimitInv'
  <1>1. CASE \/ Acquire(r) \/ AcquireFails(r) \/ LoadCoupon(r) \/ NotApplicable(r)
             \/ SaveUsage(r) \/ Throw(r) \/ Release(r)
    <2>1. /\ UNCHANGED <<counter, counterExists, live>>
          /\ \A s \in Req : s # r => pc'[s] = pc[s]
          /\ pc'[r] # "checked"
      BY <1>1 DEF Acquire, AcquireFails, LoadCoupon, NotApplicable, SaveUsage, Throw,
                  Release, Goto, LimitInv, LockInv, TypeOK
    <2>2. /\ pc'[r] \in {"idle", "waiting", "locked", "loaded", "checked"} => r \notin live
          /\ pc'[r] \in {"counted", "applying", "applied", "reverting"} => r \in live
      BY <1>1 DEF Acquire, AcquireFails, LoadCoupon, NotApplicable, SaveUsage, Throw,
                  Release, Goto, LimitInv, LockInv, TypeOK, LiveByProgress
    <2> QED
      BY <2>1, <2>2, UncountedLimitInv
  <1>2. CASE CheckUsage(r)
    <2>1. /\ UNCHANGED <<counter, counterExists, live>>
          /\ \A s \in Req : s # r => pc'[s] = pc[s]
          /\ pc[r] = "loaded" /\ r \notin live
          /\ pc'[r] \in {"leaving", "checked"}
      BY <1>2 DEF CheckUsage, Goto, LimitInv, LockInv, TypeOK, LiveByProgress
    <2>2. pc'[r] = "checked" => counter < MaxUsages
      BY <1>2, LimitAssumption DEF CheckUsage, Goto, Usage, LimitInv, LockInv, TypeOK,
                                   CounterCountsLive
    <2> QED
      BY <2>1, <2>2 DEF LimitInv, CounterCountsLive, CheckedHasRoom, LiveByProgress,
                        UsageLimit
  <1>3. CASE Increment(r)
    <2>1. /\ pc[r] = "checked" /\ pc'[r] = "counted"
          /\ \A s \in Req : s # r => pc'[s] = pc[s]
          /\ counter' = counter + 1 /\ counterExists'
          /\ live' = live \union {r} /\ r \notin live
          /\ counter < MaxUsages
      BY <1>3 DEF Increment, Goto, LimitInv, LockInv, TypeOK, LiveByProgress, CheckedHasRoom
    <2>2. \A s \in Req : s # r => pc[s] # "checked"
      BY <2>1, OneInside DEF OneKey, LimitInv, Inside
    <2>3. counter' = Cardinality(live') /\ counter \in Nat
      BY <2>1, CountOne DEF LimitInv, CounterCountsLive
    <2>4. CounterCountsLive' /\ UsageLimit'
      BY <2>1, <2>3, LimitAssumption DEF CounterCountsLive, UsageLimit
    <2>5. CheckedHasRoom' /\ LiveByProgress'
      BY <2>1, <2>2 DEF LimitInv, CheckedHasRoom, LiveByProgress
    <2> QED
      BY <2>4, <2>5 DEF LimitInv
  <1> QED
    BY <1>1, <1>2, <1>3 DEF Apply

\* Giving uses back makes room, with or without the lock.
LEMMA RevertLimitInv ==
    ASSUME slipped = {}, LimitInv, LockInv', NEW r \in Req, Revert(r) \/ Crash(r)
    PROVE  LimitInv'
  <1>1. CASE RevertLoad(r) \/ RevertSave(r) \/ Crash(r)
    <2>1. /\ UNCHANGED <<counter, counterExists, live>>
          /\ \A s \in Req : s # r => pc'[s] = pc[s]
          /\ pc'[r] \in {"reverting", "reverted", "crashed"}
          /\ pc'[r] = "reverting" => r \in live
      BY <1>1 DEF RevertLoad, RevertSave, Crash, Goto, LimitInv, LockInv, TypeOK,
                  LiveByProgress
    <2> QED
      BY <2>1, UncountedLimitInv
  <1>2. CASE RevertDecrement(r)
    <2>1. /\ pc'[r] = "decremented"
          /\ \A s \in Req : s # r => pc'[s] = pc[s]
          /\ counter' = counter - 1 /\ counterExists'
          /\ live' = live \ {r} /\ r \in live
      BY <1>2 DEF RevertDecrement, Goto, LimitInv, LockInv, TypeOK, LiveByProgress
    <2>2. /\ counter' = Cardinality(live') /\ counter \in Nat
          /\ counter <= MaxUsages
      BY <2>1, CountOne DEF LimitInv, CounterCountsLive, UsageLimit
    <2>3. CounterCountsLive' /\ UsageLimit' /\ CheckedHasRoom'
      BY <2>1, <2>2, LimitAssumption DEF LimitInv, CounterCountsLive, UsageLimit,
                                         CheckedHasRoom
    <2>4. LiveByProgress'
      BY <2>1 DEF LimitInv, LiveByProgress
    <2> QED
      BY <2>3, <2>4 DEF LimitInv
  <1> QED
    BY <1>1, <1>2 DEF Revert

\* What has expired too early stays on record.
LEMMA SlippedStays == [Next]_vars => slipped \subseteq slipped'
  BY DEF Next, Apply, Revert, Acquire, AcquireFails, LoadCoupon, NotApplicable, CheckUsage,
         Increment, SaveUsage, Throw, Release, RevertLoad, RevertDecrement, RevertSave,
         Crash, ExpireLock, ExpireCounter, LoadEdit, SaveEdit, vars

LEMMA NextCouponInv ==
    ASSUME OneKey
    PROVE  CouponInv /\ [Next]_vars => CouponInv'
  <1> SUFFICES ASSUME CouponInv, [Next]_vars, slipped' = {} PROVE LimitInv'
    BY NextLockInv DEF CouponInv
  <1>1. LockInv'
    BY NextLockInv DEF CouponInv
  <1>2. slipped = {} /\ LimitInv
    BY SlippedStays DEF CouponInv
  <1>3. CASE \E r \in Req : Apply(r) \/ Revert(r) \/ Crash(r)
    BY <1>1, <1>2, <1>3, ApplyLimitInv, RevertLimitInv
  <1>4. CASE (\E k \in Key : ExpireLock(k)) \/ LoadEdit \/ SaveEdit \/ UNCHANGED vars
    <2>1. UNCHANGED <<pc, counter, counterExists, live>>
      BY <1>4 DEF ExpireLock, LoadEdit, SaveEdit, vars
    <2> QED
      BY <1>1, <1>2, <2>1 DEF LimitInv, CounterCountsLive, CheckedHasRoom, LiveByProgress,
                              UsageLimit
  <1>5. ~ ExpireCounter
    BY DEF ExpireCounter
  <1> QED
    BY <1>3, <1>4, <1>5 DEF Next

-----------------------------------------------------------------------------
(* The theorems. *)

\* Every variable keeps its type, whatever expires.
THEOREM TypeCorrect == Spec => []TypeOK
  <1>1. LockInv => TypeOK
    BY DEF LockInv
  <1> QED
    BY <1>1, InitLockInv, NextLockInv, PTL DEF Spec

\* Until a lock expires under its holder, at most one request of a spelling is
\* between the check and the increment.
THEOREM LockExcludes == Spec => []AloneInside
  <1>1. LockInv => AloneInside
    BY OneInside DEF AloneInside
  <1> QED
    BY <1>1, InitLockInv, NextLockInv, PTL DEF Spec

\* With one spelling, and until a lock or the counter expires too early, the
\* coupon is never used more often than its limit, however many requests apply
\* and revert it at once.
THEOREM LimitHolds ==
    ASSUME OneKey
    PROVE  Spec => []UsageLimit
  <1>1. Init => CouponInv
    BY InitLimitInv DEF CouponInv, LimitInv
  <1>2. CouponInv /\ [Next]_vars => CouponInv'
    BY NextCouponInv
  <1>3. CouponInv => UsageLimit
    BY DEF CouponInv, LimitInv, UsageLimit
  <1> QED
    BY <1>1, <1>2, <1>3, PTL DEF Spec

\* Until a key is lost, a step takes a use that is left, gives back one that is
\* out, or moves none.
LEMMA StepKeepsPromise ==
    ASSUME OneKey, CouponInv, [Next]_vars
    PROVE  [Promise!Next]_(Promise!vars)
  <1>1. CASE slipped' # {}
    BY <1>1 DEF Promise!Next, Promise!Lose
  <1>2. CASE slipped' = {}
    <2>1. slipped = {} /\ LimitInv
      BY <1>2, SlippedStays DEF CouponInv
    <2>2. /\ IsFiniteSet(live) /\ Cardinality(live) \in Nat
          /\ counter = Cardinality(live)
      BY <2>1, ReqAssumption, FS_Subset, FS_CardinalityType
         DEF LimitInv, LockInv, TypeOK, CounterCountsLive
    <2>3. ASSUME NEW r \in Req, Increment(r) PROVE Promise!Take
      <3>1. live' = live \union {r} /\ r \notin live /\ counter < MaxUsages
        BY <2>1, <2>3 DEF Increment, LimitInv, LiveByProgress, CheckedHasRoom
      <3>2. Cardinality(live') = Cardinality(live) + 1
        BY <2>1, <3>1, CountOne DEF LimitInv
      <3> QED
        BY <1>2, <2>1, <2>2, <3>1, <3>2 DEF Promise!Take
    <2>4. ASSUME NEW r \in Req, RevertDecrement(r) PROVE Promise!GiveBack
      <3>1. live' = live \ {r} /\ r \in live
        BY <2>1, <2>4 DEF RevertDecrement, LimitInv, LiveByProgress
      <3>2. Cardinality(live') = Cardinality(live) - 1
        BY <2>1, <3>1, CountOne DEF LimitInv
      <3>3. Cardinality(live) # 0
        BY <2>2, <3>1, FS_EmptySet
      <3> QED
        BY <1>2, <2>1, <2>2, <3>2, <3>3 DEF Promise!GiveBack
    <2>5. CASE UNCHANGED live
      BY <1>2, <2>1, <2>5 DEF Promise!vars
    <2>6. UNCHANGED live \/ \E r \in Req : Increment(r) \/ RevertDecrement(r)
      BY DEF Next, Apply, Revert, Acquire, AcquireFails, LoadCoupon, NotApplicable, CheckUsage,
             SaveUsage, Throw, Release, RevertLoad, RevertSave, Crash, ExpireLock,
             ExpireCounter, LoadEdit, SaveEdit, vars
    <2> QED
      BY <2>3, <2>4, <2>5, <2>6 DEF Promise!Next
  <1> QED
    BY <1>1, <1>2

\* The lock, the counter and the requests that die implement one counter of
\* uses, with one spelling of the code, for any limit and number of requests.
THEOREM UsageKeepsPromise ==
    ASSUME OneKey
    PROVE  Spec => ImplementsPromise
  <1>1. Init => CouponInv
    BY InitLimitInv DEF CouponInv, LimitInv
  <1>2. Init => Promise!Init
    <2> SUFFICES ASSUME Init PROVE Cardinality(live) = 0 /\ slipped = {}
      BY DEF Promise!Init
    <2> QED
      BY FS_EmptySet DEF Init
  <1>3. CouponInv /\ [Next]_vars => CouponInv' /\ [Promise!Next]_(Promise!vars)
    BY NextCouponInv, StepKeepsPromise
  <1> QED
    BY <1>1, <1>2, <1>3, PTL DEF Spec, ImplementsPromise, Promise!Spec

\* releaseLock never frees another request's lock, and nobody takes a lock that
\* is held: a held lock goes by its own holder's step or by its expiry.
THEOREM FreedByHolder == Spec => ReleasedByHolder
  <1> DEFINE Freed == \A k \in Key :
                lock[k] # NoReq /\ lock'[k] # lock[k] =>
                   \/ pc' = pc
                   \/ pc[lock[k]] # pc'[lock[k]]
  <1>1. ASSUME LockInv, [Next]_vars PROVE [Freed]_vars
    <2> USE ReqAssumption, KeyAssumption
    <2>1. lock \in [Key -> Req \union {NoReq}] /\ pc \in [Req -> PC]
      BY <1>1 DEF LockInv, TypeOK
    <2>2. ASSUME NEW r \in Req, Acquire(r) PROVE Freed
      <3>1. /\ lock[KeyOf[r]] = NoReq
            /\ \A k \in Key : k # KeyOf[r] => lock'[k] = lock[k]
        BY <2>1, <2>2 DEF Acquire
      <3> QED
        BY <3>1
    <2>3. ASSUME NEW r \in Req, Release(r) PROVE Freed
      <3>1. pc'[r] # pc[r]
        BY <2>1, <2>3 DEF Release, Goto
      <3>2. \A k \in Key : lock'[k] # lock[k] => lock[k] = r
        BY <2>1, <2>3 DEF Release, ReleaseOwn
      <3> QED
        BY <3>1, <3>2
    <2>4. ASSUME NEW k \in Key, ExpireLock(k) PROVE Freed
      BY <2>4 DEF ExpireLock
    <2>5. ASSUME UNCHANGED lock PROVE Freed
      BY <2>5
    <2>6. ASSUME NEW r \in Req, Apply(r), ~Acquire(r), ~Release(r) PROVE UNCHANGED lock
      BY <2>6 DEF Apply, AcquireFails, LoadCoupon, NotApplicable, CheckUsage, Increment,
                  SaveUsage, Throw
    <2>7. ASSUME NEW r \in Req, Revert(r) \/ Crash(r) PROVE UNCHANGED lock
      BY <2>7 DEF Revert, RevertLoad, RevertDecrement, RevertSave, Crash
    <2>8. ExpireCounter \/ LoadEdit \/ SaveEdit => UNCHANGED lock
      BY DEF ExpireCounter, LoadEdit, SaveEdit
    <2> HIDE DEF Freed
    <2>9. ASSUME NEW r \in Req, Apply(r) PROVE Freed
      BY <2>2, <2>3, <2>5, <2>6, <2>9
    <2>10. CASE Next
      BY <2>4, <2>5, <2>7, <2>8, <2>9, <2>10 DEF Next
    <2> QED
      BY <1>1, <2>10
  <1> QED
    BY <1>1, InitLockInv, NextLockInv, PTL DEF Spec, ReleasedByHolder
=============================================================================
