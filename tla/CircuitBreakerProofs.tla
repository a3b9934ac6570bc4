------------------------ MODULE CircuitBreakerProofs -------------------------
(***************************************************************************)
(* CircuitBreaker for every threshold and any number of calls, and its two *)
(* users.                                                                  *)
(*                                                                         *)
(* The invariants of the circuit are inductive together with its type.     *)
(* In Payments, for any set of intents, a mock intent that is gone stays   *)
(* gone; BookingsService is told of no Stripe payment that was not made;   *)
(* and nothing stands in for Stripe before as many calls have failed as    *)
(* open the circuit.  In EmailQueue, for any set of mails, any number of   *)
(* attempts and stalls, no mail is skipped by a process whose circuit      *)
(* never opened, given up before its attempts are spent, or sent twice     *)
(* without an earlier sending having been in doubt.  The two               *)
(* specifications are not composed: each has a circuit of its own, as they *)
(* have in the code.                                                       *)
(***************************************************************************)
EXTENDS Payments, EmailQueue, TLAPS

IInv == TypeOK /\ OpenHasTimer /\ ClosedIsBelowThreshold

LEMMA InitIInv == Init => IInv
  BY ThresholdAssumption, MaxCallsAssumption
     DEF Init, IInv, TypeOK, States, OpenHasTimer, ClosedIsBelowThreshold

\* The steps up to the call of fn() count calls; one that tries an outdated
\* circuit half-opens it.
LEMMA CallIInv ==
    ASSUME IInv, ShortCircuit \/ Call
    PROVE  IInv'
  <1> USE ThresholdAssumption, MaxCallsAssumption
  <1>1. TypeOK'
    BY DEF IInv, TypeOK, States, ShortCircuit, Call
  <1>2. OpenHasTimer' /\ ClosedIsBelowThreshold'
    BY DEF IInv, TypeOK, States, ShortCircuit, Call, OpenHasTimer, ClosedIsBelowThreshold
  <1> QED
    BY <1>1, <1>2 DEF IInv

\* A success opens nothing, and the circuit it closes or finds closed counts
\* no failure in a row.
LEMMA OnSuccessIInv ==
    ASSUME IInv, OnSuccess
    PROVE  IInv'
  <1> USE ThresholdAssumption
  <1>1. /\ failures' \in Nat /\ failures' <= failures
        /\ state' \in States
        /\ state' = "OPEN" => state = "OPEN"
        /\ state' = "CLOSED" => failures' < Threshold
        /\ consecutive' = 0
        /\ UNCHANGED <<outdated, timers, calls>>
    BY DEF IInv, TypeOK, States, OnSuccess, ClosedIsBelowThreshold
  <1>2. inFlight' \in Nat
    BY DEF IInv, TypeOK, OnSuccess
  <1>3. TypeOK'
    BY <1>1, <1>2 DEF IInv, TypeOK
  <1>4. OpenHasTimer' /\ ClosedIsBelowThreshold'
    BY <1>1 DEF IInv, OpenHasTimer, ClosedIsBelowThreshold
  <1> QED
    BY <1>3, <1>4 DEF IInv

\* A failure sets a timer whenever it leaves the circuit open.
LEMMA OnFailureIInv ==
    ASSUME IInv, OnFailure
    PROVE  IInv'
  <1> USE ThresholdAssumption
  <1>1. /\ failures' = failures + 1 /\ consecutive' = consecutive + 1
        /\ inFlight' \in Nat /\ calls' = calls
        /\ failures \in Nat /\ consecutive \in Nat /\ timers \in Nat
    BY DEF IInv, TypeOK, OnFailure
  <1>2. CASE failures + 1 >= Threshold
    <2>1. state' = "OPEN" /\ outdated' \in BOOLEAN /\ timers' = timers + 1
      BY <1>2 DEF OnFailure
    <2> QED
      BY <1>1, <2>1 DEF IInv, TypeOK, States, OpenHasTimer, ClosedIsBelowThreshold
  <1>3. CASE ~ (failures + 1 >= Threshold)
    <2>1. UNCHANGED <<state, outdated, timers>>
      BY <1>3 DEF OnFailure
    <2> QED
      BY <1>1, <1>3, <2>1 DEF IInv, TypeOK, OpenHasTimer, ClosedIsBelowThreshold
  <1> QED
    BY <1>2, <1>3

\* Time opens and closes nothing.
LEMMA TimeIInv ==
    ASSUME IInv, ResetTimer \/ TimeoutPasses
    PROVE  IInv'
  <1>1. outdated' \in BOOLEAN
    BY DEF IInv, TypeOK, ResetTimer, TimeoutPasses
  <1>2. CASE ResetTimer
    BY <1>1, <1>2 DEF ResetTimer, IInv, TypeOK, States, OpenHasTimer,
                      ClosedIsBelowThreshold
  <1>3. CASE TimeoutPasses
    BY <1>1, <1>3 DEF TimeoutPasses, IInv, TypeOK, OpenHasTimer, ClosedIsBelowThreshold
  <1> QED
    BY <1>2, <1>3

\* A process that starts anew is in an initial state but for the calls.
LEMMA RestartIInv ==
    ASSUME IInv, Restart
    PROVE  IInv'
  BY ThresholdAssumption
     DEF Restart, IInv, TypeOK, States, OpenHasTimer, ClosedIsBelowThreshold

LEMMA NextIInv == IInv /\ [Next]_vars => IInv'
  <1>1. IInv /\ UNCHANGED vars => IInv'
    BY DEF vars, IInv, TypeOK, OpenHasTimer, ClosedIsBelowThreshold
  <1> QED
    BY <1>1, CallIInv, OnSuccessIInv, OnFailureIInv, TimeIInv, RestartIInv DEF Next

-----------------------------------------------------------------------------

\* The inductive invariant holds in every reachable state.
THEOREM Invariance == Spec => []IInv
  BY InitIInv, NextIInv, PTL DEF Spec

\* Every variable keeps its type.
THEOREM TypeCorrect == Spec => []TypeOK
  <1>1. IInv => TypeOK
    BY DEF IInv
  <1> QED
    BY <1>1, Invariance, PTL

\* An open circuit has a timer that will half-open it.
THEOREM NeverStuckOpen == Spec => []OpenHasTimer
  <1>1. IInv => OpenHasTimer
    BY DEF IInv
  <1> QED
    BY <1>1, Invariance, PTL

\* Threshold failures in a row never leave the circuit closed.
THEOREM ClosedBelowThreshold == Spec => []ClosedIsBelowThreshold
  <1>1. IInv => ClosedIsBelowThreshold
    BY DEF IInv
  <1> QED
    BY <1>1, Invariance, PTL

\* Only a success or a restart closes the circuit, only a failure opens it.
THEOREM ClosedBySuccess == Spec => OnlySuccessCloses
  <1>1. IInv /\ [Next]_vars =>
          [/\ state # "CLOSED" /\ state' = "CLOSED" =>
                /\ failures' = 0
                /\ \/ state = "HALF_OPEN" /\ inFlight' < inFlight
                   \/ inFlight' = 0 /\ timers' = 0 /\ outdated'
           /\ state # "OPEN" /\ state' = "OPEN" =>
                inFlight' < inFlight /\ failures' >= Threshold]_vars
    <2> SUFFICES ASSUME IInv, Next
                 PROVE  /\ state # "CLOSED" /\ state' = "CLOSED" =>
                             /\ failures' = 0
                             /\ \/ state = "HALF_OPEN" /\ inFlight' < inFlight
                                \/ inFlight' = 0 /\ timers' = 0 /\ outdated'
                        /\ state # "OPEN" /\ state' = "OPEN" =>
                             inFlight' < inFlight /\ failures' >= Threshold
      OBVIOUS
    <2>1. CASE ShortCircuit \/ Call \/ ResetTimer \/ TimeoutPasses
      BY <2>1 DEF ShortCircuit, Call, ResetTimer, TimeoutPasses
    <2>2. CASE OnSuccess
      BY <2>2 DEF OnSuccess, IInv, TypeOK
    <2>3. CASE OnFailure
      BY <2>3 DEF OnFailure, IInv, TypeOK
    <2>4. CASE Restart
      BY <2>4 DEF Restart
    <2> QED
      BY <2>1, <2>2, <2>3, <2>4 DEF Next
  <1> QED
    BY <1>1, Invariance, PTL DEF Spec, OnlySuccessCloses

-----------------------------------------------------------------------------
(* Payments. *)

\* A refund or a confirmation in flight is one of a Stripe intent, a refund
\* one that has been confirmed; a creation is one of no intent yet.
PendingIsWanted ==
    \A i \in Intent :
        /\ <<"create", i>> \in pending => kind[i] = "none"
        /\ <<"confirm", i>> \in pending => kind[i] = "stripe"
        /\ <<"refund", i>> \in pending => kind[i] = "stripe" /\ <<"confirmed", i>> \in told

\* What is said of an intent, or of its money, is said after it was created.
NewIsUntouched ==
    \A i \in Intent :
        kind[i] \in {"none", "failed"} =>
            /\ <<"confirmed", i>> \notin told
            /\ <<"refunded", i>> \notin told

\* A process with fewer failed calls than open the circuit has it closed, and
\* no timer set that could half-open it.
FewFailuresKeepClosed ==
    failed < Threshold => state = "CLOSED" /\ timers = 0 /\ failures <= failed

PInv ==
    /\ IInv
    /\ PaymentTypeOK
    /\ PendingIsWanted
    /\ NewIsUntouched
    /\ ToldOnlyIfPaid
    /\ FewFailuresKeepClosed

-----------------------------------------------------------------------------
(* Its circuit. *)

\* Every step of the payments is a step of the circuit or leaves it alone.
LEMMA StepImplementsCircuit == [PaymentNext]_paymentVars => [Next]_vars
  <1> SUFFICES ASSUME PaymentNext, ~ UNCHANGED vars PROVE Next
    BY DEF paymentVars, vars
  <1>1. ASSUME NEW i \in Intent,
               Asks(i) \/ Returns(i) \/ Throws(i) \/ MockTimer(i) \/ CustomerPays(i)
        PROVE  Next
    <2>1. CASE \/ CreateUnconfigured(i) \/ ConfirmMock(i) \/ RefundMock(i)
               \/ MockTimer(i) \/ CustomerPays(i)
      BY <2>1 DEF CreateUnconfigured, ConfirmMock, RefundMock, MockTimer, CustomerPays, circuit
    <2>2. CASE \/ CreateShort(i) \/ CreateCall(i) \/ ConfirmShort(i) \/ ConfirmCall(i)
               \/ RefundShort(i) \/ RefundCall(i)
      BY <2>2 DEF CreateShort, CreateCall, ConfirmShort, ConfirmCall, RefundShort,
                  RefundCall, Next
    <2>3. CASE Returns(i) \/ Throws(i)
      BY <2>3 DEF Returns, Throws, CreateReturns, CreateThrows, ConfirmReturns, ConfirmThrows,
                  RefundReturns, RefundThrows, Next
    <2> QED
      BY <1>1, <2>1, <2>2, <2>3 DEF Asks
  <1>2. CASE CircuitTime \/ RestartService
    BY <1>2 DEF CircuitTime, RestartService, Next
  <1> QED
    BY <1>1, <1>2 DEF PaymentNext

-----------------------------------------------------------------------------
(* Intents, money and answers. *)

\* The part of PaymentTypeOK that is about the variables of Payments.
PayOK ==
    /\ stripeOn \in BOOLEAN
    /\ kind \in [Intent -> {"none", "stripe", "mock", "failed"}]
    /\ mock \in [Intent -> {"absent", "waiting", "succeeded"}]
    /\ mockTimers \in SUBSET Intent
    /\ money \in [Intent -> {"none", "paid", "refunded"}]
    /\ pending \in SUBSET (Operation \X Intent)
    /\ told \in SUBSET ({"confirmed", "refunded"} \X Intent)

\* ToldOnlyIfPaid, without the product.
ToldWasPaid ==
    \A i \in Intent :
        kind[i] = "stripe" /\ (<<"confirmed", i>> \in told \/ <<"refunded", i>> \in told) =>
            money[i] # "none"

LEMMA ToldOnlyIfPaidMeans == ToldOnlyIfPaid <=> ToldWasPaid
  <1>1. \A i \in Intent :
          ({"confirmed", "refunded"} \X {i}) \intersect told # {} <=>
              <<"confirmed", i>> \in told \/ <<"refunded", i>> \in told
    OBVIOUS
  <1> QED
    BY <1>1 DEF ToldOnlyIfPaid, ToldWasPaid

Books ==
    /\ PayOK
    /\ PendingIsWanted
    /\ NewIsUntouched
    /\ ToldWasPaid

\* An intent is created once: as a mock, at Stripe, or not at all.
LEMMA CreateBooks ==
    ASSUME Books, NEW i \in Intent,
           \/ CreateUnconfigured(i) \/ CreateShort(i) \/ CreateCall(i)
           \/ CreateReturns(i) \/ CreateThrows(i)
    PROVE  Books'
  <1>1. CASE CreateCall(i)
    <2>1. /\ kind[i] = "none" /\ pending' = pending \union {<<"create", i>>}
          /\ UNCHANGED <<stripeOn, kind, mock, mockTimers, money, told>>
      BY <1>1 DEF CreateCall, Wanted, Begin
    <2>2. PayOK'
      BY <2>1 DEF Books, PayOK, Operation
    <2> QED
      BY <2>1, <2>2 DEF Books, PendingIsWanted, NewIsUntouched, ToldWasPaid
  <1>2. CASE \/ CreateUnconfigured(i) \/ CreateShort(i)
             \/ CreateReturns(i) \/ CreateThrows(i)
    <2>1. /\ kind[i] = "none"
          /\ pending' \subseteq pending /\ <<"create", i>> \notin pending'
          /\ \E k \in {"stripe", "mock", "failed"} : kind' = [kind EXCEPT ![i] = k]
          /\ mock' = mock \/ mock' = [mock EXCEPT ![i] = "waiting"]
          /\ mockTimers' = mockTimers \/ mockTimers' = mockTimers \union {i}
          /\ UNCHANGED <<stripeOn, money, told>>
      BY <1>2 DEF CreateUnconfigured, CreateShort, CreateReturns, CreateThrows, Wanted,
                  NewMock, End, Books, PendingIsWanted
    <2>2. PayOK'
      BY <2>1 DEF Books, PayOK
    <2>3. \A j \in Intent : j # i => kind'[j] = kind[j] /\ mock'[j] = mock[j]
      BY <2>1 DEF Books, PayOK
    <2>4. <<"confirmed", i>> \notin told /\ <<"refunded", i>> \notin told
      BY <2>1 DEF Books, NewIsUntouched
    <2>5. <<"confirm", i>> \notin pending /\ <<"refund", i>> \notin pending
      BY <2>1 DEF Books, PendingIsWanted
    <2> QED
      BY <2>1, <2>2, <2>3, <2>4, <2>5
         DEF Books, PendingIsWanted, NewIsUntouched, ToldWasPaid
  <1> QED
    BY <1>1, <1>2

\* A confirmation says what Stripe or the mock says.
LEMMA ConfirmBooks ==
    ASSUME Books, NEW i \in Intent,
           \/ ConfirmMock(i) \/ ConfirmShort(i) \/ ConfirmCall(i)
           \/ ConfirmReturns(i) \/ ConfirmThrows(i)
    PROVE  Books'
  <1>1. CASE ConfirmCall(i)
    <2>1. /\ kind[i] = "stripe" /\ pending' = pending \union {<<"confirm", i>>}
          /\ UNCHANGED <<stripeOn, kind, mock, mockTimers, money, told>>
      BY <1>1 DEF ConfirmCall, Begin
    <2>2. PayOK'
      BY <2>1 DEF Books, PayOK, Operation
    <2> QED
      BY <2>1, <2>2 DEF Books, PendingIsWanted, NewIsUntouched, ToldWasPaid
  <1>2. CASE ConfirmMock(i) \/ ConfirmShort(i) \/ ConfirmReturns(i) \/ ConfirmThrows(i)
    <2>1. /\ pending' \subseteq pending
          /\ \/ told' = told
             \/ /\ told' = told \union {<<"confirmed", i>>}
                /\ \/ kind[i] = "mock"
                   \/ kind[i] = "stripe" /\ money[i] # "none"
          /\ UNCHANGED <<stripeOn, kind, mock, mockTimers, money>>
      BY <1>2 DEF ConfirmMock, ConfirmShort, ConfirmReturns, ConfirmThrows, Tell, End,
                  payVars, Books, PendingIsWanted
    <2>2. PayOK'
      BY <2>1 DEF Books, PayOK
    <2> QED
      BY <2>1, <2>2 DEF Books, PendingIsWanted, NewIsUntouched, ToldWasPaid
  <1> QED
    BY <1>1, <1>2

\* A refund is one of a confirmed intent, and deletes a mock.
LEMMA RefundBooks ==
    ASSUME Books, NEW i \in Intent,
           \/ RefundMock(i) \/ RefundShort(i) \/ RefundCall(i)
           \/ RefundReturns(i) \/ RefundThrows(i)
    PROVE  Books'
  <1>1. CASE RefundCall(i)
    <2>1. /\ kind[i] = "stripe" /\ pending' = pending \union {<<"refund", i>>}
          /\ <<"confirmed", i>> \in told
          /\ UNCHANGED <<stripeOn, kind, mock, mockTimers, money, told>>
      BY <1>1 DEF RefundCall, Begin, Confirmed
    <2>2. PayOK'
      BY <2>1 DEF Books, PayOK, Operation
    <2> QED
      BY <2>1, <2>2 DEF Books, PendingIsWanted, NewIsUntouched, ToldWasPaid
  <1>2. CASE RefundMock(i)
    <2>1. /\ kind[i] = "mock" /\ <<"confirmed", i>> \in told
          /\ told' = told \/ told' = told \union {<<"refunded", i>>}
          /\ mock' = [mock EXCEPT ![i] = "absent"]
          /\ UNCHANGED <<stripeOn, kind, mockTimers, money, pending>>
      BY <1>2 DEF RefundMock, Confirmed, Tell
    <2>2. PayOK'
      BY <2>1 DEF Books, PayOK
    <2> QED
      BY <2>1, <2>2 DEF Books, PayOK, PendingIsWanted, NewIsUntouched,
                        ToldWasPaid
  <1>3. CASE RefundShort(i) \/ RefundReturns(i) \/ RefundThrows(i)
    <2>1. /\ kind[i] = "stripe" /\ <<"confirmed", i>> \in told
          /\ pending' \subseteq pending
          /\ told' = told \/ told' = told \union {<<"refunded", i>>}
          /\ money' = money \/ money' = [money EXCEPT ![i] = "refunded"]
          /\ UNCHANGED <<stripeOn, kind, mock, mockTimers>>
      BY <1>3 DEF RefundShort, RefundReturns, RefundThrows, Confirmed, Tell, End, Books,
                  PendingIsWanted
    <2>2. PayOK'
      BY <2>1 DEF Books, PayOK
    <2>3. money[i] # "none" /\ \A j \in Intent : money[j] # "none" => money'[j] # "none"
      BY <2>1 DEF Books, PayOK, ToldWasPaid
    <2> QED
      BY <2>1, <2>2, <2>3 DEF Books, PendingIsWanted, NewIsUntouched,
                              ToldWasPaid
  <1> QED
    BY <1>1, <1>2, <1>3

\* Timers, the customer and restarts make no answer.
LEMMA RestBooks ==
    ASSUME Books,
           \/ \E i \in Intent : MockTimer(i) \/ CustomerPays(i)
           \/ CircuitTime \/ RestartService
    PROVE  Books'
  <1>1. CASE \E i \in Intent : MockTimer(i) \/ CustomerPays(i)
    <2>1. /\ mock' \in [Intent -> {"absent", "waiting", "succeeded"}]
          /\ \A j \in Intent : mock[j] = "absent" => mock'[j] = "absent"
          /\ mockTimers' \in SUBSET Intent
          /\ money' \in [Intent -> {"none", "paid", "refunded"}]
          /\ \A j \in Intent : money[j] # "none" => money'[j] # "none"
          /\ UNCHANGED <<stripeOn, kind, pending, told>>
      BY <1>1 DEF MockTimer, CustomerPays, Books, PayOK
    <2>2. PayOK'
      BY <2>1 DEF Books, PayOK
    <2> QED
      BY <2>1, <2>2 DEF Books, PendingIsWanted, NewIsUntouched, ToldWasPaid
  <1>2. CASE CircuitTime
    BY <1>2 DEF CircuitTime, payVars, Books, PayOK, PendingIsWanted, NewIsUntouched,
                ToldWasPaid
  <1>3. CASE RestartService
    <2>1. /\ stripeOn' \in BOOLEAN
          /\ kind' = [i \in Intent |-> IF <<"create", i>> \in pending THEN "failed" ELSE kind[i]]
          /\ mock' = [i \in Intent |-> "absent"]
          /\ mockTimers' = {} /\ pending' = {}
          /\ UNCHANGED <<money, told>>
      BY <1>3 DEF RestartService
    <2>2. PayOK'
      BY <2>1 DEF Books, PayOK
    <2> QED
      BY <2>1, <2>2 DEF Books, PayOK, PendingIsWanted, NewIsUntouched,
                        ToldWasPaid
  <1> QED
    BY <1>1, <1>2, <1>3

LEMMA PInvIsBooks == PInv <=> IInv /\ Books /\ failed \in 0..Threshold /\ FewFailuresKeepClosed
  <1>1. PaymentTypeOK <=> TypeOK /\ PayOK /\ failed \in 0..Threshold
    BY DEF PaymentTypeOK, PayOK
  <1> QED
    BY <1>1, ToldOnlyIfPaidMeans DEF PInv, Books, IInv

\* It takes Threshold failed calls to open the circuit.
LEMMA FailuresAreCounted ==
    ASSUME IInv, failed \in 0..Threshold, FewFailuresKeepClosed, PaymentNext
    PROVE  failed' \in 0..Threshold /\ FewFailuresKeepClosed'
  <1> USE ThresholdAssumption DEF FewFailuresKeepClosed
  <1>1. failures \in Nat /\ timers \in Nat
    BY DEF IInv, TypeOK
  <1>2. ASSUME ShortCircuit \/ Call \/ OnSuccess \/ UNCHANGED vars, UNCHANGED failed
        PROVE  failed' \in 0..Threshold /\ FewFailuresKeepClosed'
    BY <1>1, <1>2 DEF ShortCircuit, Call, OnSuccess, vars
  <1>3. ASSUME NEW i \in Intent, Asks(i) \/ Returns(i) \/ MockTimer(i) \/ CustomerPays(i)
        PROVE  ShortCircuit \/ Call \/ OnSuccess \/ UNCHANGED vars
    BY <1>3 DEF Asks, CreateUnconfigured, CreateShort, CreateCall, ConfirmMock, ConfirmShort,
                ConfirmCall, RefundMock, RefundShort, RefundCall, Returns, CreateReturns,
                ConfirmReturns, RefundReturns, MockTimer, CustomerPays, circuit
  <1>4. CASE CircuitTime /\ UNCHANGED failed
    BY <1>1, <1>4 DEF CircuitTime, ResetTimer, TimeoutPasses
  <1>5. CASE RestartService /\ failed' = 0
    BY <1>5 DEF RestartService, Restart
  <1>6. CASE /\ \E i \in Intent : Throws(i)
             /\ failed' = IF failed < Threshold THEN failed + 1 ELSE failed
    <2>1. OnFailure
      BY <1>6 DEF Throws, CreateThrows, ConfirmThrows, RefundThrows
    <2>2. CASE failed' < Threshold
      <3>1. failed < Threshold /\ failed' = failed + 1
        BY <1>6, <2>2
      <3>2. /\ state = "CLOSED" /\ timers = 0 /\ failures <= failed
            /\ ~ (failures + 1 >= Threshold)
        BY <1>1, <2>2, <3>1
      <3>3. failures' = failures + 1 /\ state' = state /\ timers' = timers
        BY <2>1, <3>2 DEF OnFailure
      <3> QED
        BY <1>1, <3>1, <3>2, <3>3
    <2>3. CASE ~ (failed' < Threshold)
      BY <1>6, <2>3
    <2> QED
      BY <2>2, <2>3
  <1> QED
    BY <1>2, <1>3, <1>4, <1>5, <1>6 DEF PaymentNext

LEMMA InitPInv == PaymentInit => PInv
  <1> SUFFICES ASSUME PaymentInit
               PROVE  IInv /\ Books /\ failed \in 0..Threshold /\ FewFailuresKeepClosed
    BY PInvIsBooks
  <1>1. IInv
    BY InitIInv DEF PaymentInit
  <1>2. failed \in 0..Threshold /\ FewFailuresKeepClosed
    BY ThresholdAssumption DEF PaymentInit, Init, FewFailuresKeepClosed
  <1> QED
    BY <1>1, <1>2 DEF PaymentInit, Books, PayOK, PendingIsWanted, NewIsUntouched,
                ToldWasPaid

LEMMA NextPInv == PInv /\ [PaymentNext]_paymentVars => PInv'
  <1> SUFFICES ASSUME PInv, [PaymentNext]_paymentVars PROVE PInv'
    OBVIOUS
  <1>1. IInv /\ Books /\ failed \in 0..Threshold /\ FewFailuresKeepClosed
    BY PInvIsBooks
  <1>2. IInv'
    BY <1>1, StepImplementsCircuit, NextIInv
  <1>3. Books'
    <2>1. CASE UNCHANGED paymentVars
      BY <1>1, <2>1 DEF paymentVars, Books, PayOK, PendingIsWanted, NewIsUntouched,
                        ToldWasPaid
    <2>2. CASE PaymentNext
      BY <1>1, <2>2, CreateBooks, ConfirmBooks, RefundBooks, RestBooks
         DEF PaymentNext, Asks, Returns, Throws
    <2> QED
      BY <2>1, <2>2
  <1>6. failed' \in 0..Threshold /\ FewFailuresKeepClosed'
    <2>1. CASE UNCHANGED paymentVars
      BY <1>1, <2>1 DEF paymentVars, FewFailuresKeepClosed
    <2> QED
      BY <1>1, <2>1, FailuresAreCounted
  <1>4. ToldOnlyIfPaid' <=> ToldWasPaid'
    BY ToldOnlyIfPaidMeans, PTL
  <1>5. PaymentTypeOK'
    BY <1>2, <1>3, <1>6 DEF IInv, Books, PaymentTypeOK, PayOK
  <1> QED
    BY <1>2, <1>3, <1>4, <1>5, <1>6 DEF PInv, Books

\* The inductive invariant holds in every reachable state.
THEOREM PaymentInvariance == PaymentSpec => []PInv
  BY InitPInv, NextPInv, PTL DEF PaymentSpec

\* Every variable of the payments keeps its type.
THEOREM PaymentTypeCorrect == PaymentSpec => []PaymentTypeOK
  <1>1. PInv => PaymentTypeOK
    BY DEF PInv
  <1> QED
    BY <1>1, PaymentInvariance, PTL

\* A mock intent whose entry is gone is never heard of again.
THEOREM GoneMockIsGone == PaymentSpec => GoneMockIsFinal
  <1>1. Books /\ [PaymentNext]_paymentVars =>
          [\A i \in Intent :
             kind[i] = "mock" /\ mock[i] = "absent" =>
                /\ mock'[i] = "absent"
                /\ \A what \in {"confirmed", "refunded"} :
                      <<what, i>> \in told' => <<what, i>> \in told]_paymentVars
    <2> SUFFICES ASSUME Books, PaymentNext,
                        NEW i \in Intent, kind[i] = "mock", mock[i] = "absent"
                 PROVE  /\ mock'[i] = "absent"
                        /\ \A what \in {"confirmed", "refunded"} :
                              <<what, i>> \in told' => <<what, i>> \in told
      OBVIOUS
    <2>1. ASSUME NEW j \in Intent,
                 \/ CreateUnconfigured(j) \/ CreateShort(j) \/ CreateCall(j)
                 \/ CreateReturns(j) \/ CreateThrows(j)
          PROVE  j # i /\ told' = told /\ (mock' = mock \/ mock' = [mock EXCEPT ![j] = "waiting"])
      BY <2>1 DEF CreateUnconfigured, CreateShort, CreateCall, CreateReturns, CreateThrows,
                  NewMock, Wanted, End, Begin, Books, PendingIsWanted
    <2>2. ASSUME NEW j \in Intent,
                 \/ ConfirmShort(j) \/ ConfirmCall(j) \/ RefundCall(j)
                 \/ CustomerPays(j) \/ CircuitTime
          PROVE  UNCHANGED <<mock, told>>
      BY <2>2 DEF ConfirmShort, ConfirmCall, RefundCall, CustomerPays, CircuitTime, payVars
    <2>3. ASSUME NEW j \in Intent,
                 \/ ConfirmReturns(j) \/ ConfirmThrows(j)
                 \/ RefundShort(j) \/ RefundReturns(j) \/ RefundThrows(j)
          PROVE  /\ j # i /\ mock' = mock
                 /\ \E what \in {"confirmed", "refunded"} : told' \subseteq told \union {<<what, j>>}
      BY <2>3 DEF ConfirmReturns, ConfirmThrows, RefundShort, RefundReturns, RefundThrows,
                  Tell, End, Books, PendingIsWanted
    <2>4. ASSUME NEW j \in Intent, ConfirmMock(j) \/ RefundMock(j)
          PROVE  /\ mock' = mock \/ mock' = [mock EXCEPT ![j] = "absent"]
                 /\ \/ told' = told
                    \/ j # i /\ \E what \in {"confirmed", "refunded"} :
                                   told' = told \union {<<what, j>>}
      BY <2>4 DEF ConfirmMock, RefundMock, Tell
    <2>5. ASSUME NEW j \in Intent, MockTimer(j)
          PROVE  told' = told /\ mock'[i] = "absent"
      BY <2>5 DEF MockTimer, Books, PayOK
    <2>6. ASSUME RestartService
          PROVE  told' = told /\ mock'[i] = "absent"
      BY <2>6 DEF RestartService
    <2> QED
      BY <2>1, <2>2, <2>3, <2>4, <2>5, <2>6 
         DEF PaymentNext, Asks, Returns, Throws, Books, PayOK
  <1>2. PInv => Books
    BY PInvIsBooks
  <1> QED
    BY <1>1, <1>2, PaymentInvariance, PTL DEF PaymentSpec, GoneMockIsFinal

\* BookingsService is told of no Stripe payment or refund that was not paid.
THEOREM ToldOfPaidOnly == PaymentSpec => []ToldOnlyIfPaid
  <1>1. PInv => ToldOnlyIfPaid
    BY DEF PInv
  <1> QED
    BY <1>1, PaymentInvariance, PTL

\* The circuit that all payments share is never stuck open.
THEOREM PaymentsNeverStuckOpen == PaymentSpec => []OpenHasTimer
  <1>1. PInv => OpenHasTimer
    BY DEF PInv, IInv
  <1> QED
    BY <1>1, PaymentInvariance, PTL

\* Nothing stands in for Stripe in a process with fewer failed calls than open
\* the circuit.
THEOREM StandInsNeedAnOutage == PaymentSpec => StandInOnlyInOutage
  <1>1. PInv /\ [PaymentNext]_paymentVars =>
          [stripeOn /\ failed < Threshold =>
             \A i \in Intent :
                /\ kind'[i] = "mock" => kind[i] = "mock"
                /\ kind[i] = "stripe" /\ <<"refunded", i>> \in told' =>
                      <<"refunded", i>> \in told \/ money'[i] = "refunded"]_paymentVars
    <2> SUFFICES ASSUME PInv, PaymentNext, stripeOn, failed < Threshold, NEW i \in Intent
                 PROVE  /\ kind'[i] = "mock" => kind[i] = "mock"
                        /\ kind[i] = "stripe" /\ <<"refunded", i>> \in told' =>
                              <<"refunded", i>> \in told \/ money'[i] = "refunded"
      OBVIOUS
    <2>1. state = "CLOSED" /\ ~ ShortCircuit /\ Books
      BY PInvIsBooks DEF PInv, FewFailuresKeepClosed, ShortCircuit
    <2>2. ASSUME NEW j \in Intent,
                 \/ CreateUnconfigured(j) \/ CreateShort(j) \/ ConfirmShort(j) \/ RefundShort(j)
          PROVE  FALSE
      BY <2>1, <2>2 DEF CreateUnconfigured, CreateShort, ConfirmShort, RefundShort
    <2>3. ASSUME NEW j \in Intent,
                 \/ CreateCall(j) \/ ConfirmMock(j) \/ ConfirmCall(j) \/ RefundCall(j)
                 \/ ConfirmReturns(j) \/ ConfirmThrows(j) \/ MockTimer(j) \/ CustomerPays(j)
          PROVE  /\ kind' = kind
                 /\ told' = told \/ told' = told \union {<<"confirmed", j>>}
      BY <2>3 DEF CreateCall, ConfirmMock, ConfirmCall, RefundCall, ConfirmReturns,
                  ConfirmThrows, MockTimer, CustomerPays, Tell
    <2>4. ASSUME NEW j \in Intent, RefundMock(j)
          PROVE  /\ kind' = kind /\ kind[j] = "mock"
                 /\ told' = told \/ told' = told \union {<<"refunded", j>>}
      BY <2>4 DEF RefundMock, Tell
    <2>5. ASSUME NEW j \in Intent, RefundReturns(j)
          PROVE  /\ kind' = kind
                 /\ money' = [money EXCEPT ![j] = "refunded"]
                 /\ told' = told \union {<<"refunded", j>>}
      BY <2>5 DEF RefundReturns, Tell
    <2>6. ASSUME NEW j \in Intent, CreateReturns(j)
          PROVE  told' = told /\ kind' = [kind EXCEPT ![j] = "stripe"]
      BY <2>6 DEF CreateReturns
    <2>7. OnFailure => state' # "HALF_OPEN"
      BY <2>1 DEF OnFailure
    <2>8. ASSUME NEW j \in Intent, CreateThrows(j)
          PROVE  told' = told /\ kind' = [kind EXCEPT ![j] = "failed"]
      BY <2>7, <2>8 DEF CreateThrows
    <2>9. ASSUME NEW j \in Intent, RefundThrows(j)
          PROVE  told' = told /\ kind' = kind
      BY <2>7, <2>9 DEF RefundThrows, Tell
    <2>10. CASE CircuitTime
      BY <2>10 DEF CircuitTime, payVars
    <2>11. CASE RestartService
      BY <2>11 DEF RestartService
    <2>12. kind \in [Intent -> {"none", "stripe", "mock", "failed"}]
           /\ money \in [Intent -> {"none", "paid", "refunded"}]
      BY <2>1 DEF Books, PayOK
    <2>13. CASE \E j \in Intent : CreateReturns(j) \/ CreateThrows(j)
      BY <2>6, <2>8, <2>12, <2>13
    <2>14. CASE \E j \in Intent : RefundMock(j) \/ RefundReturns(j) \/ RefundThrows(j)
      BY <2>4, <2>5, <2>9, <2>12, <2>14
    <2>15. CASE \E j \in Intent :
                  \/ CreateCall(j) \/ ConfirmMock(j) \/ ConfirmCall(j) \/ RefundCall(j)
                  \/ ConfirmReturns(j) \/ ConfirmThrows(j) \/ MockTimer(j) \/ CustomerPays(j)
      BY <2>3, <2>15
    <2> QED
      BY <2>2, <2>10, <2>11, <2>13, <2>14, <2>15 DEF PaymentNext, Asks, Returns, Throws
  <1> QED
    BY <1>1, PaymentInvariance, PTL DEF PaymentSpec, StandInOnlyInOutage

-----------------------------------------------------------------------------
(* The mail queue. *)

\* The part of QueueTypeOK that is about the mails.
MailOK ==
    /\ job \in [Mail -> JobState]
    /\ attempts \in [Mail -> 0..Attempts]
    /\ stalls \in [Mail -> 0..(MaxStalls + 1)]
    /\ delivered \in [Mail -> Nat]
    /\ skipped \in SUBSET Mail
    /\ inDoubt \in SUBSET Mail

\* A job that has not ended has an attempt left, and one that has not failed
\* has not stalled too often.
HasAttemptsLeft ==
    \A m \in Mail :
        /\ job[m] \notin {"done", "failed"} => attempts[m] < Attempts
        /\ job[m] # "failed" => stalls[m] <= MaxStalls

\* A mail that has arrived although its job is not done arrived in doubt.
EarlyIsInDoubt ==
    \A m \in Mail : job[m] # "done" /\ delivered[m] > 0 => m \in inDoubt

\* A circuit that is not closed, or has a timer pending, has opened.
HasOpened ==
    /\ opened \in BOOLEAN
    /\ state # "CLOSED" \/ timers # 0 => opened = TRUE

Mails == MailOK /\ HasAttemptsLeft /\ EarlyIsInDoubt /\ FailedHadItsAttempts /\ MailedOnce

QInv == IInv /\ HasOpened /\ Mails

-----------------------------------------------------------------------------
(* Its circuit. *)

\* Every step of the queue is a step of the circuit or leaves it alone.
LEMMA QueueStepIsCircuitStep == [QueueNext]_queueVars => [Next]_vars
  <1> SUFFICES ASSUME QueueNext, ~ UNCHANGED vars PROVE Next
    BY DEF queueVars, vars
  <1>1. ASSUME NEW m \in Mail, Queue(m) \/ BackoffEnds(m)
        PROVE  FALSE
    BY <1>1 DEF Queue, BackoffEnds
  <1>2. ASSUME NEW m \in Mail, SkipMail(m) \/ SendMail(m) \/ SendReturns(m) \/ SendThrows(m)
        PROVE  Next
    BY <1>2 DEF SkipMail, SendMail, SendReturns, SendThrows, Next
  <1>3. CASE MailCircuitTime \/ RestartWorkers
    BY <1>3 DEF MailCircuitTime, RestartWorkers, Next
  <1> QED
    BY <1>1, <1>2, <1>3 DEF QueueNext, Handle

\* The ghost of the circuit's openings remembers every opening.
LEMMA OpeningIsNoted ==
    ASSUME IInv, HasOpened, [QueueNext]_queueVars
    PROVE  HasOpened'
  <1>1. CASE UNCHANGED queueVars
    BY <1>1 DEF queueVars, HasOpened
  <1>2. ASSUME NEW m \in Mail, Queue(m) \/ BackoffEnds(m) \/ SkipMail(m) \/ SendMail(m)
        PROVE  HasOpened'
    BY <1>2 DEF Queue, BackoffEnds, SkipMail, SendMail, vars, ShortCircuit, Call, HasOpened
  <1>3. ASSUME NEW m \in Mail, SendReturns(m)
        PROVE  HasOpened'
    BY <1>3 DEF SendReturns, OnSuccess, HasOpened
  <1>4. ASSUME NEW m \in Mail, SendThrows(m)
        PROVE  HasOpened'
    BY <1>4 DEF SendThrows, OnFailure, NoteOpening, HasOpened
  <1>5. CASE MailCircuitTime
    BY <1>5 DEF MailCircuitTime, ResetTimer, TimeoutPasses, HasOpened, IInv, TypeOK
  <1>6. CASE RestartWorkers
    BY <1>6 DEF RestartWorkers, Restart, HasOpened
  <1> QED
    BY <1>1, <1>2, <1>3, <1>4, <1>5, <1>6 DEF QueueNext, Handle

-----------------------------------------------------------------------------
(* The mails. *)

\* A mail that is queued, taken up, or waited for changes its place only.
LEMMA MovingMails ==
    ASSUME Mails, NEW m \in Mail, Queue(m) \/ BackoffEnds(m) \/ SendMail(m)
    PROVE  Mails'
  <1>1. /\ job[m] \in {"none", "delayed", "waiting"}
        /\ \E to \in {"waiting", "active"} : job' = [job EXCEPT ![m] = to]
        /\ UNCHANGED <<attempts, stalls, delivered, skipped, inDoubt>>
    BY DEF Queue, BackoffEnds, SendMail, Move
  <1>2. MailOK'
    BY <1>1 DEF Mails, MailOK, JobState
  <1> QED
    BY <1>1, <1>2 DEF Mails, MailOK, HasAttemptsLeft, EarlyIsInDoubt,
                      FailedHadItsAttempts, MailedOnce

\* An answered call, or the fallback, ends the job.
LEMMA EndingMails ==
    ASSUME Mails, NEW m \in Mail, SkipMail(m) \/ SendReturns(m)
    PROVE  Mails'
  <1>1. /\ job[m] \in {"waiting", "active"}
        /\ job' = [job EXCEPT ![m] = "done"]
        /\ UNCHANGED <<attempts, stalls, inDoubt>>
        /\ \/ delivered' = delivered /\ skipped' = skipped \union {m}
           \/ /\ delivered' = [j \in Mail |-> IF j \in {m} THEN delivered[j] + 1 ELSE delivered[j]]
              /\ skipped' = skipped
    BY DEF SkipMail, SendReturns, Move, Deliver
  <1>2. MailOK'
    BY <1>1 DEF Mails, MailOK, JobState
  <1> QED
    BY <1>1, <1>2 DEF Mails, MailOK, HasAttemptsLeft, EarlyIsInDoubt,
                      FailedHadItsAttempts, MailedOnce

\* A call that throws uses an attempt, the last of which fails the job; with
\* the circuit half-open it ends the job.
LEMMA ThrowingMails ==
    ASSUME Mails, NEW m \in Mail, SendThrows(m)
    PROVE  Mails'
  <1> USE QueueAssumption
  <1>1. PICK arrived \in SUBSET {m} :
             /\ delivered' = [j \in Mail |-> IF j \in arrived THEN delivered[j] + 1 ELSE delivered[j]]
             /\ inDoubt' = inDoubt \union arrived
    BY DEF SendThrows, MayHaveArrived, Deliver
  <1>2. job[m] = "active" /\ stalls' = stalls
    BY DEF SendThrows, Skip, Retry, Move
  <1>3. CASE Skip(m)
    <2>1. MailOK'
      BY <1>1, <1>2, <1>3 DEF Skip, Move, Mails, MailOK, JobState
    <2> QED
      BY <1>1, <1>2, <1>3, <2>1 DEF Skip, Move, Mails, MailOK, HasAttemptsLeft,
                      EarlyIsInDoubt, FailedHadItsAttempts, MailedOnce
  <1>4. CASE Retry(m)
    <2>1. attempts[m] < Attempts /\ attempts' = [attempts EXCEPT ![m] = attempts[m] + 1]
      BY <1>2, <1>4 DEF Retry, Mails, HasAttemptsLeft
    <2>2. attempts[m] + 1 \in 0..Attempts /\ attempts'[m] = attempts[m] + 1
      BY <2>1 DEF Mails, MailOK
    <2>3. /\ job' = [job EXCEPT ![m] = IF attempts'[m] < Attempts THEN "delayed" ELSE "failed"]
          /\ skipped' = skipped
      BY <1>4 DEF Retry, Move
    <2>4. MailOK'
      BY <1>1, <1>2, <2>1, <2>2, <2>3 DEF Mails, MailOK, JobState
    <2> QED
      BY <1>1, <1>2, <2>1, <2>2, <2>3, <2>4 DEF Mails, MailOK, HasAttemptsLeft,
                      EarlyIsInDoubt, FailedHadItsAttempts, MailedOnce
  <1> QED
    BY <1>3, <1>4 DEF SendThrows

\* A restart stalls the jobs that were being handled.
LEMMA StallingMails ==
    ASSUME Mails, RestartWorkers
    PROVE  Mails'
  <1> USE QueueAssumption
  <1>1. PICK arrived \in SUBSET Active :
             /\ delivered' = [j \in Mail |-> IF j \in arrived THEN delivered[j] + 1 ELSE delivered[j]]
             /\ inDoubt' = inDoubt \union arrived
    BY DEF RestartWorkers, MayHaveArrived, Deliver
  <1>2. /\ stalls' = [m \in Mail |-> IF m \in Active THEN stalls[m] + 1 ELSE stalls[m]]
        /\ job' = [m \in Mail |->
                      CASE m \notin Active -> job[m]
                        [] m \in Active /\ stalls[m] < MaxStalls -> "waiting"
                        [] OTHER -> "failed"]
        /\ UNCHANGED <<attempts, skipped>>
    BY DEF RestartWorkers, Stalled
  <1>3. \A m \in Active : m \in Mail /\ job[m] = "active" /\ stalls[m] <= MaxStalls
    BY DEF Active, Mails, HasAttemptsLeft
  <1>4. \A m \in Mail :
           /\ m \notin Active => job'[m] = job[m] /\ stalls'[m] = stalls[m]
           /\ m \in Active =>
                 /\ job'[m] = IF stalls[m] < MaxStalls THEN "waiting" ELSE "failed"
                 /\ stalls'[m] = stalls[m] + 1
    BY <1>2
  <1>5. MailOK'
    BY <1>1, <1>2, <1>3 DEF Mails, MailOK, JobState
  <1> QED
    BY <1>1, <1>2, <1>3, <1>4, <1>5 DEF Mails, MailOK, HasAttemptsLeft,
                      EarlyIsInDoubt, FailedHadItsAttempts, MailedOnce

LEMMA InitQInv == QueueInit => QInv
  <1> SUFFICES ASSUME QueueInit PROVE QInv
    OBVIOUS
  <1>1. IInv
    BY InitIInv DEF QueueInit
  <1>2. HasOpened
    BY DEF QueueInit, Init, HasOpened
  <1>3. Mails
    BY QueueAssumption
       DEF QueueInit, Mails, MailOK, JobState, HasAttemptsLeft, EarlyIsInDoubt,
           FailedHadItsAttempts, MailedOnce
  <1> QED
    BY <1>1, <1>2, <1>3 DEF QInv

LEMMA NextQInv == QInv /\ [QueueNext]_queueVars => QInv'
  <1> SUFFICES ASSUME QInv, [QueueNext]_queueVars PROVE QInv'
    OBVIOUS
  <1>1. IInv'
    BY QueueStepIsCircuitStep, NextIInv DEF QInv
  <1>2. HasOpened'
    BY OpeningIsNoted DEF QInv
  <1>3. Mails'
    <2>1. CASE UNCHANGED mailVars
      BY <2>1 DEF mailVars, QInv, Mails, MailOK, HasAttemptsLeft, EarlyIsInDoubt,
                  FailedHadItsAttempts, MailedOnce
    <2>2. CASE QueueNext /\ ~ UNCHANGED mailVars
      BY <2>2, MovingMails, EndingMails, ThrowingMails, StallingMails
         DEF QueueNext, Handle, MailCircuitTime, QInv
    <2> QED
      BY <2>1, <2>2 DEF queueVars, mailVars
  <1> QED
    BY <1>1, <1>2, <1>3 DEF QInv

\* The inductive invariant holds in every reachable state.
THEOREM QueueInvariance == QueueSpec => []QInv
  BY InitQInv, NextQInv, PTL DEF QueueSpec

\* Every variable of the queue keeps its type.
THEOREM QueueTypeCorrect == QueueSpec => []QueueTypeOK
  <1>1. QInv => QueueTypeOK
    BY DEF QInv, IInv, HasOpened, Mails, MailOK, QueueTypeOK
  <1> QED
    BY <1>1, QueueInvariance, PTL

\* A job fails by its attempts or by its stalls only.
THEOREM FailedAfterAttempts == QueueSpec => []FailedHadItsAttempts
  <1>1. QInv => FailedHadItsAttempts
    BY DEF QInv, Mails
  <1> QED
    BY <1>1, QueueInvariance, PTL

\* No mail is sent twice without doubt.
THEOREM MailedOnceHolds == QueueSpec => []MailedOnce
  <1>1. QInv => MailedOnce
    BY DEF QInv, Mails
  <1> QED
    BY <1>1, QueueInvariance, PTL

\* A process whose circuit never opened skips no mail.
THEOREM SkippedInOutage == QueueSpec => SkippedOnlyInOutage
  <1>1. QInv /\ [QueueNext]_queueVars => [skipped' # skipped => opened = TRUE]_queueVars
    <2> SUFFICES ASSUME QInv, QueueNext, skipped' # skipped PROVE opened = TRUE
      OBVIOUS
    <2>1. ASSUME NEW m \in Mail, Queue(m) \/ BackoffEnds(m) \/ SendMail(m) \/ SendReturns(m)
          PROVE  opened = TRUE
      BY <2>1 DEF Queue, BackoffEnds, SendMail, SendReturns
    <2>2. ASSUME NEW m \in Mail, SkipMail(m)
          PROVE  opened = TRUE
      BY <2>2 DEF SkipMail, ShortCircuit, QInv, HasOpened
    <2>3. ASSUME NEW m \in Mail, SendThrows(m)
          PROVE  opened = TRUE
      BY <2>3 DEF SendThrows, OnFailure, Retry, QInv, HasOpened
    <2>4. CASE MailCircuitTime \/ RestartWorkers
      BY <2>4 DEF MailCircuitTime, mailVars, RestartWorkers
    <2> QED
      BY <2>1, <2>2, <2>3, <2>4 DEF QueueNext, Handle
  <1> QED
    BY <1>1, QueueInvariance, PTL DEF QueueSpec, SkippedOnlyInOutage
=============================================================================
