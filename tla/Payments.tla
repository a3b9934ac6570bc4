------------------------------ MODULE Payments -------------------------------
(***************************************************************************)
(* PaymentService: payment intents at Stripe, behind the circuit breaker,  *)
(* and mock intents, which live in the memory of the process and are what  *)
(* a booking gets when Stripe is not configured or its circuit is open.    *)
(*                                                                         *)
(* An intent is identified by the booking it is created for.  Stripe is    *)
(* external: a call to it succeeds or fails, and it keeps the money.       *)
(* Confirmations and refunds come from BookingsService in any order; of    *)
(* each kind one at a time is in flight for an intent, and a refund is     *)
(* asked for only once the intent has been confirmed.                      *)
(***************************************************************************)
EXTENDS CircuitBreaker, FiniteSets

CONSTANTS Intent    \* the bookings that need a payment intent

ASSUME IntentAssumption == IsFiniteSet(Intent)

VARIABLES
    stripeOn,   \* whether this process has a Stripe client
    kind,       \* what the booking's paymentIntentId names
    mock,       \* the entry of mockPayments
    mockTimers, \* mock intents whose auto-succeed timer is pending
    money,      \* the customer's money, at Stripe
    pending,    \* calls to Stripe in flight: operation and intent
    told,       \* what BookingsService was told: <<"confirmed" or "refunded", i>>
    failed      \* ghost: failed calls to Stripe of this process, up to Threshold

payVars == <<stripeOn, kind, mock, mockTimers, money, pending, told>>
paymentVars == <<state, failures, outdated, timers, inFlight, calls, consecutive,
                 stripeOn, kind, mock, mockTimers, money, pending, told, failed>>

circuit == vars

Operation == {"create", "confirm", "refund"}

PaymentTypeOK ==
    /\ TypeOK
    /\ stripeOn \in BOOLEAN
    /\ kind \in [Intent -> {"none", "stripe", "mock", "failed"}]
    /\ mock \in [Intent -> {"absent", "waiting", "succeeded"}]
    /\ mockTimers \in SUBSET Intent
    /\ money \in [Intent -> {"none", "paid", "refunded"}]
    /\ pending \in SUBSET (Operation \X Intent)
    /\ told \in SUBSET ({"confirmed", "refunded"} \X Intent)
    /\ failed \in 0..Threshold

PaymentInit ==
    /\ Init
    /\ stripeOn \in BOOLEAN
    /\ kind = [i \in Intent |-> "none"]
    /\ mock = [i \in Intent |-> "absent"]
    /\ mockTimers = {}
    /\ money = [i \in Intent |-> "none"]
    /\ pending = {}
    /\ told = {}
    /\ failed = 0

Begin(op, i) == <<op, i>> \notin pending /\ pending' = pending \union {<<op, i>>}

End(op, i) == <<op, i>> \in pending /\ pending' = pending \ {<<op, i>>}

Tell(what, i, truth) == told' = IF truth THEN told \union {<<what, i>>} ELSE told

-----------------------------------------------------------------------------
(* createPaymentIntent. *)

Wanted(i) == kind[i] = "none" /\ <<"create", i>> \notin pending

\* createMockPaymentIntent.
NewMock(i) ==
    /\ kind' = [kind EXCEPT ![i] = "mock"]
    /\ mock' = [mock EXCEPT ![i] = "waiting"]
    /\ mockTimers' = mockTimers \union {i}

\* Without a Stripe client every intent is a mock.
CreateUnconfigured(i) ==
    /\ Wanted(i)
    /\ ~stripeOn
    /\ NewMock(i)
    /\ UNCHANGED <<circuit, stripeOn, money, pending, told>>

\* The circuit is open: the fallback makes a mock.
CreateShort(i) ==
    /\ Wanted(i)
    /\ stripeOn
    /\ ShortCircuit
    /\ NewMock(i)
    /\ UNCHANGED <<stripeOn, money, pending, told>>

CreateCall(i) ==
    /\ Wanted(i)
    /\ stripeOn
    /\ Call
    /\ Begin("create", i)
    /\ UNCHANGED <<stripeOn, kind, mock, mockTimers, money, told>>

CreateReturns(i) ==
    /\ End("create", i)
    /\ OnSuccess
    /\ kind' = [kind EXCEPT ![i] = "stripe"]
    /\ UNCHANGED <<stripeOn, mock, mockTimers, money, told>>

\* Mutant: the fallback answers whenever the call fails.
CreateThrowsIntoMock(i) ==
    /\ End("create", i)
    /\ OnFailure
    /\ NewMock(i)
    /\ UNCHANGED <<stripeOn, money, told>>

\* execute calls the fallback after a failure only if the circuit is half-open
\* then; otherwise "Failed to initialize payment".
CreateThrows(i) ==
    /\ End("create", i)
    /\ OnFailure
    /\ IF state' = "HALF_OPEN"
       THEN NewMock(i)
       ELSE /\ kind' = [kind EXCEPT ![i] = "failed"]
            /\ UNCHANGED <<mock, mockTimers>>
    /\ UNCHANGED <<stripeOn, money, told>>

-----------------------------------------------------------------------------
(* confirmPayment. *)

ConfirmMock(i) ==
    /\ kind[i] = "mock"
    /\ Tell("confirmed", i, mock[i] = "succeeded")
    /\ UNCHANGED <<circuit, stripeOn, kind, mock, mockTimers, money, pending>>

\* The circuit is open: the fallback knows no Stripe intent, so it throws and
\* the answer is false.  (Without a Stripe client it is false at once.)
ConfirmShort(i) ==
    /\ kind[i] = "stripe"
    /\ stripeOn
    /\ ShortCircuit
    /\ UNCHANGED payVars

ConfirmCall(i) ==
    /\ kind[i] = "stripe"
    /\ stripeOn
    /\ Call
    /\ Begin("confirm", i)
    /\ UNCHANGED <<stripeOn, kind, mock, mockTimers, money, told>>

\* Mutant: the status of the intent is not looked at.
ConfirmReturnsTrue(i) ==
    /\ End("confirm", i)
    /\ OnSuccess
    /\ Tell("confirmed", i, TRUE)
    /\ UNCHANGED <<stripeOn, kind, mock, mockTimers, money>>

\* A refunded intent keeps the status "succeeded".
ConfirmReturns(i) ==
    /\ End("confirm", i)
    /\ OnSuccess
    /\ Tell("confirmed", i, money[i] # "none")
    /\ UNCHANGED <<stripeOn, kind, mock, mockTimers, money>>

\* With or without the fallback, which throws, the answer is false.
ConfirmThrows(i) ==
    /\ End("confirm", i)
    /\ OnFailure
    /\ UNCHANGED <<stripeOn, kind, mock, mockTimers, money, told>>

-----------------------------------------------------------------------------
(* refundPayment. *)

Confirmed(i) == <<"confirmed", i>> \in told

\* Mutant: "Mock refund always succeeds".
RefundMockUnchecked(i) ==
    /\ kind[i] = "mock"
    /\ Confirmed(i)
    /\ Tell("refunded", i, TRUE)
    /\ mock' = [mock EXCEPT ![i] = "absent"]
    /\ UNCHANGED <<circuit, stripeOn, kind, mockTimers, money, pending>>

\* refundMockPayment: the entry is deleted; without one the answer is false.
RefundMock(i) ==
    /\ kind[i] = "mock"
    /\ Confirmed(i)
    /\ Tell("refunded", i, mock[i] # "absent")
    /\ mock' = [mock EXCEPT ![i] = "absent"]
    /\ UNCHANGED <<circuit, stripeOn, kind, mockTimers, money, pending>>

\* The circuit is open: the fallback logs that somebody has to step in, and
\* the answer is true.
RefundShort(i) ==
    /\ kind[i] = "stripe"
    /\ Confirmed(i)
    /\ stripeOn
    /\ ShortCircuit
    /\ Tell("refunded", i, TRUE)
    /\ UNCHANGED <<stripeOn, kind, mock, mockTimers, money, pending>>

RefundCall(i) ==
    /\ kind[i] = "stripe"
    /\ Confirmed(i)
    /\ stripeOn
    /\ Call
    /\ Begin("refund", i)
    /\ UNCHANGED <<stripeOn, kind, mock, mockTimers, money, told>>

\* Stripe refunds the whole amount once.
RefundReturns(i) ==
    /\ End("refund", i)
    /\ money[i] = "paid"
    /\ OnSuccess
    /\ money' = [money EXCEPT ![i] = "refunded"]
    /\ Tell("refunded", i, TRUE)
    /\ UNCHANGED <<stripeOn, kind, mock, mockTimers>>

RefundThrows(i) ==
    /\ End("refund", i)
    /\ OnFailure
    /\ Tell("refunded", i, state' = "HALF_OPEN")
    /\ UNCHANGED <<stripeOn, kind, mock, mockTimers, money>>

-----------------------------------------------------------------------------
(* Timers, the customer and restarts. *)

\* Two seconds after its creation a mock intent succeeds, if it is still there.
MockTimer(i) ==
    /\ i \in mockTimers
    /\ mockTimers' = mockTimers \ {i}
    /\ mock' = [mock EXCEPT ![i] = IF @ = "absent" THEN "absent" ELSE "succeeded"]
    /\ UNCHANGED <<circuit, stripeOn, kind, money, pending, told>>

CustomerPays(i) ==
    /\ kind[i] = "stripe"
    /\ money[i] = "none"
    /\ money' = [money EXCEPT ![i] = "paid"]
    /\ UNCHANGED <<circuit, stripeOn, kind, mock, mockTimers, pending, told>>

CircuitTime == (ResetTimer \/ TimeoutPasses) /\ UNCHANGED payVars

\* The circuit, the mock intents, their timers and the calls in flight are
\* gone; a booking whose intent was being created is rolled back.
RestartService ==
    /\ Restart
    /\ stripeOn' \in BOOLEAN
    /\ kind' = [i \in Intent |-> IF <<"create", i>> \in pending THEN "failed" ELSE kind[i]]
    /\ mock' = [i \in Intent |-> "absent"]
    /\ mockTimers' = {}
    /\ pending' = {}
    /\ UNCHANGED <<money, told>>

-----------------------------------------------------------------------------
Asks(i) ==
    \/ CreateUnconfigured(i) \/ CreateShort(i) \/ CreateCall(i)
    \/ ConfirmMock(i) \/ ConfirmShort(i) \/ ConfirmCall(i)
    \/ RefundMock(i) \/ RefundShort(i) \/ RefundCall(i)

Returns(i) == CreateReturns(i) \/ ConfirmReturns(i) \/ RefundReturns(i)

Throws(i) == CreateThrows(i) \/ ConfirmThrows(i) \/ RefundThrows(i)

PaymentNext ==
    \/ /\ \/ \E i \in Intent : Asks(i) \/ Returns(i) \/ MockTimer(i) \/ CustomerPays(i)
          \/ CircuitTime
       /\ UNCHANGED failed
    \/ /\ \E i \in Intent : Throws(i)
       /\ failed' = IF failed < Threshold THEN failed + 1 ELSE failed
    \/ RestartService /\ failed' = 0

\* Node fires the reset timers that are set.  Nobody has to send a request, and
\* Stripe does not have to answer.
PaymentFairness == WF_paymentVars(ResetTimer /\ UNCHANGED <<payVars, failed>>)

PaymentSpec == PaymentInit /\ [][PaymentNext]_paymentVars /\ PaymentFairness

-----------------------------------------------------------------------------
(* Properties. *)

\* Once its entry is gone, by a refund or with the process that held it, a mock
\* intent is neither confirmed nor refunded again: racing cancellations refund
\* it once, and no timer or later request makes the lost one up.
GoneMockIsFinal ==
    [][\A i \in Intent :
         kind[i] = "mock" /\ mock[i] = "absent" =>
            /\ mock'[i] = "absent"
            /\ \A what \in {"confirmed", "refunded"} :
                  <<what, i>> \in told' => <<what, i>> \in told]_paymentVars

\* BookingsService is told that a Stripe intent succeeded, or that it was
\* refunded, only when the customer has paid; no fallback, late answer or
\* restart makes that up.
ToldOnlyIfPaid ==
    \A i \in Intent :
        kind[i] = "stripe" /\ ({"confirmed", "refunded"} \X {i}) \intersect told # {} =>
            money[i] # "none"

\* While a process has had fewer failed calls to Stripe than open the circuit,
\* nothing stands in for Stripe, whichever operations failed and in whatever
\* order they settled: no booking gets a mock intent, and no refund is reported
\* that Stripe has not made.
StandInOnlyInOutage ==
    [][stripeOn /\ failed < Threshold =>
         \A i \in Intent :
            /\ kind'[i] = "mock" => kind[i] = "mock"
            /\ kind[i] = "stripe" /\ <<"refunded", i>> \in told' =>
                  <<"refunded", i>> \in told \/ money'[i] = "refunded"]_paymentVars
=============================================================================
