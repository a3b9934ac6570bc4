--------------------------- MODULE CircuitBreaker ----------------------------
(***************************************************************************)
(* CircuitBreakerService: one named circuit of one process, with any       *)
(* number of calls in flight.                                              *)
(*                                                                         *)
(* JavaScript runs the code between two awaits without interruption, so a  *)
(* call is two steps: execute up to the await of fn(), and what follows    *)
(* when fn() settles.  Calls in flight are alike, hence counted.  Time is  *)
(* abstracted: a reset timer fires some time after it is set, and an open  *)
(* circuit becomes older than the configured timeout at some point.        *)
(***************************************************************************)
EXTENDS Integers

CONSTANTS
    Threshold,  \* failures that open the circuit
    MaxCalls    \* bound: calls made in a behaviour

ASSUME ThresholdAssumption == Threshold \in Nat \ {0}
ASSUME MaxCallsAssumption == MaxCalls \in Nat

VARIABLES
    state,          \* circuit.state
    failures,       \* circuit.failures
    outdated,       \* Date.now() - circuit.openedAt >= timeout
    timers,         \* reset timers set and not fired yet
    inFlight,       \* calls whose fn() has not settled
    calls,          \* calls of execute so far
    consecutive     \* ghost: failures in a row, in the order they settle

vars == <<state, failures, outdated, timers, inFlight, calls, consecutive>>

States == {"CLOSED", "OPEN", "HALF_OPEN"}

TypeOK ==
    /\ state \in States
    /\ failures \in Nat
    /\ outdated \in BOOLEAN
    /\ timers \in Nat
    /\ inFlight \in Nat
    /\ calls \in 0..MaxCalls
    /\ consecutive \in Nat

\* getOrCreateCircuit.
Init ==
    /\ state = "CLOSED"
    /\ failures = 0
    /\ outdated = TRUE
    /\ timers = 0
    /\ inFlight = 0
    /\ calls = 0
    /\ consecutive = 0

-----------------------------------------------------------------------------
(* execute, up to the call of fn(). *)

\* The circuit is open: the fallback answers, or an error.
ShortCircuit ==
    /\ calls < MaxCalls
    /\ state = "OPEN"
    /\ ~outdated
    /\ calls' = calls + 1
    /\ UNCHANGED <<state, failures, outdated, timers, inFlight, consecutive>>

\* The circuit is not open, or has been for so long that it is tried again.
Call ==
    /\ calls < MaxCalls
    /\ state = "OPEN" => outdated
    /\ state' = IF state = "OPEN" THEN "HALF_OPEN" ELSE state
    /\ inFlight' = inFlight + 1
    /\ calls' = calls + 1
    /\ UNCHANGED <<failures, outdated, timers, consecutive>>

-----------------------------------------------------------------------------
(* execute, after fn() has settled. *)

\* Mutant: a success in HALF_OPEN leaves the failures as they are.
OnSuccessKeepsFailures ==
    /\ inFlight > 0
    /\ inFlight' = inFlight - 1
    /\ state' = IF state = "HALF_OPEN" THEN "CLOSED" ELSE state
    /\ failures' = IF state = "CLOSED" /\ failures > 0 THEN failures - 1 ELSE failures
    /\ consecutive' = 0
    /\ UNCHANGED <<outdated, timers, calls>>

\* onSuccess: closes a half-open circuit, and forgives one failure of a closed
\* one.
OnSuccess ==
    /\ inFlight > 0
    /\ inFlight' = inFlight - 1
    /\ state' = IF state = "HALF_OPEN" THEN "CLOSED" ELSE state
    /\ failures' = CASE state = "HALF_OPEN" -> 0
                     [] state = "CLOSED" /\ failures > 0 -> failures - 1
                     [] OTHER -> failures
    /\ consecutive' = 0
    /\ UNCHANGED <<outdated, timers, calls>>

\* Mutant: a circuit that is open already sets no timer, although one of its
\* timers may be running out.
OnFailureOpensOnce ==
    /\ inFlight > 0
    /\ inFlight' = inFlight - 1
    /\ failures' = failures + 1
    /\ consecutive' = consecutive + 1
    /\ IF failures + 1 >= Threshold
       THEN /\ state' = "OPEN"
            /\ outdated' = FALSE
            /\ timers' = IF failures + 1 = Threshold THEN timers + 1 ELSE timers
       ELSE UNCHANGED <<state, outdated, timers>>
    /\ UNCHANGED calls

\* onFailure: at the threshold (and at each failure above it) the circuit
\* opens and a timer is set.
OnFailure ==
    /\ inFlight > 0
    /\ inFlight' = inFlight - 1
    /\ failures' = failures + 1
    /\ consecutive' = consecutive + 1
    /\ IF failures + 1 >= Threshold
       THEN /\ state' = "OPEN"
            /\ outdated' = FALSE
            /\ timers' = timers + 1
       ELSE UNCHANGED <<state, outdated, timers>>
    /\ UNCHANGED calls

-----------------------------------------------------------------------------
(* Time. *)

\* The callback of a timer does not look at what became of the circuit since.
ResetTimer ==
    /\ timers > 0
    /\ timers' = timers - 1
    /\ state' = "HALF_OPEN"
    /\ UNCHANGED <<failures, outdated, inFlight, calls, consecutive>>

TimeoutPasses ==
    /\ state = "OPEN"
    /\ ~outdated
    /\ outdated' = TRUE
    /\ UNCHANGED <<state, failures, timers, inFlight, calls, consecutive>>

\* The process ends; the one that takes its place knows no circuit.
Restart ==
    /\ state' = "CLOSED"
    /\ outdated' = TRUE
    /\ failures' = 0
    /\ timers' = 0
    /\ inFlight' = 0
    /\ consecutive' = 0
    /\ UNCHANGED calls

-----------------------------------------------------------------------------
Next ==
    \/ ShortCircuit \/ Call \/ OnSuccess \/ OnFailure
    \/ ResetTimer \/ TimeoutPasses \/ Restart

Spec == Init /\ [][Next]_vars

\* Node fires every timer that is set.  Nothing is assumed of the callers or
\* of the service behind the circuit.
FairSpec == Spec /\ WF_vars(ResetTimer)

-----------------------------------------------------------------------------
(* Properties. *)

\* A circuit never gets stuck open: whatever late results and stale timers
\* did to it, a timer is pending that will half-open it.
OpenHasTimer == state = "OPEN" => timers > 0

\* A closed circuit is below its threshold on both counts: a run of Threshold
\* failures, in whatever states of the circuit they settled, cannot leave it
\* closed.
ClosedIsBelowThreshold ==
    state = "CLOSED" => failures < Threshold /\ consecutive <= failures

\* The circuit opens only by a failure that settles, and closes only by a
\* success that settles while it is half-open or in a process that starts
\* anew; no timer and no late success closes an open one.
OnlySuccessCloses ==
    [][/\ state # "CLOSED" /\ state' = "CLOSED" =>
             /\ failures' = 0
             /\ \/ state = "HALF_OPEN" /\ inFlight' < inFlight
                \/ inFlight' = 0 /\ timers' = 0 /\ outdated'
       /\ state # "OPEN" /\ state' = "OPEN" =>
             inFlight' < inFlight /\ failures' >= Threshold]_vars

\* An open circuit does not stay open.
OpenEnds == state = "OPEN" ~> state # "OPEN"
=============================================================================
