----------------------------- MODULE EmailQueue ------------------------------
(***************************************************************************)
(* EmailService and EmailProcessor: mails wait in a Bull queue, whose      *)
(* workers send them by SMTP behind the circuit 'email-service'.           *)
(*                                                                         *)
(* Confirmations, verifications and password resets are queued with the    *)
(* same options and handled alike, so a mail is its job.  Bull and SMTP    *)
(* are external: Bull retries a job whose handler throws and takes back    *)
(* one whose worker has stopped; SMTP may accept a mail although the call  *)
(* fails.  One process handles the queue, any number of mails at a time;   *)
(* the feature is on, as otherwise nothing is queued.                      *)
(***************************************************************************)
EXTENDS CircuitBreaker

CONSTANTS
    Mail,       \* the mails to be queued
    Attempts,   \* attempts of a job
    MaxStalls   \* how often Bull takes back a job whose worker has stopped

ASSUME QueueAssumption == Attempts \in Nat \ {0} /\ MaxStalls \in Nat

VARIABLES
    job,        \* where a mail's job is; "done" jobs are removed, "failed" kept
    attempts,   \* job.attemptsMade: handlings that threw
    stalls,     \* handlings that ended with their worker
    delivered,  \* mails that SMTP has accepted, by mail
    skipped,    \* mails that the fallback has logged in place of sending
    inDoubt,    \* ghost: mails that SMTP accepted without the sender's knowing
    opened      \* ghost: whether this process's circuit has ever opened

mailVars == <<job, attempts, stalls, delivered, skipped, inDoubt>>
queueVars == <<state, failures, outdated, timers, inFlight, calls, consecutive,
               job, attempts, stalls, delivered, skipped, inDoubt, opened>>

JobState == {"none", "waiting", "active", "delayed", "done", "failed"}

QueueTypeOK ==
    /\ TypeOK
    /\ job \in [Mail -> JobState]
    /\ attempts \in [Mail -> 0..Attempts]
    /\ stalls \in [Mail -> 0..(MaxStalls + 1)]
    /\ delivered \in [Mail -> Nat]
    /\ skipped \in SUBSET Mail
    /\ inDoubt \in SUBSET Mail
    /\ opened \in BOOLEAN

QueueInit ==
    /\ Init
    /\ job = [m \in Mail |-> "none"]
    /\ attempts = [m \in Mail |-> 0]
    /\ stalls = [m \in Mail |-> 0]
    /\ delivered = [m \in Mail |-> 0]
    /\ skipped = {}
    /\ inDoubt = {}
    /\ opened = FALSE

Active == {m \in Mail : job[m] = "active"}

Move(m, from, to) == job[m] = from /\ job' = [job EXCEPT ![m] = to]

Deliver(mails) ==
    delivered' = [m \in Mail |-> IF m \in mails THEN delivered[m] + 1 ELSE delivered[m]]

\* The circuit has opened by now.
NoteOpening == opened' = IF state' = "OPEN" THEN TRUE ELSE opened

-----------------------------------------------------------------------------
(* EmailService: queueBookingConfirmation, queueEmailVerification,         *)
(* queuePasswordReset.                                                     *)

Queue(m) ==
    /\ Move(m, "none", "waiting")
    /\ UNCHANGED <<vars, attempts, stalls, delivered, skipped, inDoubt, opened>>

-----------------------------------------------------------------------------
(* EmailProcessor: a handler is sendEmail, and throws what it throws.      *)

\* The circuit is open: the fallback logs the mail, and the job is done.
SkipMail(m) ==
    /\ ShortCircuit
    /\ Move(m, "waiting", "done")
    /\ skipped' = skipped \union {m}
    /\ UNCHANGED <<attempts, stalls, delivered, inDoubt, opened>>

SendMail(m) ==
    /\ Call
    /\ Move(m, "waiting", "active")
    /\ UNCHANGED <<attempts, stalls, delivered, skipped, inDoubt, opened>>

\* Mutant: the handler throws after the mail was sent.
SendReturnsAndThrows(m) ==
    /\ OnSuccess
    /\ attempts' = [attempts EXCEPT ![m] = @ + 1]
    /\ Move(m, "active", IF attempts'[m] < Attempts THEN "delayed" ELSE "failed")
    /\ Deliver({m})
    /\ UNCHANGED <<stalls, skipped, inDoubt, opened>>

SendReturns(m) ==
    /\ OnSuccess
    /\ Move(m, "active", "done")
    /\ Deliver({m})
    /\ UNCHANGED <<attempts, stalls, skipped, inDoubt, opened>>

\* SMTP may have accepted the mail before the call failed.
MayHaveArrived(mails) ==
    \E arrived \in SUBSET mails :
        /\ Deliver(arrived)
        /\ inDoubt' = inDoubt \union arrived

\* Bull tries the job again after a while, as often as its options say.
Retry(m) ==
    /\ attempts' = [attempts EXCEPT ![m] = @ + 1]
    /\ Move(m, "active", IF attempts'[m] < Attempts THEN "delayed" ELSE "failed")
    /\ UNCHANGED skipped

Skip(m) ==
    /\ Move(m, "active", "done")
    /\ skipped' = skipped \union {m}
    /\ UNCHANGED attempts

\* Mutant: the fallback answers every failure.
SendThrowsSkips(m) ==
    /\ OnFailure
    /\ NoteOpening
    /\ MayHaveArrived({m})
    /\ Skip(m)
    /\ UNCHANGED stalls

\* execute calls the fallback if the circuit is half-open after the failure,
\* and throws otherwise.
SendThrows(m) ==
    /\ OnFailure
    /\ NoteOpening
    /\ MayHaveArrived({m})
    /\ IF state' = "HALF_OPEN" THEN Skip(m) ELSE Retry(m)
    /\ UNCHANGED stalls

\* The backoff of a job is over.
BackoffEnds(m) ==
    /\ Move(m, "delayed", "waiting")
    /\ UNCHANGED <<vars, attempts, stalls, delivered, skipped, inDoubt, opened>>

-----------------------------------------------------------------------------
(* Time and restarts. *)

MailCircuitTime == (ResetTimer \/ TimeoutPasses) /\ UNCHANGED <<mailVars, opened>>

Stalled == [m \in Mail |-> IF m \in Active THEN stalls[m] + 1 ELSE stalls[m]]

\* Mutant: a handling that ended with its worker counts as the last one.
RestartFailsJobs ==
    /\ Restart
    /\ opened' = FALSE
    /\ stalls' = Stalled
    /\ job' = [m \in Mail |-> IF m \in Active THEN "failed" ELSE job[m]]
    /\ MayHaveArrived(Active)
    /\ UNCHANGED <<attempts, skipped>>

\* Mutant: nobody takes back the jobs of a process that has ended.
RestartForgetsJobs ==
    /\ Restart
    /\ opened' = FALSE
    /\ UNCHANGED mailVars

\* The process ends: the circuit is forgotten, and Bull takes back the jobs
\* that were being handled, or fails those it has taken back too often.
RestartWorkers ==
    /\ Restart
    /\ opened' = FALSE
    /\ stalls' = Stalled
    /\ job' = [m \in Mail |->
                  CASE m \notin Active -> job[m]
                    [] m \in Active /\ stalls[m] < MaxStalls -> "waiting"
                    [] OTHER -> "failed"]
    /\ MayHaveArrived(Active)
    /\ UNCHANGED <<attempts, skipped>>

-----------------------------------------------------------------------------
\* A job that has been queued goes on.
Handle(m) ==
    \/ SkipMail(m) \/ SendMail(m)
    \/ SendReturns(m) \/ SendThrows(m)
    \/ BackoffEnds(m)

QueueNext ==
    \/ \E m \in Mail : Queue(m) \/ Handle(m)
    \/ MailCircuitTime
    \/ RestartWorkers

\* Bull hands waiting jobs to its workers and ends their backoff, and a call to
\* SMTP is answered or times out.
QueueFairness ==
    /\ \A m \in Mail : WF_queueVars(Handle(m))
    /\ WF_queueVars(ResetTimer /\ UNCHANGED <<mailVars, opened>>)

QueueSpec == QueueInit /\ [][QueueNext]_queueVars /\ QueueFairness

-----------------------------------------------------------------------------
(* Properties. *)

\* A job that Bull keeps as failed has had all its attempts, or has stalled
\* too often: no open circuit and no restart uses up an attempt.
FailedHadItsAttempts ==
    \A m \in Mail :
        job[m] = "failed" => attempts[m] = Attempts \/ stalls[m] > MaxStalls

\* Nobody is mailed twice unless an earlier handling ended, by an error or
\* with its worker, after SMTP had accepted the mail; and a job that is done
\* has been mailed or was skipped.
MailedOnce ==
    \A m \in Mail :
        /\ delivered[m] > 1 => m \in inDoubt
        /\ job[m] = "done" => delivered[m] > 0 \/ m \in skipped

\* A mail is skipped only by a process whose circuit has opened: until there
\* were as many failures, every one of them is retried.
SkippedOnlyInOutage == [][skipped' # skipped => opened = TRUE]_queueVars

\* Every queued mail is sent, skipped or given up.
EveryMailSettles ==
    \A m \in Mail : job[m] = "waiting" ~> job[m] \in {"done", "failed"}
=============================================================================
