SPECIFICATION QueueSpec
CONSTANTS
    Threshold = 2
    MaxCalls = 8
    m1 = m1
    m2 = m2
    Mail <- MCMail
    Attempts = 3
    MaxStalls = 1
INVARIANTS
    FailedHadItsAttempts
    MailedOnce
PROPERTIES
    SkippedOnlyInOutage
    EveryMailSettles
\* Every mail is sent, skipped or given up: the model may stop.
CHECK_DEADLOCK FALSE
