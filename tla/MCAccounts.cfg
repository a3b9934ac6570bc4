SPECIFICATION Spec
CONSTANTS
    r1 = r1
    r2 = r2
    r3 = r3
    google = google
    github = github
    Request <- MCRequest
    Provider <- MCProvider
    Earlier = Earlier
    NoOne = NoOne
INVARIANTS
    ResetLocksOut
    OldSecretsAreDead
    HandedOutWorks
PROPERTIES
    VerifiedStays
    ImplementsSessions
SYMMETRY Alike
\* Every request has ended: the system may stop.
CHECK_DEADLOCK FALSE
