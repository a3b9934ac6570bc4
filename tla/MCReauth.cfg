SPECIFICATION Spec
CONSTANTS
    c1 = c1
    c2 = c2
    c3 = c3
    Req <- MCReq
    Me <- MCMe
    Login <- MCLogin
    NoReq = NoReq
INVARIANTS
    StaysSignedIn
PROPERTIES
    PresentedOnce
    EveryRequestEnds
\* Every request has ended and every session is over: the system may stop.
CHECK_DEADLOCK FALSE
