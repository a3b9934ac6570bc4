SPECIFICATION Spec
CONSTANTS
    r1 = r1
    r2 = r2
    k1 = k1
    Req <- MCReq
    NoReq = NoReq
    Key <- MCKey
    KeyOf <- MCKeyOf
    MaxUsages = 1
    Tries = 2
INVARIANTS
    AloneInside
PROPERTIES
    ReleasedByHolder
    LockIsFreed
    ImplementsPromise
\* Every request has ended: the system may stop.
CHECK_DEADLOCK FALSE
