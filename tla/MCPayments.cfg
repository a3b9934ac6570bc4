SPECIFICATION PaymentSpec
CONSTANTS
    Threshold = 3
    MaxCalls = 12
    i1 = i1
    i2 = i2
    Intent <- MCIntent
INVARIANTS
    ToldOnlyIfPaid
    ClosedIsBelowThreshold
PROPERTIES
    GoneMockIsFinal
    StandInOnlyInOutage
    OpenEnds
\* The calls of the bound are used up: the model may stop.
CHECK_DEADLOCK FALSE
