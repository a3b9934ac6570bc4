SPECIFICATION GateSpec
CONSTANTS
    b1 = b1
    c1 = c1
    f1 = f1
    g1 = g1
    g2 = g2
    Creator <- MCCreator
    Canceller <- MCCanceller
    Confirmer <- MCConfirmer
    Txn <- MCTxn
    Gate <- MCGate
    NoTxn = NoTxn
    Capacity = 2
    MaxQty = 1
    MaxUsages = 1
INVARIANTS
    PaidBeforeConfirmed
    AdmitsOnce
PROPERTIES
    ImplementsInventory
    JobsEnd
\* Every request has ended: the system may stop.
CHECK_DEADLOCK FALSE
