SPECIFICATION BookingSpec
CONSTANTS
    b1 = b1
    c1 = c1
    b2 = b2
    f1 = f1
    Creator <- MCCreator
    Canceller <- MCCanceller
    Confirmer <- MCConfirmer
    Txn <- MCTxn
    NoTxn = NoTxn
    Capacity = 1
    MaxQty = 1
    MaxUsages = 1
INVARIANTS
    NoOversell
CHECK_DEADLOCK FALSE
