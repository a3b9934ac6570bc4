SPECIFICATION RefundSpec
CONSTANTS
    b1 = b1
    c1 = c1
    f1 = f1
    Creator <- MCCreator
    Canceller <- MCCanceller
    Confirmer <- MCConfirmer
    Txn <- MCTxn
    NoTxn = NoTxn
    Capacity = 2
    MaxQty = 1
    MaxUsages = 1
INVARIANTS
    RefundIfPaid
CHECK_DEADLOCK FALSE
