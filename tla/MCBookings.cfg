SPECIFICATION BookingSpec
CONSTANTS
    b1 = b1
    b2 = b2
    c1 = c1
    c2 = c2
    f1 = f1
    Creator <- MCCreator
    Canceller <- MCCanceller
    Confirmer <- MCConfirmer
    Txn <- MCTxn
    NoTxn = NoTxn
    Capacity = 2
    MaxQty = 2
    MaxUsages = 1
INVARIANTS
    SeatsMatchBookings
    CouponLimit
    CancelledUsesComeBack
PROPERTIES
    ImplementsCounter
SYMMETRY Alike
\* Every request has ended: the system may stop.
CHECK_DEADLOCK FALSE
