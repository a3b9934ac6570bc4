SPECIFICATION FeedSpec
CONSTANTS
    t1 = t1
    t2 = t2
    e1 = e1
    v1 = v1
    r1 = r1
    r2 = r2
    Txn <- MCTxn
    NoTxn = NoTxn
    Capacity = 2
    MaxQty = 1
    Editor <- MCEditor
    Capacities <- MCCapacities
    Viewer <- MCViewer
    Replica <- MCReplica
INVARIANTS
    LockKeepsEditorsOut
    DeletedHasNoBookings
    CommittedFeedIsTrue
PROPERTIES
    EverythingEnds
    FeedCatchesUp
\* Every request has ended: the system may stop.
CHECK_DEADLOCK FALSE
