SPECIFICATION EditSpec
CONSTANTS
    t1 = t1
    t2 = t2
    t3 = t3
    e1 = e1
    Txn <- MCTxn
    NoTxn = NoTxn
    Capacity = 2
    MaxQty = 1
    Editor <- MCEditor
    Capacities <- MCCapacities
PROPERTIES
    NoLostSeatUpdate
CHECK_DEADLOCK FALSE
