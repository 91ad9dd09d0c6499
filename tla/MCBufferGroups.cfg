SPECIFICATION Spec
CONSTANTS
    g1 = g1
    g2 = g2
    b1 = b1
    b2 = b2
    t1 = t1
    t2 = t2
    NoGroup = NoGroup
    Groups <- MCGroups
    Buffers <- MCBuffers
    Threads <- MCThreads
    Types <- MCTypes
    Sizes <- MCSizes
    Limits <- MCLimits
    RefBound = 2
SYMMETRY Symmetry
INVARIANTS
    TypeOK
    ListsAndCounters
    GroupOutlivesBuffers
    ClearedNotReused
CHECK_DEADLOCK FALSE
