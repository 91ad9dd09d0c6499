SPECIFICATION FairSpec
CONSTANT FrameCount = 3
INVARIANTS
    TypeOK
    FrameInUseKept
    ClearLeavesNothing
PROPERTIES
    PacketsInOrder
    PutReturns
    PacketArrives
CHECK_DEADLOCK FALSE
