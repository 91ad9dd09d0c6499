SPECIFICATION FairSpec
CONSTANTS
    TaskCount = 2
    NoTask = NoTask
    SlotCount = 4
    NoSlot = 0
    NoFrame = 0
    NoBuffer = NoBuffer
    Scenarios <- MCAll
    Depth = 2
INVARIANTS
    TypeOK
    HardwareSlotsKept
    DeliveredInOrder
    PictureFitsBuffers
    SlotsAccounted
PROPERTIES
    PacketsArePulled
    PictureIsDelivered
    ResetReturns
CHECK_DEADLOCK FALSE
