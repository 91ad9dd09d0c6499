SPECIFICATION FairSpec
CONSTANTS
    TaskCount = 2
    NoTask = NoTask
    SlotCount = 4
    NoSlot = 0
    NoFrame = 0
    NoBuffer = NoBuffer
    Scenarios <- MCDecode
    Depth = 2
PROPERTIES
    NeverStranded
CHECK_DEADLOCK FALSE
