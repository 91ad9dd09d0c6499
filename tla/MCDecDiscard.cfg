SPECIFICATION Spec
CONSTANTS
    TaskCount = 2
    NoTask = NoTask
    SlotCount = 4
    NoSlot = 0
    NoFrame = 0
    NoBuffer = NoBuffer
    Scenarios <- MCReset
    Depth = 2
INVARIANTS
    ResetDiscards
CHECK_DEADLOCK FALSE
