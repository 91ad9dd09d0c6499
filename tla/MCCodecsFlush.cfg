SPECIFICATION Spec
CONSTANTS
    SlotCount = 6
    NoSlot = NoSlot
    NoFrame = NoFrame
    NoBuffer = NoBuffer
    Vp9RefCount = 2
    H264Size = 2
    H264RefFrames = 2
    NoPoc = NoPoc
    H265DpbSize = 5
    H265Reorder = 1
    H265MaxLsb = 16
    Kinds <- M2vOnly
    PicturesOf <- MCPicturesOf
INVARIANTS
    EveryPictureShown
CHECK_DEADLOCK FALSE
