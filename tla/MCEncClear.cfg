SPECIFICATION FairSpec
CONSTANT FrameCount = 3
PROPERTY ClearUnblocks
CHECK_DEADLOCK FALSE
