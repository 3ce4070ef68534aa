SPECIFICATION Spec
CONSTANTS
    DomainCap = 4
    OutCap = 2
    MaxFrames = 3
    FrameStatus <- Statuses
CHECK_DEADLOCK FALSE
INVARIANT FrameSeenBeforeClose
