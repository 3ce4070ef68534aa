SPECIFICATION FairSpec
CONSTANTS
    DomainCap = 4
    OutCap = 2
    MaxFrames = 3
    FrameStatus <- Statuses
CHECK_DEADLOCK FALSE
INVARIANTS TypeOK NothingLost OneResult CutIsReported ForwarderNeverWaits
PROPERTIES ImplementsDelivery CancelReleases EndIsSeen
