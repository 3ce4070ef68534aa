SPECIFICATION GateFairSpec
CONSTANTS
    payment = payment
    c1 = c1
    c2 = c2
    NoEntry = NoEntry
    Services <- Services1
    Calls <- Calls2
    Answers <- AllAnswers
    Faults <- SomeFaults
    GatedOps <- Gated
    UngatedOps <- Ungated
    BypassOnError = TRUE
    TTLs = {2}
    Timeout = 1
    MaxTime = 4
    MaxChanges = 1
INVARIANTS GateTypeOK TransientNeverShared
PROPERTIES MaintenanceHonoured RecoveryHonoured EveryOperationDecided
