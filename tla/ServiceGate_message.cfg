SPECIFICATION GateSpec
CONSTANTS
    payment = payment
    c1 = c1
    c2 = c2
    NoEntry = NoEntry
    Services <- Services1
    Calls <- Calls1
    Answers <- BrokenAnswers
    Faults <- NoFaults
    GatedOps <- Gated
    UngatedOps <- None
    BypassOnError = TRUE
    TTLs = {1}
    Timeout = 1
    MaxTime = 3
    MaxChanges = 1
PROPERTY GatewayMessageBlocks
