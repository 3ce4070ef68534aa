SPECIFICATION Spec
CONSTANTS
    payment = payment
    booking = booking
    c1 = c1
    c2 = c2
    NoEntry = NoEntry
    Services <- TwoServices
    Calls <- TwoCalls
    Answers <- TwoAnswers
    Faults <- NoFaults
    TTLs = {0, 2}
    Timeout = 1
    MaxTime = 4
    MaxChanges = 1
PROPERTY ClearedOnlyWhenExpired
