SPECIFICATION FairSpec
CONSTANTS
    Requests <- RequestSet2
    Inputs <- AllInputs
    Prices <- PriceSet
    Float32 <- Narrow
    Stocked <- StockedSet
    MaxTemplates = 3
    Codes <- CodeSet
    NoOne = none
    none = none
    r1 = r1
    r2 = r2
    r3 = r3
    a = a
    a2 = a2
    b = b
CHECK_DEADLOCK FALSE
INVARIANTS
    TypeOK
    OrphanAccounted
    RackAsAsked
    NoRepeatedTemplate
PROPERTIES
    KeepsPromise
    EveryRequestAnswered
