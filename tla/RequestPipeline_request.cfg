SPECIFICATION FairSpec
CONSTANTS
    Users <- UserSet
    Roles <- RoleSet
    NoClaims = NoClaims
    Nil = Nil
    Queries <- QuerySet
    Messages <- MessageMap
    Bookings <- BookingSet
    PurchaseOrders <- OrderSet
    Administers <- AdministersMap
    NotYet = NotYet
    ana = ana
    eva = eva
CHECK_DEADLOCK FALSE
INVARIANTS
    TypeOK
    OnlyEntitled
    AdminSeesOwn
    ClientErrorMeansNoEffect
    SuccessWasEarned
    BookingsSurviveLookup
    OrdersAreTheirOwn
    FaithfulAnswer
PROPERTIES
    KeepsPromise
    EveryRequestAnswered
