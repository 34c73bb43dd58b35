SPECIFICATION Spec
CONSTANTS
    i1 = i1
    i2 = i2
    i3 = i3
    w1 = w1
    w2 = w2
    r1 = r1
    o1 = o1
    NoIntent = NoIntent
    NoOrder = NoOrder
    NoRequest = NoRequest
    IntentId <- MCIntentId
    Worker <- MCWorker
    Resolver <- MCResolver
    Order <- MCOrder
    Request <- MCRequest
SYMMETRY MCSymmetry
CHECK_DEADLOCK FALSE
INVARIANTS
    TypeOK
    ReleasedMeansNotWorking
    NoDoubleWorkingOrder
    AtMostOneProviderCall
    ReservationCoherent
PROPERTIES
    ResolvedStaysResolved
