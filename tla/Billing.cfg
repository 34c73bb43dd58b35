SPECIFICATION BillingSpec
CONSTANTS
    m1 = m1
    m2 = m2
    Emails = {"a", "b"}
    Passwords = {1, 2}
    WebClients <- MCPair
    MaxLogins = 2
    Accounts = {"u1", "u2"}
    SyncWorkers <- MCPair
    Events = {"e1", "e3"}
    EventUser <- MCEventUser
    EventCode <- MCEventCode
    EventKind <- MCEventKind
    EventAt <- MCEventAt
    StateAt <- MCStateAt
    IdOf <- MCIdOf
    ClaimLimit = 1
    MaxStateVersion = 3
    Checkers <- MCPair
    Sessions <- MCPair
    Figures = {"a"}
    BadFigures = {"bad"}
    WarningAfter = 1
    StaleAfter = 2
    MaxMoment = 1
    MaxDeaths = 1
    AdapterCallers <- MCPair
    Refs = {"r1"}
    Mode = "test"
    Deliveries <- Payloads
    DeskOperators = {"ann", "bob"}
    Orders <- Typed
    FirstAccounts <- Start
    SaleSnapshots <- Locks
    Payments <- Paid
    DeskMode = "test"
    Buyers <- TwoBuyers
    Batches <- TwoBatches
    CataloguePlans <- OnePlan
    Codes <- TwoCodes
    TakenCodes <- Nothing
    InitialRows <- NoneOrLegacy
SYMMETRY MCSymmetry
CHECK_DEADLOCK FALSE
INVARIANTS
    
    
    OperatorActsAreAccountable
PROPERTIES
    
    
    SessionsAreSafe
