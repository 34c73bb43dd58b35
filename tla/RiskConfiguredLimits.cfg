SPECIFICATION RiskOnlySpec
CONSTANTS
    i1 = i1
    i2 = i2
    i3 = i3
    w1 = w1
    w2 = w2
    r1 = r1
    o1 = o1
    NoIntent = NoIntent
    NoOrder = NoOrder
    NoRequest = NoRequest
    IntentId <- MCIntentId3
    Worker <- MCWorker
    Resolver <- NoResolver
    Order <- MCOrder
    Request <- MCRequest
    Txs <- MCWorker
    Attempts = {"a1"}
    UserScopes = {"user"}
    GlobalForced = FALSE
    Entitled = TRUE
    Kinds = {"simulate", "composed"}
    PaperSetups <- TwoSetups
    PaperCallers = {"c1", "c2"}
    FailingCallers = {"c2"}
    FailUntil = 1
    Bars <- ThreeBars
    EntrySlippage = 1
    ExitSlippage = 1
    FeePips = 1
    ContractSize = 1
    PnlMode = "quote_linear"
    MoneyScale = 1
    PositionSizes = {2}
    StaleAge = 1
    AuthorizationTtl = 1
    EvaluationLimit = 1
    MaxNow = 3
    MaxAttempts = 2
    Executions = {"x"}
    Requests <- MCRequests
    Capacity = 2
    MaxEpoch = 2
    Composers <- MCWorker
    EntryRequests <- Asked
    ProfileOwner <- OwnerOf
    Provider <- ProviderOf
    SetupOwner <- StrategyOwner
    SetupAction <- DirectionOf
    Scores <- ThreeScores
    Sizes <- TwoSizes
    AuthCapacity = 1
    MaxEntryAttempts = 2
    MaxMoves = 1
    MaxFaults = 1
CHECK_DEADLOCK FALSE
INVARIANTS
    ConfiguredLimitsBind
