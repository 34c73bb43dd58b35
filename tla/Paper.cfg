SPECIFICATION OrderSpec
CONSTANTS
    s1 = s1
    s2 = s2
    c1 = c1
    c2 = c2
    NoSetup = NoSetup
    Setup <- MCSetup
    Caller <- MCCaller
    Op = {"compose", "simulate", "evaluate", "close"}
    Withdrawable <- MCWithdrawable
    MaxPositions = 1
    MaxCrashes = 1
    RawAnswers <- Replies
    Observers = {"rec"}
    Operators = {"ann"}
    Sightings <- Seen
    Verdicts <- Decided
    MaxObservations = 1
SYMMETRY MCSymmetry
INVARIANTS
    TypeOK
    ExposureWithinLimit
    LedgerConsistent
    
    LedgerTellsOneStory
PROPERTIES
    WithdrawalPreventsFill
