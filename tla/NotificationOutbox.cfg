SPECIFICATION FairSpec
CONSTANTS
    Job = {e1}
    ChannelOf <- EmailOnly
    Configurable = {"email"}
    Worker = {w1, w2}
    MaxAttempts = 2
    BatchSize = 1
    MaxBatchSize = 2
    MaxRequeues = 1
    MaxCrashes = 1
    MaxChanges = 1
INVARIANTS
    TypeOK
    SendsWithinBudget
PROPERTIES
    LeaseRespected
    EventuallySettled
