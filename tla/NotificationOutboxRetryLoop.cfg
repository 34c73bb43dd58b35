SPECIFICATION Spec
CONSTANTS
    Job = {e1}
    ChannelOf <- EmailOnly
    Configurable = {"email"}
    Worker = {w1}
    MaxAttempts = 2
    BatchSize = 1
    MaxBatchSize = 2
    MaxRequeues = 1
    MaxCrashes = 0
    MaxChanges = 0
INVARIANTS
    NoRetryLoop
