SPECIFICATION MarketSpec
CONSTANTS
    w1 = w1
    w2 = w2
    c1 = c1
    c2 = c2
    Workers <- MCWorkers
    Ticker = w1
    NoWorker = nobody
    NStrategies = 1
    MaxRuns = 2
    MaintenanceEvery = 1
    PruneLimit = 1
    MaxFaults = 1
    NPairs = 3
    Budget = 2
    HeadGaps = {}
    Warmers <- MCWarmers
    Nobody = nobody
    MaxIngestFaults = 1
    Clients <- MCClients
    MaxCrashes = 1
    MaxExpiries = 1
    HalfWidth = 1
    MinCandles = 1
    AtrPeriod = 2
    SmaPeriod = 3
    Shapes <- MCShapes
    MaxGrowth = 2
    Histories <- MCHistories
    TopPrice = 10
    Conditions <- MCConditions
    Risks <- MCRisks
    Outcomes <- MCOutcomes
CHECK_DEADLOCK FALSE

    
PROPERTIES
    
    ScansAreSound
    
    
