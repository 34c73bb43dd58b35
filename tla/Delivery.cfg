SPECIFICATION DeliverySpec
CONSTANTS
    e1 = e1
    h1 = h1
    w1 = w1
    w2 = w2
    Job <- MCJob
    ChannelOf <- MCChannelOf
    Configurable = {"email"}
    Worker <- MCWorker
    MaxAttempts = 1
    BatchSize = 1
    MaxBatchSize = 2
    MaxRequeues = 1
    MaxCrashes = 0
    MaxChanges = 1
    Owners <- MCWorker
    StrategyIds = {"a", "b"}
    Configs = {0, 1}
    MaxVersions = 2
    MaxStrategies = 1
    MaxBacktests = 1
    Scanners = {"scan"}
    Callers = {"api"}
    Strategies = {"s1"}
    MaxCandle = 2
    Qualifying <- MCQualifying
    GoodScore <- MCGoodScore
    MaxSavedSetups = 1
    MaxAlertsPerMonth = 1
    ToStates = {"triggered", "expired"}
    Triggers = {"triggered"}
    RoutedAlerts = {"a"}
    Alerters = {"g"}
    RouteEndpoints = {"e1"}
    RouteSecrets = {"s1", "v1"}
    LooksEncrypted = {"v1"}
    KeyManagers <- MCKeyManagers
    LegacySecret = "old"
    QuietChoices <- MCQuiet
    DayMinutes = 2
    MailProviders = {"smtp", "resend"}
    PutChannels = {"email", "webhook"}
    RouteEdits = 2
    Diagnosticians <- MCWorker
    MaxReleases = 1
    Servers = {"old", "new"}
    NoServer = "nobody"
    Releases <- MCReleases
    TickersOf <- MCTickersOf
    Slots = {1, 2}
    MaxBoots = 2
SYMMETRY MCSymmetry
PROPERTIES
    
    FinalIsFinal
    VersionsAreFrozen
    
INVARIANTS
    
    ServerLifeIsOrderly
