CONSTANTS
    Services = {s1, s2}
    Callers = {c1}
    Monitor = Monitor
    max_restarts = 1
    MaxObjects = 1
    RepairTasks = {t1, t2}
    Temps = {MissingKey, 60, 130}
    Vrams = {97}
    MissingKey = MissingKey
    MaxRepairs = 2
    MaxLoops = 2
    MaxSnapshots = 1
    ImmuneContexts <- MCContexts
    MaxEntries = 2
    MaxResponses = 4
    MaxMonitors = 2
    GPUTemps = {0, 60, 75, 78, 90}
    CPUTemps = {0, 95}
    Gaps = {0, 1, 10}
    MaxCycles = 3
    Readings <- MCReadings
    TokenCounts = {30, 81, 95}
    MaxPublished = 3
    MaxPercent = 200
    LearntSessions = {s1, s2}
    LearntModels = {"m1"}
    Endings <- MCEndings
    MaxLines = 2
    MaxTornWrites = 1
    Requests = {"r1", "r2"}
    Targets = {f}
    NoFile = NoFile
    MaxRisk = 0
    MaxSelfTests = 1
    Sizes = {1}
    MaxTokens = 2
    RecentTokens = 3
    RecentCount = 2
    PerKind = 1
    TopK = 1
    MaxHistory = 3
    MaxResults = 1
    Critical = {n1}
    Optional = {o1, o2}
    TokensOf <- MCTokens
    Contexts = {"short", "long"}
    MaxContext = 4
    KeptMetrics = 3
    HealthWindow = 2
    MaxUpdates = 2
SPECIFICATION Spec
INVARIANTS
    CareTypeOK
    FaultsAreAttended
    KnowledgeIsKept
PROPERTIES
    CorrectionsHold
CHECK_DEADLOCK FALSE
