CONSTANTS
    Subscribers = {a, b}
    EventTypes = {"tool.x"}
    Filters = {"*", "tool.*"}
    Matching <- MCMatching
    MaxDepth = 2
    MaxSubs = 2
    FanSessions = {s1, s2, s3}
    FanSockets = {w1, w2}
    Casts = {b1}
    NoSet = NoSet
    NoCastSession = NoCastSession
    MaxSets = 3
    LogSessions = {s1, s2}
    LogTypes = {"message"}
    Page = 2
    HardCap = 10
    MaxRows = 4
    ProxySessions = {s1}
    MaxLinks = 3
    MaxConnects = 2
    MaxTurns = 3
    AdapterSessions = {s1}
    MaxSockets = 2
    MaxWritten = 3
    MaxUnread = 2
    CustomHooks = {"c1"}
    FilePaths = {f}
    MaxFires = 2
    MaxWrites = 2
    Jobs = {"j1", "j2"}
    Agents <- MCAgents
    Suited <- MCSuited
    Helpless = {"browser"}
    max_agents = 2
    NoAgent = NoAgent
    Steps = {t1, t2}
    MaxRuns = 3
    Slugs = {x}
    Subjects <- MCSubjects
    Threshold = 60
    PruneAfter = 1
    MinRate = 30
    MaxActive = 1
    MaxSkills = 2
    MaxUses = 1
    MaxTorn = 1
    RoutedTools = {"terminal", "execute_code"}
    Servers = {"s1"}
    Listing <- MCListing
    NoServer = NoServer
    Local = Local
    MaxRouted = 2
    GuardedCalls = {a, b}
    window_size = 4
    warning_threshold = 2
    block_threshold = 3
    MaxGuarded = 7
SPECIFICATION Spec
INVARIANTS
    SignalsTypeOK
    SignalsArrive
    WorkIsOrderly
    LedgersAreTrue
PROPERTIES
    NothingForgotten
CHECK_DEADLOCK FALSE
