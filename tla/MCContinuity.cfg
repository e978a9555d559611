CONSTANTS
    LogSessions = {s1}
    LogTypes = {"session.created", "session.completed", "session.interrupted",
                "session.recovered", "session.updated"}
    Page = 2
    HardCap = 10
    MaxRows = 4
    RestartLimit = 1
    NoRecovery = NoRecovery
    Items = {x}
    MaxTexts = 2
    Interval = 1
    MaxClock = 2
    MaxSteps = 2
    Retention = 1
    MaxContents = 1
    MaxTicks = 2
    retention_days = 0
    MaxDays = 1
    MaxRounds = 2
    Capacity <- MCCapacity
    LoadLimit <- MCLoadLimit
    MaxEntries = 4
    MaxRestarts = 1
    Versions = {1, 2, 3}
    Columns = {c1}
    NewTables = {n1}
    MaxLog = 6
    Tables = {t1, t2}
    MigrationIds = {m1, m2}
    MaxVersion = 2
    MaxChecks = 1
    DbTables = {t1, t2}
    DbColumns = {a, b}
    DbIndexes = {i}
    MaxTableRows = 1
    MaxCopies = 1
    GitFiles = {f}
    Branches = {main, side}
    FirstBranch = main
    MaxVersions = 2
    MaxCommits = 3
    MaxSnapshots = 1
SPECIFICATION Spec
INVARIANTS
    ContinuityTypeOK
    RestartsGoOn
    SavedIsThere
    SchemaFollowsBooks
CHECK_DEADLOCK FALSE
