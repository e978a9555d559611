CONSTANTS
    LogSessions = {s1}
    LogTypes = {"session.created", "session.completed", "session.interrupted",
                "session.recovered", "session.updated"}
    Page = 2
    HardCap = 10
    MaxRows = 4
    RestartLimit = 1
    NoRecovery = NoRecovery
SPECIFICATION RecoverySpec
INVARIANTS
    InterruptedAreRestarted
CHECK_DEADLOCK FALSE
