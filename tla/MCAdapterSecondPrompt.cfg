CONSTANTS
    AdapterSessions = {s1}
    MaxSockets = 1
    MaxWritten = 3
    MaxUnread = 2
SPECIFICATION AdapterSpec
INVARIANTS
    PromptsAreStreamed
CHECK_DEADLOCK FALSE
