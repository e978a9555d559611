CONSTANTS
    NoSession = NoSession
    Sessions = {s1}
    Sockets = {w1, w2}
    Prompts = {p1, p2, p3}
    ReapAge = 2
    NoPrompt = NoPrompt
SPECIFICATION FairSpec
INVARIANTS
    TypeOK
    OnePromptPerSession
    QuietHasNoSockets
    RunningHasPrompt
    OrphansWereBusy
PROPERTIES
    PromptsEnd
CHECK_DEADLOCK FALSE
