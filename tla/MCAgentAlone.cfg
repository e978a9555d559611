CONSTANTS
    Prompts = {p1}
    Commands = {ls, cat}
    TextLengths = {0, 10, 60}
    MaxTurns = 6
    MaxWall = 1
    RepetitionWindow = 3
    RepetitionThreshold = 2
    HardTurns = 100
    NudgeLimit = 3
    ReadonlyBudget = 3
    NoCommand = NoCommand
SPECIFICATION FairSpec
INVARIANTS
    TypeOK
    ClosedOnce
PROPERTIES
    StoppedForItself
    ForcedAnswerRuns
