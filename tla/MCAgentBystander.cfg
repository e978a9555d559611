CONSTANTS
    Prompts = {p1, p2}
    Commands = {ls}
    TextLengths = {0, 60}
    MaxTurns = 3
    MaxWall = 1
    RepetitionWindow = 2
    RepetitionThreshold = 2
    HardTurns = 100
    NudgeLimit = 1
    ReadonlyBudget = 1
    NoCommand = NoCommand
SPECIFICATION FairSpec
PROPERTY
    StoppedForItself
