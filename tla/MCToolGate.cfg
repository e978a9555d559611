CONSTANTS
    Tools = {t1, t2}
    NoTool = NoTool
SPECIFICATION GateSpec
INVARIANTS
    GateTypeOK
    ManualRunsAreApproved
    RefusalIsFinal
    RunsOnce
    DeliveredOnce
PROPERTIES
    LateClickIsNoOp
