CONSTANTS
    Requests = {r1, r2, r3}
    Cooldown = 2
    CounterCap = 2
SPECIFICATION FairSpec
INVARIANTS
    TypeOK
    CoolingIsReported
    NoProbeDuringCooldown
    PrimaryReportIsTrue
    FailoversAreRecovered
PROPERTIES
    RequestsEnd
    ReturnsToPrimary
    KeepsContract
