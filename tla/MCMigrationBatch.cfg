CONSTANTS
    Versions = {1, 2, 3}
    Columns = {c1}
    NewTables = {}
    MaxLog = 1
SPECIFICATION MigrationSpec
INVARIANTS
    RecordedIsApplied
CHECK_DEADLOCK FALSE
