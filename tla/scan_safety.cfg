SPECIFICATION Spec

CONSTANTS
    None = None
    c1 = c1
    c2 = c2
    Consumers = {c1, c2}
    NumEntries = 3
    Foreign = {2}
    NumTables = 2
    ConfigOf <- OneEach
    ClaimCount = 1
    MaxRestarts = 1
    MaxLost = 1
    MaxSlow = 0

INVARIANTS
    TypeOK
    AckedIsTerminal
    ExclusiveExecution
PROPERTIES
    ImplementsScanJobs
