SPECIFICATION FairSpec

CONSTANTS
    None = None
    c1 = c1
    Consumers = {c1}
    NumEntries = 1
    Foreign = {}
    NumTables = 1
    ConfigOf <- OneTable
    ClaimCount = 10
    MaxRestarts = 1
    MaxLost = 0
    MaxSlow = 0

PROPERTY EveryJobEnds
