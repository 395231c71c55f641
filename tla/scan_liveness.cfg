SPECIFICATION FairSpec

CONSTANTS
    None = None
    c1 = c1
    c2 = c2
    Consumers = {c1, c2}
    NumEntries = 2
    Foreign = {}
    NumTables = 1
    ConfigOf <- OneTable
    ClaimCount = 1
    MaxRestarts = 2
    MaxLost = 2
    MaxSlow = 0

PROPERTY EveryJobEnds
