SPECIFICATION FairSpec

CONSTANTS
    None = None
    c1 = c1
    c2 = c2
    Consumers = {c1, c2}
    NumEntries = 1
    Foreign = {}
    NumTables = 1
    ConfigOf <- OneTable
    ClaimCount = 10
    MaxRestarts = 1
    MaxLost = 0
    MaxSlow = 1

PROPERTY EveryJobEnds
