SPECIFICATION Spec

CONSTANTS
    None = None
    c1 = c1
    c2 = c2
    Consumers = {c1, c2}
    NumEntries = 1
    Foreign = {}
    NumTables = 3
    ConfigOf <- TwoConfigs
    ClaimCount = 1
    MaxRestarts = 1
    MaxLost = 1
    MaxSlow = 1

SYMMETRY Symmetry

INVARIANTS
    CompletedMeansDescribed
    ResultsBackTheCount
    OneDeliveryIsExact
PROPERTY TerminalLeftByRedelivery
