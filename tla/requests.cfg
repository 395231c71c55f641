SPECIFICATION Spec
CONSTANTS
    Expr = Expr
    NoName = NoName
    Junk = Junk
    Environments <- SomeEnvironments
    Asked <- SomeRequests
    Content <- SomeContent
    BadTables = {"loose"}
    Retries = {0, 2}
    MaxFaults = 1
CHECK_DEADLOCK FALSE
INVARIANTS
    RequestsTypeOK
    StartsWhole
    TargetsApart
    OwnersResolve
    AnswerIsScope
    SavedKeepsUp
    AiNeverBlocks
    OnlyOwnersAnswer
    ScanReachesOwners
    
