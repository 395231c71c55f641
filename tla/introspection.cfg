SPECIFICATION Spec
CONSTANTS
    Threads = {t1, t2}
    Servers = {s1, s2}
    Cases <- SomeCases
    PoolSize = 1
    MaxFaults = 1
    Expr = Expr
    NoName = NoName
    None = None
SYMMETRY Symmetry
CHECK_DEADLOCK FALSE
INVARIANTS IntrospectionTypeOK AnswerFromOwnServer RefreshHolds SlotsReturned EmptyHasReason
    PartsAgree ForeignKeysReported DescriptionExact PagesPartition
