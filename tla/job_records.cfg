SPECIFICATION Spec
CONSTANTS
    NumJobs = 3
    TTL = 2
    MaxTime = 3
    NumTables = 1
    Scanned = {1}
    MaxRuns = 2
    Limits <- ThreeLimits
    None = None
CHECK_DEADLOCK FALSE
INVARIANTS RecordsTypeOK KeptIsListed ResultsOutliveRecord AnswerIsBacked ListIsNewest
PROPERTY EnqueueHeals
