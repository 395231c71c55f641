SPECIFICATION Spec
CONSTANTS
    Paths = {c1, c2}
    Schemas = {s1, s2}
    Ais = {a1}
    NoAi = NoAi
    Owners = {o1}
    NoOwner = NoOwner
    Absent = Absent
    Torn = Torn
    Unknown = Unknown
    Procs = {scan1, scan2}
    Editors = {}
    Modes <- Defaults
    MaxOps = 2
    MaxFaults = 0
SYMMETRY Symmetry
CHECK_DEADLOCK FALSE
INVARIANT IndexMaintained
