SPECIFICATION Spec
CONSTANTS
    Paths = {c1, c2}
    Schemas = {s1, s2}
    Ais = {a1}
    NoAi = NoAi
    Owners = {o1}
    NoOwner = NoOwner
    Absent = Absent
    Torn = Torn
    Unknown = Unknown
    Procs = {edits, scan1, scan2}
    Editors = {edits}
    Modes <- ThreeModes
    MaxOps = 3
    MaxFaults = 1
SYMMETRY Symmetry
CHECK_DEADLOCK FALSE
INVARIANTS StoreTypeOK Readable AnnotationsKept IndexComplete
PROPERTIES ExportsAgree ImplementsDocs
