\* Clients start an import of a pod only after the previous one has shown its end.
SPECIFICATION Spec
CONSTANTS
    Jobs = {j1, j2, j3}
    Prefixes = {p1, p2}
    MaxSeq = 3
    MaxCrashes = 2
    OneAtATime = TRUE
    Faults = {"save", "load"}
    None = None
SYMMETRY Interchangeable
INVARIANTS
    TypeOK
    OwnDump
    MemDiskAgree
    StatusIsOwn
PROPERTIES
    HistoryAppendOnly
    LostFileOnlyAfterFailure
    ImplementsResultLog
