\* Imports of one pod may overlap in any way.
SPECIFICATION FairSpec
CONSTANTS
    Jobs = {j1, j2}
    Prefixes = {p1, p2}
    MaxSeq = 2
    MaxCrashes = 2
    OneAtATime = FALSE
    Faults = {"id", "save"}
    None = None
INVARIANTS
    DoneLoadable
    PodIsolation
    NoLeftovers
PROPERTIES
    EveryImportEnds
