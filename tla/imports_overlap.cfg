\* Two imports of one pod overlap, as two browser tabs can make them.
SPECIFICATION Spec
CONSTANTS
    Jobs = {j1, j2}
    Prefixes = {p1}
    MaxSeq = 2
    MaxCrashes = 0
    OneAtATime = FALSE
    Faults = {}
    None = None
PROPERTY
    HistoryAppendOnly
