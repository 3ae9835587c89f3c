SPECIFICATION Spec
CONSTANTS
    N = 2
    MaxPolls = 2
    MaxLoads = 2
    MaxFaults = 1
    MaxId = 2
    None = None
INVARIANTS
    TypeOK
    OneImport
    ListedCanBeOpened
    PageMatchesSelection
PROPERTIES
    PageSettles
