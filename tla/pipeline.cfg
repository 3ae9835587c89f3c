SPECIFICATION FairSpec
CONSTANTS
    N = 4
    Capacity = 2
    None = None
INVARIANTS
    TypeOK
    ExactlyOnce
    CompleteUnlessFailed
    OpenWhileParsing
    NoStandstill
PROPERTIES
    ImplementsAnalysis
    AllReturn
