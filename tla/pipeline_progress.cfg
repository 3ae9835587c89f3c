SPECIFICATION Spec
CONSTANTS
    N = 3
    Capacity = 2
    None = None
INVARIANT
    FullAtTheEnd
