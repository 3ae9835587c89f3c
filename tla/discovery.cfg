SPECIFICATION Spec
CONSTANTS
    Requests = {r1, r2}
    s1 = s1
    s2 = s2
    n1 = n1
    Sets <- SomeSets
    Namespaces = {n1}
    NamespaceOf <- SharedNamespace
    TTL = 1
    MaxRun = 1
    MaxTime = 3
    None = None
SYMMETRY Interchangeable
INVARIANTS
    TypeOK
    AgeBounded
    NamespacesOnce
    OnlyFailedAreMissing
