SPECIFICATION Spec
CONSTANTS
    n1 = n1
    n2 = n2
    a = a
    r = r
    b = b
    NoProc = NoProc
    Nodes = {n1, n2}
    Procs = {a, r, b}
    NodeOf <- MCNodeOf
    Recorders = {r}
    TTL = 4
    RefreshInterval = 1
    MaxDelay = 1
    RefreshMayFail = TRUE
    DeleteMayFail = TRUE
    RelockMayFail = TRUE
INVARIANT TypeOK
INVARIANT ExclusionUnlessBreached
INVARIANT HolderKeepsKey
INVARIANT OwnerInvariant
PROPERTY ImplementsLock
