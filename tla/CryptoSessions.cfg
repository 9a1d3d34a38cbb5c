SPECIFICATION Spec
CONSTANTS
    Users = {u1, u2}
    Worker = worker
    Closer = closer
    Sessions = {s1, s2}
    Sids = {1, 2}
    IvSizes = {0, 16}
    MaxJobs = 1
    None = None
SYMMETRY Symmetry
INVARIANTS NoUseAfterFree DestroyedAlone IvIsCopied LockedIsWorkedOn
PROPERTIES ImplementsStore
