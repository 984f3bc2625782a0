CONSTANTS
    t1 = t1  t2 = t2  h1 = h1  h2 = h2  h3 = h3  k1 = k1  k2 = k2
    Threads <- MCThreads
    Handles <- MCHandles
    GDHandles <- MCGDHandles
    BadStoreConfig = {}
    BadOptimizerConfig = {}
    Keys <- MCKeys
    InitValue = 0
    OverwriteVals = {5}
    GradVals = {1, 2}
    MaxCalls = 3
    NoThread = NoThread  NoStore = NoStore  Absent = Absent  EmptyHandle = EmptyHandle

SPECIFICATION Spec
SYMMETRY MCSymmetry
PROPERTY GradientAppliedToOwnKey
