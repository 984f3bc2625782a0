CONSTANTS
    c1 = c1  c2 = c2  t1 = t1  t2 = t2  h1 = h1  h2 = h2  k1 = k1  Pad = Pad
    Clients <- MCClients
    Threads <- MCThreads
    Handles <- MCHandles
    GDHandles <- MCGDHandles
    Handle <- MCHandle
    Keys <- MCKeys
    BadStoreConfig = {}
    BadOptimizerConfig = {}
    InitValue = 0
    OverwriteVals = {5}
    GradVals = {1}
    MaxCalls = 3
    MaxBatch = 2
    Dim = 2
    NoThread = NoThread  NoStore = NoStore  Absent = Absent  EmptyHandle = EmptyHandle
    NoClient = NoClient

SPECIFICATION SysSpec
SYMMETRY MCThreadSymmetry
INVARIANT LocalChecksSuffice
