CONSTANTS
    t1 = t1  t2 = t2  h1 = h1  h2 = h2  h3 = h3  k1 = k1  k2 = k2
    Threads <- MCThreads
    Handles <- MCHandles
    GDHandles <- MCGDHandles
    BadStoreConfig = {}
    BadOptimizerConfig = {}
    Keys <- MCOneKey
    InitValue = 0
    OverwriteVals = {5}
    GradVals = {1}
    MaxCalls = 3
    NoThread = NoThread  NoStore = NoStore  Absent = Absent  EmptyHandle = EmptyHandle

SPECIFICATION FairSpec
PROPERTY EveryCallReturns
\* A deadlock is itself a violation of EveryCallReturns (a blocked handler
\* never returns), so it is reported through the property; the safety run
\* MC_KnowledgeBankService.cfg checks deadlock freedom.
CHECK_DEADLOCK FALSE
