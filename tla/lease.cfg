\* Two runners and two releasers of one captured graph; a third guard overflows the counter.
SPECIFICATION FairSpec
CONSTANTS
    Runners = {n1, n2}
    Releasers = {r1, r2}
    NoThread = NoThread
    GRAPH_LEASE_ACTIVE_MASK = 2
INVARIANTS
    NoRunDuringNativeRelease
    WordIsExact
    NoLostWakeup
PROPERTIES
    ImplementsReleaseExclusion
    WaitersMakeProgress
