\* Two runs of one session, with borrowed or owned inputs; shapes, plans and runtimes.
SPECIFICATION SessionUseSpec
CONSTANTS
    Runs = {r1, r2}
    Entries <- MCEntries
    Requests <- MCRequests
    Fallbacks <- MCFallbacks
    MaxShapes = 3
    ElementLimit = 8
    HashBits = 3
    Sessions = {"s1", "s2"}
    Streams = {"t1", "t2"}
    SessionStreams <- MCSessionStreams
    None = None
    ServedBuilders <- MCServedBuilders
    max_buckets = 2
    StreamLists <- MCStreamLists
    LaneCounts = {1, 2}
    MaxRuntimes = 2
    MaxGraphId = 3
INVARIANTS StateIsFreedOnce TakeFollowsWrite ClassifyIsBest NoAliasedReplay OnlyPlannedShapesCapture
PROPERTY RunResolves
CHECK_DEADLOCK FALSE
