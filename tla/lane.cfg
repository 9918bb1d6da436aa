\* One lane with two inputs, two graph ids, a downstream stream; every native call may fail.
SPECIFICATION ChainSpec
CONSTANTS
    GraphIds = {g1, g2}
    None = None
    INPUTS = 2
    QueueBound = 9
INVARIANTS
    ReplayIsGuarded
    NoReleaseUnderReplay
    NoReuseUnderConsumer
    ConsumerReadsFinishedOutput
PROPERTIES
    ReusableOnlyWhenSettled
    ChainBecomesReady
