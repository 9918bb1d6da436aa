\* Four threads share two lanes: two can sleep while the others return lanes or barge in.
\* Three cells, the least number with a push between two others and a pop.
SPECIFICATION HandoverSpec
CONSTANTS
    Threads = {t1, t2, t3, t4}
    Lanes = {l1, l2}
    None = None
    Cells = {c1, c2, c3}
    Nil = Nil
INVARIANTS LaneHasOneOwner NoSleeperBesideIdleLane StackIsExact CellAccessIsExclusive
PROPERTIES IdleLaneIsTaken ReclaimEmptiesTheStack
