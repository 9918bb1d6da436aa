SPECIFICATION Spec
CONSTANTS
    Keys = {k1, k2, k3}
    None = None
    MaxBuckets = 2
    LaneCount = 2
    MaxGeneration = 2
    MaxSlots = 3
    MaxGraphs = 3
SYMMETRY ShapeSymmetry
INVARIANTS SlotTableIsExact LanesAreConserved OwnedRunsKeepTheirBucket ReleasedGraphIsQuiet
PROPERTIES IdsAreNeverReissued PlannedShapesAreNeverEvicted
CHECK_DEADLOCK FALSE
