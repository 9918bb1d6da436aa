SPECIFICATION Spec
CONSTANTS
    Ids = {o1, o2, o3, o4, o5}
    Areas <- MCAreas
    MaxObjects <- MCMaxObjects
    WordMax = 127
    PageSize = 8
    AlignedThreshold = 16
    HugepageThreshold = 32
    HugeAlignment = 16
    Shapes <- MCShapes
    Alignments = {0, 2, 3, 16}
    Addresses = {8, 10, 12, 16, 20, 32}
    Offsets = {0, 4, 7, 12, 120}
    FileLengths = {11, 40, 127}
    Powers = {1, 2, 4, 8, 16, 32, 64, 128}
SYMMETRY Interchangeable
INVARIANTS LoggerOutlivesCalls
CHECK_DEADLOCK FALSE
