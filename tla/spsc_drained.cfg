SPECIFICATION Spec
CONSTANTS
    Values = {v1, v2}
    NoValue = NoValue
    Word = 8
    Requested = 3
INVARIANT ClosedAfterDrain
