\* A write that fails after the output has been truncated.
SPECIFICATION Spec
CONSTANTS
    x = x
    y = y
    U32 = 8
    Paths = {x, y}
    Calls <- RangeCalls
    Versions <- FourVersions
    MaxRanges = 2
    Faults = {"write"}
INVARIANTS
    NothingSurvives
