\* Calls of all three functions with valid and invalid arguments, while the
\* source is replaced, arrays are edited and anything may fail.
SPECIFICATION Spec
CONSTANTS
    x = x
    y = y
    U32 = 8
    Paths = {x, y}
    Calls <- AllCalls
    Versions <- FourVersions
    MaxRanges = 3
    Faults = {"malformed", "write", "callback", "rename", "stat", "rm"}
INVARIANTS
    TypeOK
    PagesExact
    SlicesRemoved
