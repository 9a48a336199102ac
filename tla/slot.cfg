\* Four calls in any order, any argument, any result, abort at any time.
SPECIFICATION FairSpec
CONSTANTS
    a1 = a1
    a2 = a2
    a3 = a3
    a4 = a4
    Calls = {a1, a2, a3, a4}
    Careful = TRUE
    NoOutput = NoOutput
INVARIANTS
    TypeOK
    OutputIntact
PROPERTIES
    DocumentSpec
    BusyEnds
CHECK_DEADLOCK FALSE
