\* merge(), assemble() and extract() write to one output path at the same
\* time; anything may fail, be cancelled, or die.
SPECIFICATION FairSpec
CONSTANTS
    merge = merge
    assemble = assemble
    extract = extract
    output = output
    Ops = {merge, assemble, extract}
    Paths = {output}
    Kind <- KindOf
    Target <- TargetOf
    Inputs <- InputsOf
    Faults = {"arguments", "native", "callback", "selection", "rename", "stat", "rm", "crash"}
INVARIANTS
    TypeOK
    OutputsWhole
    SettledAsPublished
    NoLeftovers
PROPERTIES
    EveryCallSettles
CHECK_DEADLOCK FALSE
