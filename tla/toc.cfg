\* Templates whose second answers differ from the first but add up to the same.
SPECIFICATION Spec
CONSTANTS
    body = body
    toc = toc
    unknown = unknown
    a = a
    b = b
    MaxPages = 4
    Plans <- UnsteadyPlans
    Kinds = {body, toc}
    MaxPagesPerShard = 3
    Images = {}
    Attempts = 1
    MaxExtra = 0
    Faults = {}
INVARIANTS
    AnchorsLand
