\* Plans of up to three sections, whose templates answer the same pages in both
\* passes, or more; draws that fetch images, add pages or throw, streams that fail.
SPECIFICATION Spec
CONSTANTS
    body = body
    toc = toc
    unknown = unknown
    a = a
    b = b
    MaxPages = 4
    Plans <- SteadyPlans
    Kinds = {body, toc}
    MaxPagesPerShard = 3
    Images = {"logo", "chart"}
    Attempts = 2
    MaxExtra = 1
    Faults = {"adapter", "draw", "stream"}
INVARIANTS
    TypeOK
    PartitionRight
    PagesNumbered
    AnchorsLand
    ImagesOwned
    WholeWhenResolved
