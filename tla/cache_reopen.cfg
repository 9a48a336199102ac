\* A run opens the directory while the previous one removes it.
SPECIFICATION Spec
CONSTANTS
    c1 = c1
    c2 = c2
    m1 = m1
    r1 = r1
    Caches = {c1, c2}
    Measures = {m1}
    Renders = {}
    Overlap = TRUE
    Stragglers = FALSE
    Faults = {}
INVARIANTS
    OpenIsIntact
