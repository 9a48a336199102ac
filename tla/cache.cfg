\* Two caches on one directory, opened, closed and removed in any order: put and
\* render races, late results of failed runs, every operation of the file system
\* may fail, and crashes.
SPECIFICATION Spec
CONSTANTS
    c1 = c1
    c2 = c2
    m1 = m1
    r1 = r1
    Caches = {c1, c2}
    Measures = {m1}
    Renders = {r1}
    Overlap = TRUE
    Stragglers = TRUE
    Faults = {"mkdir", "read", "write", "rm", "crash"}
SYMMETRY CacheSymmetry
INVARIANTS
    TypeOK
    IntactUnlessOverlapped
    CleanupHonoured
PROPERTIES
    ManifestOnlyGrows
CHECK_DEADLOCK FALSE
