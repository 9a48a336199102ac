\* Two calls for the same plan of two shards, one after the other or at the
\* same time; one of them keeps the cache.
SPECIFICATION Spec
CONSTANTS
    first = first
    second = second
    Runs = {first, second}
    N = 2
    Results <- TwoShards
    PageCounts = {1, 2}
    Wanted = {"end"}
    KeepCache = {first}
    Faults = {"worker", "store", "listener", "assemble", "crash"}
INVARIANTS
    TypeOK
    LiteralsRight
    StoredIsFound
PROPERTIES
    CacheKept
