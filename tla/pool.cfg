\* Three tasks on one slot, which is handed from waiter to waiter; every fault,
\* two payloads that cannot be sent, and an adapter that may hang.  A child that
\* never got a request may outlive the run.
SPECIFICATION FairSpec
CONSTANTS
    t1 = t1
    t2 = t2
    t3 = t3
    Tasks = {t1, t2, t3}
    Concurrency = 1
    Retries = 1
    Unsendable = {t2, t3}
    Faults = {"errorReply", "crash", "spawnError", "listenerThrows", "listenerAborts"}
INVARIANTS
    TypeOK
    AbortReachesAll
    WorkersHoldSlots
PROPERTIES
    SemaphoreSpec
    EveryWorkerReaped
    AbortDrains
CHECK_DEADLOCK FALSE
