\* Two tasks on two slots; one ends while the other still renders.
SPECIFICATION Spec
CONSTANTS
    t1 = t1
    t2 = t2
    Tasks = {t1, t2}
    Concurrency = 2
    Retries = 1
    Unsendable = {}
    Faults = {"crash"}
SYMMETRY TaskSymmetry
INVARIANTS
    DisposedPoolIsDead
