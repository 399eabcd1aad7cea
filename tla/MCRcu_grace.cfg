CONSTANTS
    Cpus = {c1, c2}
    Readers = {c1, c2}
    Cbs = {x1}
    Syncs = {s1}
    Barriers = {}
    Tick = Tick
    NoOne = NoOne
    QsAhead = 1
SPECIFICATION Spec
SYMMETRY CpuSymmetry
INVARIANTS GraceSafe
PROPERTIES Refines
