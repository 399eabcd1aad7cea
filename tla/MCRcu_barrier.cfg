CONSTANTS
    Cpus = {c1}
    Readers = {}
    Cbs = {x1}
    Syncs = {}
    Barriers = {b1, b2}
    Tick = Tick
    NoOne = NoOne
    QsAhead = 1
SPECIFICATION Spec
SYMMETRY BarrierSymmetry
INVARIANTS TypeOK BarrierSafe
