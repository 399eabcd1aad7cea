CONSTANTS
    Cpus = {c1}
    Readers = {c1}
    Cbs = {x1}
    Syncs = {}
    Barriers = {b1, b2}
    Tick = Tick
    NoOne = NoOne
    QsAhead = 1
SPECIFICATION CastSpec
PROPERTIES CallbackRuns BarrierReturns
