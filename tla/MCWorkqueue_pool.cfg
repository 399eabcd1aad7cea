CONSTANTS
    Cpus = {0, 1}
    a = a
    b = b
    d = d
    Items = {a, b, d}
    MaxThreads = 3
    NoItem = NoItem
    Configs <- PoolConfigs
SPECIFICATION Spec
INVARIANTS TypeOK WorkConserved HeadRestored StoppedPoolEmpty WorkServed
CHECK_DEADLOCK FALSE
