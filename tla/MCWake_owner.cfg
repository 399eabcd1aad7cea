SPECIFICATION Spec
CONSTANTS
    Cpus = {c1, c2}
    Tasks = {t1, t2}
    Waiters = {t1}
    Idle = Idle
    NoTask = NoTask
    Scenes <- ProcessScenes
INVARIANT DrainedByOwner
