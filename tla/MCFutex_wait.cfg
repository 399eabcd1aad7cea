CONSTANTS
    w1 = w1
    w2 = w2
    t1 = t1
    t2 = t2
    a1 = a1
    Words = {w1, w2}
    Tasks = {t1, t2}
    Wakers = {a1, a2}
    Sender = Sender
    Irq = Irq
    NoWord = NoWord
    NoTask = NoTask
    IntMax = 4
    Configs <- WaitConfigs
SPECIFICATION FairSpec
INVARIANTS TypeOK WakeCounted NoLostWake
PROPERTIES TakenReturns TimedReturns
