CONSTANTS
    t1 = t1
    t2 = t2
    a1 = a1
    a2 = a2
    a3 = a3
    Main = Main
    Thread = {t1, t2}
    Apc = {a1, a2, a3}
    MaxCalls = 2
CHECK_DEADLOCK FALSE
SPECIFICATION FairSpec
INVARIANTS RunOnceInOrder NoLostWakeup
PROPERTY Delivered
