\* Three tasks, so at most three threads: one core thread and two that retire.
SPECIFICATION FairSpec
CONSTANTS
    Tasks = {t1, t2, t3}
    Workers = {w1, w2, w3}
    NoTask = NoTask
    CORE_POOL_SIZE = 1
INVARIANTS
    RunOnce
PROPERTIES
    ExecReturns
    HandsOff
CHECK_DEADLOCK FALSE
