\* Tasks end: when all were pushed and run, or after a crash or an endless
\* join, nothing is left to do.
CHECK_DEADLOCK FALSE
SPECIFICATION FairSpec
CONSTANTS
    w1 = w1
    w2 = w2
    w3 = w3
    t1 = t1
    t2 = t2
    t3 = t3
    t4 = t4
    NoTask = NoTask
    Workers <- MCWorkers
    Tasks <- MCTasks
INVARIANTS
    TypeOK
    NoLostWakeup
    ExitNeedsTask
PROPERTIES
    EveryTaskRuns
    JoinEndsWithEnoughTasks
    ImplementsTaskService
