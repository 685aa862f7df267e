\* Four tasks, added whenever and in whatever order
CONSTANTS
    t1 = t1
    t2 = t2
    t3 = t3
    t4 = t4
    Task = {t1, t2, t3, t4}
    NoTask = NoTask
SPECIFICATION FairSpec
PROPERTIES ImplementsExecutor EveryTaskRuns
CHECK_DEADLOCK FALSE
