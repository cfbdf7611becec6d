SPECIFICATION FairSpec
CONSTANTS
    Tasks = {t1}
    Plans = {p1}
    Executions = {t1}
    Callers = {c1}
    Timers = {m1}
    NetworkTasks = {t1}
    Nil = Nil
    PreviewLimit = 1
    TerminalLimit = 0
    CancelLimit = 0
    PreviewLife = 1
    MaxTime = 1
    HistoryLimit = 1
    MaxCrashes = 0
PROPERTIES
    TaskEnds
    OrphanPlansRemoved
CHECK_DEADLOCK FALSE
