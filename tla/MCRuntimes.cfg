SPECIFICATION MCSpec
CONSTANTS
    t1 = t1
    t2 = t2
    t3 = t3
    p1 = p1
    p2 = p2
    c1 = c1
    c2 = c2
    Tasks = {t1, t2, t3}
    Plans = {p1, p2}
    Executions = {t1, t2, t3}
    Callers = {c1, c2}
    Timers = {m1}
    NetworkTasks = {t1}
    Nil = Nil
    PreviewLimit = 2
    TerminalLimit = 2
    CancelLimit = 1
    PreviewLife = 1
    MaxTime = 1
    HistoryLimit = 3
    MaxCrashes = 1
INVARIANTS
    RuntimeTypeOK
    HonestResult
    CancelHonoured
    DurableIntent
    WriterHasThread
    OneTransaction
    ExecutionStartedOnce
CHECK_DEADLOCK FALSE
