SPECIFICATION ReadySpec
CONSTANTS
    Tasks = {t1}
    Plans = {p1}
    Executions = {t1}
    Callers = {c1, c2}
    Timers = {}
    NetworkTasks = {t1}
    Nil = Nil
    PreviewLimit = 2
    TerminalLimit = 1
    CancelLimit = 1
    PreviewLife = 1
    MaxTime = 0
    HistoryLimit = 1
    MaxCrashes = 0
PROPERTIES DiscardSparesExecution
CHECK_DEADLOCK FALSE
