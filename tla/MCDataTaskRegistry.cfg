SPECIFICATION RegistrySpec
CONSTANTS
    Tasks = {t1, t2}
    Plans = {p1, p2}
    Executions = {e1, e2}
    Nil = Nil
    PreviewLimit = 1
    TerminalLimit = 1
    CancelLimit = 1
    PreviewLife = 1
    MaxTime = 2
SYMMETRY IdSymmetry
INVARIANTS
    RegistryTypeOK
    WriterOwns
    RunningPhase
    ExecutedOnce
    PreviewsBounded
PROPERTIES
    CancellingEnds
    TerminalIsFinal
CHECK_DEADLOCK FALSE
