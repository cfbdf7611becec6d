SPECIFICATION MCSpec
CONSTANTS
  Tables <- TwoTables
  Rows <- FewRows
  ForeignKeys <- ChildFirst
  Modes = {"mirror", "replace"}
  Engines = {"network", "sqlite"}
  Batch = 1
  MaxDrift = 0
  MaxFaults = 1
  Inputs <- SortInputs
  SortRow = 2
  SortMemory = 16
  SortRun = 2
  SortDisk = 45
  SortFaults = 1
  Sources <- Mixed
  Adapters <- AllAdapters
  MaxRow = 3
  Memory = 18
  Disk = 18
  Overhead = 1
  EntryBytes = 1
  MayFail = TRUE
  MayCancel = TRUE
INVARIANTS
  SnapshotExact
  SortExact
PROPERTIES
  StagesEnd
CHECK_DEADLOCK FALSE
