SPECIFICATION MCSpec
CONSTANTS
  Parts = {"values"}
  None = None
  Tables <- TwoTables
  Rows <- SomeRows
  ForeignKeys <- Graphs
  Modes <- AllModes
  Engines = {"network", "sqlite"}
  Batch = 1
  MaxDrift = 1
  MaxFaults = 1
  Columns <- SomeColumns
  Targets = {"mysql", "postgres", "sqlserver", "sqlite"}
  TargetEngines = {"mysql", "postgres", "sqlserver", "sqlite"}
  Sources = {"mysql", "sqlserver", "clickhouse"}
  MaxOdd = 1
  MaxAlters = 1
  Operations <- SomeSpools
  PageSizes = {0, 1, 2, 3, 4}
  MaxPageSize = 3
  PageBudget = 3
INVARIANT
  AcceptedVerifies
CHECK_DEADLOCK FALSE
