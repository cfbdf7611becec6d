SPECIFICATION MCSpec
CONSTANTS
  Parts = {"transfer", "values", "gate", "preview", "edit"}
  None = None
  Tables <- TwoTables
  Rows <- SomeRows
  ForeignKeys <- Graphs
  Modes <- AllModes
  Engines = {"network", "sqlite"}
  Batch = 1
  MaxDrift = 1
  MaxFaults = 1
  Columns <- SomeColumns
  Targets = {"mysql", "postgres", "sqlserver", "sqlite"}
  TargetEngines = {"mysql", "postgres", "sqlserver", "sqlite"}
  Sources = {"mysql", "sqlserver", "clickhouse"}
  MaxOdd = 1
  MaxAlters = 1
  Operations <- SomeSpools
  PageSizes = {0, 1, 2, 3, 4}
  MaxPageSize = 3
  PageBudget = 3
INVARIANTS
  ValuesIntact
  WritesOnlyPreview
  PagesComplete
PROPERTIES
  Atomic
  CommitsPreview
  BatchExact
  RollbackHonest
CHECK_DEADLOCK FALSE
