SPECIFICATION MCSpec
CONSTANTS
  Parts = {"sync", "file", "script"}
  NoTable = NoTable
  Designs <- DriftDesigns
  Worlds <- SyncWorlds
  Scripts <- ReadableScripts
  Catalogues <- ReplayWorlds
  MaxRows = 3
  MaxRecorded = 2
  MaxChanges = 1
  MaxBroken = 1
INVARIANTS
  SyncHonest
  KeyNeverLost
  FileHonest
  Replays
  RoundTrip
PROPERTIES
  SameContent
CHECK_DEADLOCK FALSE
