SPECIFICATION Spec
CONSTANTS
  OldTables = {"hourly_rollups", "hourly_fault_counts"}
  KeyedTables = {"hourly_fault_counts"}
  Keys = {"A", "B"}
  Retention = 2
  PruneEvery = 1
  MaxTime = 5
  MaxRows = 2
  MaxFailures = 2
INVARIANTS
  TypeOK MigrationKeepsHistory GapsAreAbsences OnlyExpiredRowsAreLost
CHECK_DEADLOCK FALSE
