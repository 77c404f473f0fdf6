SPECIFICATION FairSpec
CONSTANTS
  BatchSize = 1
  BadRows = TRUE
  MaxTs = 2
  MaxRows = 3
  MaxFailures = 1
INVARIANTS
  TypeOK LateOnlyAfterLaterTable CursorPassesAppliedRows AppliedOnceUnlessFailed StopLosesNothing
PROPERTIES
  EveryRowApplied
CHECK_DEADLOCK FALSE
