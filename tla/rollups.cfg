SPECIFICATION Spec
CONSTANTS
  Hour = 2
  Day = 4
  Cap = 2
  States = {"AutoCycle", "Maintenance", "Error", "Manual"}
  FaultTypes = {"F"}
  MaxTime = 9
  MaxIntervals = 2
  MaxFailures = 1
INVARIANTS
  TypeOK  BucketsOnce  DayCoversHours
CHECK_DEADLOCK FALSE
