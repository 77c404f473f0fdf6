SPECIFICATION Spec
CONSTANTS
  Hour = 2
  Day = 4
  Cap = 2
  States = {"AutoCycle", "HomeIdle"}
  FaultTypes = {}
  MaxTime = 7
  MaxIntervals = 2
  MaxFailures = 0
INVARIANTS
  DrinksCountedInTheirHour
CHECK_DEADLOCK FALSE
