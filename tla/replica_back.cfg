SPECIFICATION Spec
CONSTANTS
  Keys = {"A", "B"}
  MaxBack = 1
  MaxTs = 2
  MaxIntervals = 3
  MaxFailures = 0
INVARIANTS
  TypeOK DwellsHaveParent
PROPERTIES
  CyclesImplementLog RowsOnlyFilled
CHECK_DEADLOCK FALSE
