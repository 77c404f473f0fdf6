SPECIFICATION FairSpec
CONSTANTS
  Keys = {"A", "B"}
  MaxBack = 0
  MaxTs = 2
  MaxIntervals = 2
  MaxFailures = 2

  
PROPERTIES
  CyclesImplementLog DwellsImplementLog CommittedRowsShip
CHECK_DEADLOCK FALSE
