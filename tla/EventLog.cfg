SPECIFICATION FairSpec
CONSTANTS
  MaxTs = 3
  MaxRows = 5
INVARIANTS
  ShippedIsPrefix
PROPERTIES
  EveryRowShips
CHECK_DEADLOCK FALSE
