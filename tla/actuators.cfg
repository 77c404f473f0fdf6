SPECIFICATION FairSpec
CONSTANTS
  Keys = {"A", "B"}
  NoKey = "none"
  PulseKeys = {"A", "B", "none"}
  FlushedKeys = {"A"}
  BatchSize = 2
  OverFetch = 2
  MaxTime = 3
  MaxRows = 3
  MaxIntervals = 2
  MaxFailures = 1
INVARIANTS
  TypeOK  AttributionOrderFree
PROPERTIES
  PulsesWrittenOrBlocked
CHECK_DEADLOCK FALSE
