SPECIFICATION FairSpec
CONSTANTS
  Keys = {"A"}
  NoKey = "none"
  PulseKeys = {"A"}
  FlushedKeys = {"A"}
  BatchSize = 1
  OverFetch = 2
  MaxTime = 4
  MaxRows = 3
  MaxIntervals = 1
  MaxFailures = 0
PROPERTIES
  ClosedPulsesAreMirrored
CHECK_DEADLOCK FALSE
