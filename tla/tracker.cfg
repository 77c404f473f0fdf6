SPECIFICATION Spec
CONSTANTS
  Nil = Nil
  A = A
  B = B
  OrderKeys = {A, B}
  NonRecoverable = {"E_STOP"}
  MaxInterval = 2
  Slack = 1
  UseStepRuns = FALSE
  StepRunFaults = FALSE
  Orders <- OneOrder
  Events <- CycleEvents
  Faults <- CycleFaults
  Toggles <- CycleToggles
  StepRuns <- NoRows
  ConfigKeys = {"cip_interval"}
  MaxLate = 0
  MaxTime = 3
  MaxItems = 4
CONSTRAINT StartsAtZero
INVARIANTS
  IntervalsDisjoint   OccupancyDisjoint OutcomeHasEvidence NothingLostInside OpenBounded DoorResetsExact
CHECK_DEADLOCK FALSE
