SPECIFICATION Spec
CONSTANTS
  Nil = Nil
  A = A
  B = B
  OrderKeys = {A, B}
  NonRecoverable = {"E_STOP"}
  MaxInterval = 2
  Slack = 1
  UseStepRuns = TRUE
  StepRunFaults = TRUE
  Orders <- OneOrder
  Events <- StepEvents
  Faults <- StepFaults
  Toggles <- NoRows
  StepRuns <- StepShapes
  ConfigKeys = {}
  MaxLate = 1
  MaxTime = 3
  MaxItems = 4
INVARIANTS
  TypeOK OutcomeHasEvidence SeqIndexIncreasing
CHECK_DEADLOCK FALSE
