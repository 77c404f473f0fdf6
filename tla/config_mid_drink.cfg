SPECIFICATION Spec
CONSTANTS
  Nil = Nil
  A = A
  B = B
  OrderKeys = {A, B}
  NonRecoverable = {"E_STOP"}
  MaxInterval = 9
  Slack = 1
  UseStepRuns = FALSE
  StepRunFaults = FALSE
  Orders <- OneOrder
  Events <- DrinkEvents
  Faults <- NoRows
  Toggles <- NoRows
  StepRuns <- NoRows
  ConfigKeys = {"cip_interval"}
  MaxLate = 0
  MaxTime = 3
  MaxItems = 4
INVARIANTS
  CompletionReported
CHECK_DEADLOCK FALSE
