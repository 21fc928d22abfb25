CONSTANTS
  planned = planned
  n1 = n1
  n2 = n2
  syn = syn
  Key <- MCKey
  DependsOn <- MCDependsOn
  Synthesis <- MCSynthesis
  PlanKey = planned
  Node <- MCNode
  FirstNode = n1
  kind = "PROCESS"
  refund_start_allowed = FALSE
  MaxTasks = 2
  MaxEpoch = 2
  max_calls = 2
  MaxOperations = 3
  None = None
  NoState = NoState
SPECIFICATION PlanningSpec
INVARIANTS
  CallsAreReserved
  DeliveredIsCommitted
  InputsAreCurrent
  PlanIsFixed
PROPERTIES
  CheckpointIsMonotone
CHECK_DEADLOCK FALSE
