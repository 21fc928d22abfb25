CONSTANTS
  Call = {c1, c2, c3, c4}
  Stream = {c1}
  max_concurrent = 3
  failure_threshold = 3
SPECIFICATION Spec
INVARIANTS
  TrippedByFaults
CHECK_DEADLOCK FALSE
