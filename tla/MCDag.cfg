CONSTANTS
  r1 = r1
  r2 = r2
  n1 = n1
  n2 = n2
  old = old
  new = new
  alice = alice
  bob = bob
  Run = {r1, r2}
  Node = {n1, n2}
  Desc = {old, new}
  Requested <- MCRequested
  Revised <- MCRevised
  tenant <- MCTenant
  Reviewed = {r1}
  max_tasks = 2
  max_replans = 1
  Score = {0, 1}
  threshold = 1
  total = 1
  per_tenant = 1
  max_inflight = 2
  max_tenant_inflight = 2
  max_model_calls <- MCCalls
  NoResult = NoResult
SPECIFICATION FairSpec
INVARIANTS
  ResultsAreConsistent
  CapacityIsExact
  BudgetFailsClosed
PROPERTIES
  RunsEnd
CHECK_DEADLOCK FALSE
