CONSTANTS
  Call = {c1, c2, c3}
  Stream = {c1}
  max_concurrent = 2
  failure_threshold = 2
  MaxText = 5
  max_improvements = 1
  maxsize = 5
  Request = {q1, q2}
  Member = {1, 2, 3}
  LegacyLevels <- MCLevels
  max_candidates = 2
  worker_slots = 2
  yes = yes
  YES = YES
  no = no
  Answer = {yes, YES, no}
  casefold <- MCCasefold
  Dependency = {mcp, orders}
  Required = {mcp}
  agent_enabled = TRUE
  replay_required = TRUE
  mcpProvider = mcp
SPECIFICATION EndpointsSpec
INVARIANTS
  BulkheadIsExact
  SingleProbe
  CircuitMatchesFailures
  FramesIgnoreChunking
  GatherIsClean
  ReadyIsTrue
PROPERTIES
  AdmitsAgain
  StreamEnds
CHECK_DEADLOCK FALSE
