CONSTANTS
  Inline = {i1}
  Worker = {}
  InlineTask = {t1}
  DurableTask = {}
  None = None
  MaxClaims = 1
  Mortal = {}
  Cancellable = {t1}
  MaxConcurrent = 1
  MaxInflight = 1
SPECIFICATION Spec
INVARIANTS
  RegistryReleased
CHECK_DEADLOCK FALSE
