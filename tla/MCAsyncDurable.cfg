CONSTANTS
  Inline = {}
  Worker = {w1, w2}
  InlineTask = {}
  DurableTask = {t1}
  None = None
  MaxClaims = 2
  Mortal = {w1}
  Cancellable = {t1}
  MaxConcurrent = 1
  MaxInflight = 1
SPECIFICATION FairSpec
INVARIANTS
  SuccessIsEarned
  EpochsAreExclusive
PROPERTIES
  ImplementsLifecycle
  EventuallyTerminal
  FencedExecutorStops
CHECK_DEADLOCK FALSE
