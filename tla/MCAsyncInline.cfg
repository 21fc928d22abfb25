CONSTANTS
  Inline = {i1}
  Worker = {}
  InlineTask = {t1, t2}
  DurableTask = {}
  None = None
  MaxClaims = 1
  Mortal = {i1}
  Cancellable = {t1}
  MaxConcurrent = 1
  MaxInflight = 1
SPECIFICATION FairSpec
INVARIANTS
  LeaseIsWatched
  RegistryTracksWork
  CapacityRespected
  CancelAnswerIsTrue
PROPERTIES
  FencedExecutorStops
  EventuallyTerminal
  ShutdownCompletes
CHECK_DEADLOCK FALSE
