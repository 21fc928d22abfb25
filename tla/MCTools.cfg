CONSTANTS
  r1 = r1
  r2 = r2
  Run = {r1, r2}
  Reraises = {r2}
  Action = {read, click}
  Safe = {read}
  Browser = {click}
  MaxCalls <- MCMaxCalls
  agent_max_tokens = 3
  agent_max_repeats = 2
  agent_loop_window = 2
SPECIFICATION Spec
INVARIANTS
  BrowserIsClosed
CHECK_DEADLOCK FALSE
