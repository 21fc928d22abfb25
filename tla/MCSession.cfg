CONSTANTS
  r1 = r1
  r2 = r2
  k1 = k1
  g1 = g1
  g2 = g2
  opA = opA
  opB = opB
  alice = alice
  bob = bob
  Request = {r1, r2}
  IKey = {k1}
  NoKey = NoKey
  Op = {opA, opB}
  Grant = {g1, g2}
  KeyOf <- MCKeyOf
  OpOf <- MCOpOf
  NoGrant = NoGrant
  NoInstance = NoInstance
  Owner = {alice, bob}
  NoSession = NoSession
  NoContext = NoContext
  MaxGen = 2
  MaxCalls = 1
SPECIFICATION Spec
SYMMETRY Symmetry
INVARIANTS
  OneAnswer
  GrantBuysOneWrite
  RefundAnswersAreTrue
PROPERTIES
  WritesAreFenced
CHECK_DEADLOCK FALSE
