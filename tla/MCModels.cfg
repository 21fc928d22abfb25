CONSTANTS
  Call = {c1, c2}
  Reserved = 2
  Usage = {1, 3}
  MaxSlots = 1
  MaxText = 2
  MaxRecords = 1
SYMMETRY Symmetry
SPECIFICATION Spec
INVARIANTS
  ChargesAreRight
  StreamsAreClosed
  ConversationIsWhole
  SummaryIsHonest
  GapsAreCounted
CHECK_DEADLOCK FALSE
