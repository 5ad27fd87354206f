SPECIFICATION ConnectionFairSpec
CONSTANTS
  Clients <- MCClients
  BufferSize = 16
  LeftOver = {0}
INVARIANTS
  AnsweredInOrder
  NoneForgotten
PROPERTIES
  AllAnswered
CHECK_DEADLOCK FALSE
