SPECIFICATION FairSpec
CONSTANTS
  Inputs <- MCInputs
  MaxRead = 4
  MaxSize = 13
  MaxStops = 1
  InputBufferMax = 13
  MaxOutputPacketSize = 5
INVARIANTS
  UnitsInOrder
  UnitsLabelled
  BytesSentInOrder
  StartMarkedOnce
  EachEndMarkedOnce
PROPERTIES
  AllDelivered
CHECK_DEADLOCK FALSE
