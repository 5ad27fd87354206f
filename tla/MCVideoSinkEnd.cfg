SPECIFICATION SinkSpec
CONSTANTS
  Inputs <- MCInputs
  MaxRead = 4
  MaxSize = 13
  MaxStops = 1
  InputBufferMax = 13
  MaxOutputPacketSize = 5
INVARIANTS
  UnitEndMarked
CHECK_DEADLOCK FALSE
