SPECIFICATION ParserSpec
CONSTANTS
  BankSize = 5
  MaxInputFrameSize = 0
  Lookahead = 4
  StreamLength = 9
INVARIANTS
  ParserTypeOK
  BankHoldsTail
  ReadLandsBehind
  NeverAborts
PROPERTIES
  ImplementsByteStream
