SPECIFICATION FairSpec
CONSTANTS
  c1 = c1
  c2 = c2
  k1 = k1
  k2 = k2
  None = None
  Sessions = {c1, c2}
  NumTracks = 2
  Sockets = {k1, k2}
  ChannelIds = 4
  MaxSetups = 4
INVARIANTS
  RecordsAgree
  ChannelsDistinct
PROPERTIES
  RecordsEnd
CHECK_DEADLOCK FALSE
