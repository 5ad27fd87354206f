SPECIFICATION Spec
CONSTANTS
  s1 = s1
  s2 = s2
  Sessions = {s1, s2}
  StreamName <- Movie
  Urls <- MCUrls
  Transports <- MCTransports
  NumTracks = 1
  Port = 9
  PortMod = 8
  OtherPorts = {10}
  ReuseFirstSource = FALSE
  MaxStreams = 2
  MaxRead = 1
  FileSize = 2
  BlockSize = 2
INVARIANTS
  PortsExclusive
  ToldPortsBound
  MediaAccounted
  PlayedAsAsked
PROPERTIES
  AwaitedIsAnswered
CHECK_DEADLOCK FALSE
