SPECIFICATION FairSpec
CONSTANTS
  s1 = s1
  s2 = s2
  s3 = s3
  n1 = n1
  n2 = n2
  None = None
  Streams = {s1, s2, s3}
  Names = {n1, n2}
  SessionIds = {1, 2}
  Reclamation = 2
  NameOf <- MCNameOf

INVARIANTS
  TypeOK
  RefCountExact
  ReachableLive
PROPERTIES
  ImplementsDirectory
  SilentSessionsEnd
  WithdrawnStreamsClose
CHECK_DEADLOCK FALSE
