SPECIFICATION PlaySpec
CONSTANTS
  Subsessions <- MCSubsessions
  Ranges <- MCRanges
  Scales <- MCScales
  MaxTracks = 2
  MaxTime = 1
INVARIANTS
  PlaysWhatItSays
  SpeaksForAllTracks
CHECK_DEADLOCK FALSE
