SPECIFICATION Spec
CONSTANTS
  PreferredSize = 4
  MaxSize = 7
  BufferSize = 13
  Frequency = 90000
  StartTime = 5
  MaxTime = 6
  MaxStarts = 2
  TimestampMod = 65536
  SeqMod = 4
  RtcpPreferred = 8
  RtcpMax = 12
  RtcpBuffer = 12
  CnameLength = 3
  MaxInterval = 2
  DelayUnit = 1
  MaxReports = 2
INVARIANTS
  PacketsWellFormed
  PresetIsUsed
  ReportsTruthful
CHECK_DEADLOCK FALSE
