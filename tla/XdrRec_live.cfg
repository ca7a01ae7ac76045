SPECIFICATION FairSpec
CONSTANTS
  Unit = 2
  SendSize = 8
  OpaqueSizes = {3}
  InlineSizes = {}
  Seekable = FALSE
  MaxPut = 4
  MaxRecords = 2
  MaxFails = 0
  MaxMarks = 0
  RecvSize = 4
  GetSizes = {1, 4}
  InlineGets = {2}
  SeekableIn = TRUE
  EofIsError = TRUE
  MaxErrors = 1
  MaxCalls = 3
  AnyLength = {0, 3}
PROPERTIES
  CallsReturn
CHECK_DEADLOCK FALSE
