SPECIFICATION Spec
CONSTANTS
  Unit = 2
  SendSize = 8
  OpaqueSizes = {3}
  InlineSizes = {}
  Seekable = FALSE
  MaxPut = 8
  MaxRecords = 2
  MaxFails = 0
  MaxMarks = 0
  RecvSize = 4
  GetSizes = {1, 4}
  InlineGets = {2}
  SeekableIn = FALSE
  EofIsError = TRUE
  MaxErrors = 0
  MaxCalls = 4
  AnyLength = {0, 3}
INVARIANTS
  InTypeOK
  BufferIsStream
  FingerAligned
  FbtbcReachesFragmentEnd
PROPERTIES
  SkipRecordAligns
  FailsOnlyAtRecordEnd
  ImplementsRecordPipe
CHECK_DEADLOCK FALSE
