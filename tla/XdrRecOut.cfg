SPECIFICATION OutSpec
CONSTANTS
  Unit = 2
  SendSize = 8
  OpaqueSizes = {1, 3, 7}
  InlineSizes = {2}
  Seekable = TRUE
  MaxPut = 10
  MaxRecords = 2
  MaxFails = 1
  MaxMarks = 2
INVARIANTS
  OutTypeOK
  FingerInFragment
  NoEmptyInnerFragment
  StreamIsRecords
  FragSentExact
  BufferHoldsTail
PROPERTIES
  SetPosIsExact
  PartlySentIsFlushed
CHECK_DEADLOCK FALSE
