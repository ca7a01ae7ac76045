SPECIFICATION Spec
CONSTANTS
  IntBits = 4
  Unit = 4
  ElSize = 2
  Defs <- TestDefs
  Objects <- TestObjects
  Buffers = {8, 32, 100}
  ForeignBuffers = {8, 16, 26}
  ForeignTypes = {"person", "record"}
  ForeignWords = {0, 1, 3, 15}
INVARIANTS
  CopyIsEqual
  HeapIsObject
  NothingLeaked
  EncodesWhatFits
