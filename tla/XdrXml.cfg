SPECIFICATION Spec
CONSTANTS
  Names = {a, b}
  Tags = {a}
  Chars = {x, sp}
  Space = {sp}
  MaxNodes = 4
  MaxPiece = 2
  MaxText = 3
  MaxMsgs = 2
  MaxLevel = 2
INVARIANTS
  TreeLinked
  NothingLeft
  CursorDepth
PROPERTIES
  ImplementsDocument
CHECK_DEADLOCK FALSE
