SPECIFICATION Spec
CONSTANTS
  Names = {"root", "elt", "name", "next", "kind", "dots"}
  Chars = {1, 2, 3, 7, 32}
  Space = {32}
  MaxNodes = 20
  Defs <- TestDefs
  Objects <- TestObjects
  DocTypes = {"person", "shape", "mixed", "fixed"}
  DocTags = {"name", "next", "kind", "dots"}
  DocNodes = 4
  DocText = 1
INVARIANTS
  LabelsAreFields
  CursorIsLabels
  RoundTrip
  DecodesDocument
CHECK_DEADLOCK FALSE
