SPECIFICATION Spec
CONSTANTS
  Names = {"root", "elt", "name", "next", "kind", "dots"}
  Chars = {1, 2, 3, 7, 32}
  Space = {32}
  MaxNodes = 20
  Defs <- ArmlessDefs
  Objects = {}
  DocTypes = {"record"}
  DocTags = {"name", "next", "kind", "dots"}
  DocNodes = 4
  DocText = 2
INVARIANT LabelsAreFields
CHECK_DEADLOCK FALSE
