SPECIFICATION Spec
CONSTANTS
  Cases <- TestCases
  NFILES = 7
  Names <- TestNames
  atoi <- TestAtoi
  Legal <- AllLegal
  Library <- TestLibrary
INVARIANTS
  DefinitionsAreInput
  NothingLegalRejected
  CrashLeavesNothing
  NothingOverwritten
  OutputsComplete
  NamesResolve
