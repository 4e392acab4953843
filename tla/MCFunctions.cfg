CONSTANTS
  Names = {"A", "B"}
  FuncKeys <- MCKeys
  Soft <- MCSoft
  Library <- MCLibrary
  HostFuncs <- MCHost
  Reading = {}
  Embedded = 4
  Custom = 6
  ParamLists <- NoData
  ArgSets <- NoArgs
  NoFunc = "none"
  Reloads = TRUE
  MaxMade = 2
  MaxCalls = 2
  MaxFuncs = 3
  MaxDepth = 3
SPECIFICATION Spec
INVARIANTS TypeOK FuncsLead UsesFound NamesLead CallsLead
