CONSTANTS
  Names = {"A", "B"}
  FuncKeys <- ReadKeys
  Soft <- ReadSoft
  Library <- ReadLib
  HostFuncs <- ReadHost
  Reading = {1}
  Embedded = 4
  Custom = 6
  ParamLists <- MCParamLists
  ArgSets <- MCArgSets
  NoFunc = "none"
  Reloads = TRUE
  MaxMade = 3
  MaxCalls = 1
  MaxFuncs = 0
  MaxDepth = 1
SPECIFICATION Spec
INVARIANT ReadClosed
