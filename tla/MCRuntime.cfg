CONSTANTS
  Programs <- MCPrograms
  StackSize = 16
  CallsSize = 3
  HalfRange = 1048576
  MoneyUnit = 10
  HostGas = {0, 2}
  HostInts = {1, 2}
  HostTexts <- MCHostTexts
  Documents <- MCDocuments
SPECIFICATION FairSpec
INVARIANTS TypeOK VarsWellTyped OnlyOverflow HeapMarks HeapReleased StartsTyped EnvironmentKept
PROPERTIES CallerIsolated Terminates
