CONSTANTS
  StackSize = 16
  CallsSize = 3
  HalfRange = 1048576
  MoneyUnit = 10
  HostGas = {0}
  HostInts = {}
  HostTexts <- MCHostTexts
  Documents <- MCDocuments
  Programs <- Endless
SPECIFICATION FairSpec
PROPERTY GasIsOver
