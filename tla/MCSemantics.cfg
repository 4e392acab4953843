CONSTANTS
  Programs <- MCPrograms
  StackSize = 24
  CallsSize = 3
  HalfRange = 1048576
  MoneyUnit = 10
  HostGas = {0}
  HostInts = {}
  HostTexts <- MCHostTexts
  Documents <- MCDocuments
SPECIFICATION SpecMC
INVARIANTS Meets StartsVerified StartsFrugal
INVARIANTS InstructionAligned CallsEnterFunctions CallsNested OperandsPresent TablesReached ValuesFound
PROPERTY FunctionKeepsStack
