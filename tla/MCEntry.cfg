CONSTANTS
  Machine <- MCMachine
  EnvSize = 2
  Runs <- MCRuns
  FloatOf <- MCFloatOf
  HalfRange = 32768
SPECIFICATION Spec
INVARIANTS TypeOK HandedOver Delivered Judged TextsApart
