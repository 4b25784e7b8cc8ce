CONSTANTS
  Addrs = {1, 2, 3}
  Accums = {0, 1, 2}
  MaxVals = 3
  NilVal = NilVal
  Panic = Panic
SPECIFICATION Spec
INVARIANT ProposerIsBest
CHECK_DEADLOCK FALSE
