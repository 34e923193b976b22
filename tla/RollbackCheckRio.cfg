SPECIFICATION Spec
CONSTANTS
  H = 4
  IntBits = 6
  IdBits = 5
  M <- MCM
  A <- MCA
  V = 2
  W = 2
  Conf <- RioPrograms
  Reserve = 1
INVARIANT NoFalseAlarm
