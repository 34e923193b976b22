SPECIFICATION Spec
CONSTANTS
  PE <- MCPE
  Event <- REvent
  Root <- RRoot
  Src <- RSrc
  Dst <- RDst
  KP <- MCPE
  Kp <- RDst
  Parent <- RParent
  Sig <- RSig
  NoEvent = NoEvent
  MaxSig = 5
  SendBuffer = 1
  GvtInterval = 2
  MaxLookahead = 4
  MBlock = 1
INVARIANTS
  TypeOK
  QuietNetwork
  GvtIsLowerBound
  AntiFindsEvent
  Causality
  BuffersSafe
PROPERTIES
  IsSimulation
  GvtMonotone
