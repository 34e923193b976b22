SPECIFICATION Spec
CONSTANTS
  KP <- MCKP
  Event <- MCEvent
  Root <- MCRoot
  Arrival <- MCArrival
  Parent <- MCParent
  Kp <- MCKp
  Sig <- MCSig
  LP <- MCLP
  Lp <- MCLp
  Models <- WrongModels
  OrigRc = {"a6"}
  NoEvent = NoEvent
  Pools = {12}
  ReadBuffer = 1
  MBlock = 2
  GvtInterval = 5
  MaxLookahead = 8
  MaxFail = 3
  MaxSig = 10
PROPERTY SuspendReported
