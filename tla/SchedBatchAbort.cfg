SPECIFICATION Spec
CONSTANTS
  KP <- MCKP
  Event <- MCEvent
  Root <- MCRoot
  Arrival <- MCArrival
  Parent <- MCParent
  Kp <- MCKp
  Sig <- MCSig
  LP <- MCLP
  Lp <- MCLp
  Models <- MCModels
  OrigRc = {"a6"}
  NoEvent = NoEvent
  Pools = {9}
  ReadBuffer = 1
  MBlock = 2
  GvtInterval = 5
  MaxLookahead = 8
  MaxFail = 3
  MaxSig = 10
INVARIANT
  HeadIsMax
