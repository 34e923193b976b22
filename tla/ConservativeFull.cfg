SPECIFICATION Spec
CONSTANTS
  PE <- MCPE
  KP <- MCPE
  Event <- MCEvent
  Root <- MCRoot
  Parent <- MCParent
  Pe <- MCPe
  Kp <- MCKp
  Ts <- MCTs
  Sig <- MCSig
  End = 10
  Lookahead = 2
  SendBuffer = 1
  MBlock = 2
  GvtInterval = 3
  MaxLookahead = 4
INVARIANT
  NoPastEvent
