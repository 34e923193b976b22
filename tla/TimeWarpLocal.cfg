SPECIFICATION FairSpec
CONSTANTS
  PE <- MCPE
  Event <- LEvent
  Root <- LRoot
  Src <- LSrc
  Dst <- LDst
  KP <- LKP
  Kp <- LKp
  Parent <- LParent
  Sig <- LSig
  NoEvent = NoEvent
  MaxSig = 7
  SendBuffer = 1
  GvtInterval = 3
  MaxLookahead = 9
  MBlock = 1
INVARIANTS
  CommitsCaused
PROPERTIES
  Termination
