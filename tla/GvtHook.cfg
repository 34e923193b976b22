SPECIFICATION FairSpec
CONSTANTS
  PE <- MCPE
  Event <- MCEvent
  Root <- MCRoot
  Parent <- MCParent
  Pe <- MCPe
  Kp <- MCKp
  Sig <- MCSig
  Calls = {"h6", "h10"}
  Times = {5, 8, 15}
  Every = {2}
  Modes = {"timestamp", "model_call", "every_n_gvt"}
  End = 14
  MaxSig = 20
PROPERTIES
  HookOnTime
  CallsHonoured
  NotSpurious
  HookComes
