SPECIFICATION Spec
CONSTANTS
  Event <- MCEvent
  Received <- MCReceived
  Sig <- MCSig
  Null = Null
  g_tw_hash_size = 3
  SendPe = {1, 2}
  MaxWaiting = 1
  MaxProcessed = 3
  Loads <- MCLoads
INVARIANTS
  Unlinked
  HashedWhileLive
  StoreSound
  FindsRoom
PROPERTY
  IsPriorityQueue
