CONSTANTS
  a = a
  b = b
  g = g
  t = t
  Peers <- MCPeers
  Hub = Hub
  None = None
  Broadcast = Broadcast
  Threads = {t}
  Members <- MCMembers
  Groups = {}
  Shapes <- MCShapes
  Filters <- MCOneFilter
  Batches = {1}
  RateLimited = FALSE
  MaxQueue = 2
  MaxAttempts = 1
  MaxDead = 1
  MaxSeq = 3
  NoticeGap = 3
  MaxId = 6
  MaxHandOuts = 1
  MaxWaiters = 1
SPECIFICATION MCSpec
INVARIANTS
  TypeOK
  EveryCopyInOnePlace
  NothingLostInSilence
PROPERTIES
  OnlyLeavingDiscards
