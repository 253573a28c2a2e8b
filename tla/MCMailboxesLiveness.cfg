CONSTANTS
  a = a
  b = b
  g = g
  t = t
  Peers <- MCPeers
  Hub = Hub
  None = None
  Broadcast = Broadcast
  Threads = {t}
  Members <- MCMembers
  Groups = {}
  Shapes <- MCOneShape
  Filters <- MCOneFilter
  Batches = {1}
  RateLimited = FALSE
  MaxQueue = 1
  MaxAttempts = 1
  MaxDead = 1
  MaxSeq = 2
  NoticeGap = 2
  MaxId = 3
  MaxHandOuts = 2
  MaxWaiters = 1
SPECIFICATION MCFairSpec
PROPERTIES
  LeasesEnd
