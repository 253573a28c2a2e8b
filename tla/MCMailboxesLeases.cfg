CONSTANTS
  a = a
  b = b
  g = g
  t = t
  Peers <- MCPeers
  Hub = Hub
  None = None
  Broadcast = Broadcast
  Threads = {t}
  Members <- MCMembers
  Groups = {g}
  Shapes <- MCThreadShapes
  Filters <- MCThreadFilters
  Batches = {2}
  RateLimited = TRUE
  MaxQueue = 1
  MaxAttempts = 2
  MaxDead = 1
  MaxSeq = 2
  NoticeGap = 2
  MaxId = 4
  MaxHandOuts = 3
  MaxWaiters = 1
SPECIFICATION MCSpec
PROPERTIES
  ExpiredNeverHandedOut
  AttemptsAreKept
  OnlyNackRetriesExhausted
  KeepsContract
