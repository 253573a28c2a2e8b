CONSTANTS
  b1 = b1
  c1 = c1
  c2 = c2
  m1 = m1
  k1 = k1
  k2 = k2
  v0 = v0
  v1 = v1
  s1 = s1
  r1 = r1
  r2 = r2
  Commands = {c1, c2}
  Monitors = {m1}
  Children = {k1, k2}
  External = External
  None = None
  MaxSent = 3
  Limit = 2
  PoolCap = 2
  Peers = {b1}
  MaxUnderWay = 2
  Keys = {k1, k2}
  Values = {v0, v1}
  Default <- MCDefault
  NoValue = NoValue
  Saves = {s1}
  Sids = {1, 2, 3}
  PageCalls = {r1, r2}
  MaxLosses = 1
  NoSid = NoSid
SPECIFICATION Spec
CHECK_DEADLOCK FALSE
INVARIANTS
  HubIsAttended
  NewestKept
  SavedIsInForce
  StaysConnected
PROPERTIES
  ReadStaysRead
  CatchesUp
