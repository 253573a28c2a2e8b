CONSTANTS
  c1 = c1
  k1 = k1
  k2 = k2
  s1 = s1
  s2 = s2
  n1 = n1
  m1 = m1
  Commands = {c1}
  McpClients = {k1, k2}
  SessionIds = {s1, s2}
  Conns = {n1}
  None = None
  Members = {m1}
  Manager = m1
  MaxAnswers = 2
SPECIFICATION RecoverySpec
CHECK_DEADLOCK FALSE
PROPERTIES
  AppRecovers
  TableShowsTheHub
