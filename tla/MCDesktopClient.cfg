CONSTANTS
  c1 = c1
  c2 = c2
  k1 = k1
  k2 = k2
  s1 = s1
  s2 = s2
  n1 = n1
  n2 = n2
  Commands = {c1, c2}
  McpClients = {k1, k2}
  SessionIds = {s1, s2}
  Conns = {n1, n2}
  None = None
SPECIFICATION Spec
INVARIANTS
  StreamsAgree
  EveryStreamGetsItsShare
SYMMETRY Symmetry
CHECK_DEADLOCK FALSE
