CONSTANTS
  a = a
  b = b
  c = c
  g = g
  Peers = {a, b, c}
  Broadcast = Broadcast
  Groups = {}
  Members <- MCMembers
  Runners = {b}
  MaxTasks = 1
  MaxSent = 1
SPECIFICATION Spec
INVARIANTS
  OverTogether
  DeadlineArmed
