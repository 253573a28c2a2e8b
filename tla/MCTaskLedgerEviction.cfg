CONSTANTS
  a = a
  b = b
  c = c
  g = g
  Peers = {a, b}
  Broadcast = Broadcast
  Groups = {g}
  Members <- MCMembers
  Runners = {}
  MaxTasks = 1
  MaxSent = 2
SPECIFICATION FairSpec
PROPERTIES
  DeadlineEnds
  KeepsContract
