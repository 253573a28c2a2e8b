CONSTANTS
  a = a
  g = g
  Ids = {a, g}
  GroupIds = {g}
  Mailed = {g}
  MaxSent = 2
  TaskIds = {1}
  MaxQueue = 1
  HistoryLimit = 1
SPECIFICATION Spec
INVARIANTS
  TypeOK
  QuietDiskIsCurrent
  MailIsAccountedFor
PROPERTY
  RestartKeepsState
