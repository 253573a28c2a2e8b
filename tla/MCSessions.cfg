CONSTANTS
  s1 = s1
  s2 = s2
  s3 = s3
  a = a
  g = g
  x = x
  None = None
  Clients = {s1, s2, s3}
  Ids = {a, g, x}
  ClientName <- MCClientName
  Token <- MCToken
  Managers = {s1, s2}
  Claims = {g, x}
  GroupIds = {g}
  Streaming = {s3}
  Spare = {x}
  MaxSent = 1
SPECIFICATION Spec
SYMMETRY MCAlike
INVARIANTS
  TypeOK
PROPERTIES
  BoundPeersAreLive
  LeaversStayOut
  OneNamespace
  MailFollowsSessions
  OnlyUnattendedMailIsLost
