CONSTANTS
  a = a
  b = b
  r1 = r1
  r2 = r2
  t1 = t1
  p = p
  q = q
  o = o
  m = m
  n = n
  jf = jf
  y = y
  t = t
  d = d
  u = u
  e = e
  c = c
  i1 = i1
  i2 = i2
  nick = nick
  yes = yes
  no = no
  None = None
  Admin = Admin
  HerdrPeers = {a}
  CliPeers = {b}
  Runs = {r1, r2}
  Calls = {t1}
  Peers = {p, q}
  AckStatuses = {"working", "done"}
  MaxAcks = 3
  Members = {m, n}
  Operators = {o}
  MaxWrites = 3
  JsonFiles = {jf}
  ListFiles = {y}
  TomlFiles = {t}
  PatchFiles = {d}
  Urls = {u}
  Entries = {e}
  Comments = {c}
  Ids = {i1, i2}
  Aliases = {nick}
  Cards = {yes, no}
  Willing = {yes}
  Unset = Unset
  MaxProfiles = 1
  MaxNow = 4
SPECIFICATION Spec
CHECK_DEADLOCK FALSE
INVARIANTS
  InputsApart
  WhatWasLostIsShown
  OthersAreKept
  AnnouncedIsSeen
PROPERTIES
  RunsAreAnswered
  RenameNeitherEndsNorReopens
  TableFollowsTheFile
