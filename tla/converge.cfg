SPECIFICATION FairSpec
CONSTANTS
  p1 = p1
  p2 = p2
  p3 = p3
  hand = hand
  s1 = s1
  s2 = s2
  d1 = d1
  d2 = d2
  u1 = u1
  u2 = u2
  token = token
  Absent = Absent
  Admin = Admin
  Invocations = {p1, p2}
  HandPasswords = {hand}
  Sites = {s1}
  Databases = {d1}
  Users = {u1}
  ExtraKeys = {token}
  Schemas = {"public"}
  OtherStrings = {"tok", "oracle", "1st"}
  DefaultDb <- OneDb
  DefaultUser <- OneUser
  Requests <- ConvergeRequests
  Worlds <- ConvergeWorlds
  FaultKinds = {"refused", "lost", "crash"}
  MaxFaults = 2
  Exclusive = TRUE
PROPERTIES AdoptConverges RotateConverges DeleteConverges
CHECK_DEADLOCK FALSE
