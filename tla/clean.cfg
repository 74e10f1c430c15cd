SPECIFICATION Spec
CONSTANTS
  p1 = p1
  p2 = p2
  p3 = p3
  hand = hand
  s1 = s1
  s2 = s2
  d1 = d1
  d2 = d2
  u1 = u1
  u2 = u2
  token = token
  Absent = Absent
  Admin = Admin
  Invocations = {p1, p2, p3}
  HandPasswords = {hand}
  Sites = {s1}
  Databases = {d1}
  Users = {u1}
  ExtraKeys = {token}
  Schemas = {"public"}
  OtherStrings = {"tok", "oracle", "1st"}
  DefaultDb <- OneDb
  DefaultUser <- OneUser
  Requests <- CleanRequests
  Worlds <- SerialWorlds
  FaultKinds = {"refused"}
  MaxFaults = 2
  Exclusive = TRUE
SYMMETRY Symmetry
INVARIANTS NoPasswordLost
PROPERTIES RollbackIsExact RolledBackChangedNothing
CHECK_DEADLOCK FALSE
