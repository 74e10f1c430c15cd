SPECIFICATION Spec
CONSTANTS
  p1 = p1
  p2 = p2
  p3 = p3
  hand = hand
  s1 = s1
  s2 = s2
  d1 = d1
  d2 = d2
  u1 = u1
  u2 = u2
  token = token
  Absent = Absent
  Admin = Admin
  Invocations = {p1}
  HandPasswords = {hand}
  Sites = {s1}
  Databases = {d1}
  Users = {u1}
  ExtraKeys = {token}
  Schemas = {"public"}
  OtherStrings = {"tok", "oracle", "1st"}
  DefaultDb <- OneDb
  DefaultUser <- OneUser
  Requests <- DeleteRequests
  Worlds <- ProvisionedOnly
  FaultKinds = {"refused"}
  MaxFaults = 1
  Exclusive = TRUE
PROPERTIES RemainingSecretsResolve
CHECK_DEADLOCK FALSE
