SPECIFICATION Spec
CONSTANTS
  a = "a"
  b = "b"
  h = "10.0.%"
  Absent = Absent
  ExtraKeys = {}
  Servers = {"a", "b"}
  Aliases = {"alias"}
  UserHosts = {"%", "10.0.%"}
  Files <- TwoServers
  Environments <- NoVariables
  Commands <- DeleteCommands
  MaxCommands = 2
  Generated <- ThreePasswords
  Worlds <- EmptyOnly
INVARIANT DeletesWhatItNamed
CHECK_DEADLOCK FALSE
