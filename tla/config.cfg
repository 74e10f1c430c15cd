SPECIFICATION Spec
CONSTANTS
  a = "a"
  b = "b"
  h = "10.0.%"
  Absent = Absent
  ExtraKeys = {}
  Servers = {"a", "b"}
  Aliases = {"alias"}
  UserHosts = {"%", "10.0.%"}
  Files <- AllFiles
  Environments <- AllEnvironments
  Commands <- AllCommands
  MaxCommands = 3
  Generated <- ThreePasswords
  Worlds <- AllWorlds
 
PROPERTIES VerificationFindsDrift ChangesAreConfigured BadTokenChangesNothing
CHECK_DEADLOCK FALSE
