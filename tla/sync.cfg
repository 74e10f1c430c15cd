SPECIFICATION Spec
CONSTANTS
  Absent = Absent
  token = token
  ExtraKeys = {token}
  Strings = {"", "postgres", "mysql", "new", "old"}
  Folders <- MCFolders
  Targets <- MCTargets
  Failures = 2
INVARIANTS TypeOK DoneIsReconciled ReplanResumes
PROPERTIES ExtrasUntouched StaysResolvable
CHECK_DEADLOCK FALSE
