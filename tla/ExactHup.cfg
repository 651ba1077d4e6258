SPECIFICATION Spec
CONSTANTS
  Builds = {FALSE}
  Boots <- BaseOnly
  Edits = {}
  Signalled = {"loop"}
  Faults = {}
  MaxNow = 2
  PARAMS = 16
  MATCH_LOGIN_MAX = 2
  SECTION_MAX = 2
  NULL = NULL
  Absent = Absent
  DbFile = DbFile
  Address <- MCAddress
  Paths <- MCPaths
  Atoi <- MCAtoi
  Captures <- MCCaptures
  LogLines <- MCLogLines
INVARIANT
  HupRereads
CHECK_DEADLOCK FALSE
