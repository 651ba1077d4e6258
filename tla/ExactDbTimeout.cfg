SPECIFICATION CleaningSpec
CONSTANTS
  Builds = {TRUE}
  Boots <- DbOnly
  Edits = {}
  Signalled = {"loop"}
  Faults = {}
  MaxNow = 4
  PARAMS = 16
  MATCH_LOGIN_MAX = 2
  SECTION_MAX = 2
  NULL = NULL
  Absent = Absent
  DbFile = DbFile
  Address <- MCAddress
  Paths <- MCPaths
  Atoi <- MCAtoi
  Captures <- MCCaptures
  LogLines <- MCLogLines
PROPERTY
  ExpiredRemoved
CHECK_DEADLOCK FALSE
