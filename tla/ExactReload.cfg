SPECIFICATION Spec
CONSTANTS
  Builds = {TRUE, FALSE}
  Boots <- MCBoots
  Edits <- MCEdits
  Signalled <- MCSignalled
  Faults = {"logfile", "db"}
  MaxNow = 2
  PARAMS = 16
  MATCH_LOGIN_MAX = 2
  SECTION_MAX = 2
  NULL = NULL
  Absent = Absent
  DbFile = DbFile
  Address <- MCAddress
  Paths <- MCPaths
  Atoi <- MCAtoi
  Captures <- MCCaptures
  LogLines <- MCLogLines
INVARIANTS
  TypeOK
  TableOfOneFile
  ParsedAsWritten
  ParametersAreTheFile
  StanzaHolds
  
  DumpMissesOneForOne
PROPERTIES
  PublishesWhereItSays
  TimeoutAsConfigured
  HostsOnly
CHECK_DEADLOCK FALSE
