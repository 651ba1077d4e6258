SPECIFICATION Spec
CONSTANTS
  Hosts = {1, 2}
  AuthMax = 1
  AuthGrow = 1
  Timeout = 1
  Flush = 1
  Interruptible <- MCAsync
  Faults = {"write"}
  MaxNow = 3
  MaxEntries = 2
  Absent = Absent
  Fragment = Fragment
INVARIANTS
  TypeOK
  MemorySafe
  RelayOnlyServed
  RelayMirrorsTable
  TableSearchable
  ActiveKept
  ExitsForCause
PROPERTIES
  ReplacedWholeInCalm
CONSTRAINT MCUpsets
