SPECIFICATION Spec
CONSTANTS
  Hosts = {1, 2}
  AuthMax = 1
  AuthGrow = 1
  Timeout = 1
  Flush = 1
  Interruptible <- MCAsync
  Faults = {}
  MaxNow = 3
  MaxEntries = 2
  Absent = Absent
  Fragment = Fragment
PROPERTY
  RelayReplacedWhole
