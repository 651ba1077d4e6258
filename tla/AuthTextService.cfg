SPECIFICATION Spec
CONSTANTS
  Hosts = {1, 2}
  AuthMax = 1
  AuthGrow = 1
  Timeout = 2
  Flush = 2
  Interruptible <- MCHarmless
  Faults = {"fopen", "rename", "crash"}
  MaxNow = 8
  MaxEntries = 3
  Absent = Absent
  Fragment = Fragment
INVARIANTS
  RelayFresh
PROPERTIES
  LoginServed
  ServiceSpec
