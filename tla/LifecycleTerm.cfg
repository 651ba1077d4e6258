SPECIFICATION Spec
CONSTANTS
  Pids = {1, 2}
  Hosts = {11}
  Mishaps = {}
  Absent = Absent
PROPERTIES
  RelayRemoved
