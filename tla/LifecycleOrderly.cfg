SPECIFICATION Spec
CONSTANTS
  Pids = {1, 2, 3}
  Hosts = {11}
  Mishaps = {"crash", "fail"}
  Absent = Absent
INVARIANTS
  TypeOK
  OneDaemon
  FilesAreTheDaemons
PROPERTIES
  RefusedRightly
