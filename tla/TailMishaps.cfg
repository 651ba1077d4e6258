SPECIFICATION Spec
CONSTANTS
  PAWS_MAX = 2
  Suspicious = 1
  Mishaps = {"torn", "late", "raced", "hasty", "outgrown", "truncate"}
  Backlog = 1
  MaxLines = 5
  MaxFiles = 3
CHECK_DEADLOCK FALSE
INVARIANTS
  TypeOK
  InOrderOnce
