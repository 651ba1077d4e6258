SPECIFICATION Spec
CONSTANTS
  PAWS_MAX = 2
  Suspicious = 1
  Mishaps = {"torn"}
  Backlog = 1
  MaxLines = 4
  MaxFiles = 3
CHECK_DEADLOCK FALSE
INVARIANT
  NothingSkipped
