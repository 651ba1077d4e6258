SPECIFICATION Spec
CONSTANTS
  PAWS_MAX = 3
  Suspicious = 2
  Mishaps = {}
  Backlog = 3
  MaxLines = 8
  MaxFiles = 3
INVARIANTS
  NothingSkipped
  NeverGivesUp
PROPERTIES
  EveryLineDelivered
  BacksOff
