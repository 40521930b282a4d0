SPECIFICATION Spec
CONSTANTS
  Viewer = {v1, v2}
  PageLimit = 1
  MaxEvents = 2
  MaxFailures = 1
SYMMETRY Symmetry
INVARIANTS
  HubConsistent
  SentIsTheLog
  TerminalIsFinal
CHECK_DEADLOCK FALSE
