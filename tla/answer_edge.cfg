SPECIFICATION Spec
CONSTANTS
  Requests <- MCStraddling
  Known = {"a"}
  MaxHead = 10
  MaxLines = 4
  MaxBody = 2
  Buffer = 2
INVARIANT
  BodyArrivesAsSent
CHECK_DEADLOCK FALSE
