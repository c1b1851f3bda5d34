SPECIFICATION Spec
CONSTANTS
  Requests <- MCRequests
  Known = {"a"}
  MaxHead = 10
  MaxLines = 4
  MaxBody = 2
  Buffer = 2
INVARIANTS
  TypeOK
  RefusalIsDeserved
  OnlyServableStartsAModel
  BodyArrivesAsSent
  SparedTheBody
PROPERTIES
  HonestCallerIsAnswered
  HangUpStopsTheModel
CHECK_DEADLOCK FALSE
