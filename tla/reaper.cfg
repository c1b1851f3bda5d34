CONSTANTS
  Window = 4
  MinInterval = 1
  Slow = 3
  MaxLag = 3
  MaxReaders = 2
SPECIFICATION Spec
INVARIANTS
  TypeOK
  UnloadedInTime
PROPERTIES
  UnloadedNotBefore
CHECK_DEADLOCK FALSE
