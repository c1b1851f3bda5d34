CONSTANTS
  N = 3
  Resident = {1}
  OffDevice = {}
  Estimate <- Estimates3
  None = None
  Requests = {r1, r2}
  Loader = Loader
  Reaper = Reaper
  Stopper = Stopper
  Limit = 2
  Measurements <- JustUnread
  DeviceMiB = None
  Outside = {0}
  Wait = 1
  IdleWindow = 0
  Stops = {}
  MaxAge = 0
SPECIFICATION LiveSpec
INVARIANTS
  TypeOK
  WithinBudget
  OneChildPerEntry
  LoadFitsTheLedger
PROPERTIES
  ResidentStays
  AdmissionEnds
CHECK_DEADLOCK FALSE
