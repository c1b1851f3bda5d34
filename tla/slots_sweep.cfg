CONSTANTS
  N = 2
  Resident = {}
  OffDevice = {}
  Estimate <- Estimates2
  None = None
  Requests = {r1, r2}
  Loader = Loader
  Reaper = Reaper
  Stopper = Stopper
  Limit = 2
  Measurements <- UnreadOrGrown
  DeviceMiB = 3
  Outside = {0, 2}
  Wait = 0
  IdleWindow = 1
  Stops = {"caller", "signal"}
  MaxAge = 1
SPECIFICATION Spec
SYMMETRY RequestSymmetry
INVARIANTS
  NothingIsOrphaned
  LoadsIntoAnEmptySlot
  ReaderKeepsItsChild
  LoadFitsTheLedger
PROPERTIES
  SweepSparesTheUsed
CHECK_DEADLOCK FALSE
