CONSTANTS
  N = 2
  Resident = {}
  OffDevice = {}
  Estimate <- Estimates2
  None = None
  Requests = {r1, r2}
  Loader = Loader
  Reaper = Reaper
  Stopper = Stopper
  Limit = 1
  Measurements <- JustUnread
  DeviceMiB = None
  Outside = {0}
  Wait = 0
  IdleWindow = 1
  Stops = {}
  MaxAge = 1
SPECIFICATION Spec
SYMMETRY RequestSymmetry
INVARIANT WithinBudget
CHECK_DEADLOCK FALSE
