CONSTANTS
  N = 2
  Resident = {1}
  OffDevice = {}
  Estimate <- Estimates2
  None = None
  Requests = {r1}
  Loader = Loader
  Reaper = Reaper
  Stopper = Stopper
  Limit = 2
  Measurements <- JustUnread
  DeviceMiB = None
  Outside = {0}
  Wait = 0
  IdleWindow = 0
  Stops = {"signal"}
  MaxAge = 1
SPECIFICATION Spec
INVARIANT OnlyAnswersLeftBehind
CHECK_DEADLOCK FALSE
