CONSTANTS
  N = 3
  Resident = {1}
  OffDevice = {3}
  Estimate <- CatalogEstimates
  None = None
  Ages = {0, 1}
  Sides = {3}
  Limits = {2, 3, 5, 6}
  Frees = {}
SPECIFICATION Spec
INVARIANT BlockedMeansWaitingHelps
CHECK_DEADLOCK FALSE
