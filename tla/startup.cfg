SPECIFICATION Spec
CONSTANTS
  Scenarios <- MCScenarios
  BinaryNames = {"mtp"}
  MaxPairs = 10
  MaxKeyBytes = 4
  MaxKeptText = 3
  MaxLayerArray = 8
  Mib = 16
  Overhead = 32
  MaxU32 = 100
  MaxDepth = 2
  Fallback = 3
  DefaultTimeout = 5
  PipeSize = 1
  MinMargin = 4
  SystemShare = 80
  DefaultWait = 6
INVARIANTS
  TypeOK
  OnePassIsEnough
  ServedIsChecked
  EveryFileIsAccountedFor
  EstimateErrsHigh
  CutFileGivesItsSizeAlone
  ChildIsWhereTheRouterLooks
  ServesAsConfigured
  HealthyToolIsHeard
PROPERTIES
  StartupEnds
CHECK_DEADLOCK FALSE
