CONSTANTS
  Ports = {p1, p2}
  Budget = 3
  Poll = 2
  ProbeTicks = 3
  StrangerSays = {"200", "other"}
  Nobody = Nobody
SPECIFICATION Spec
INVARIANT LostRaceIsRetried
CHECK_DEADLOCK FALSE
