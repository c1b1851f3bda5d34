CONSTANTS
  Ports = {p1, p2}
  Budget = 3
  Poll = 2
  ProbeTicks = 3
  StrangerSays = {"200", "other", "nothing"}
  Nobody = Nobody
SPECIFICATION Spec
INVARIANTS
  TypeOK
  UnheardRaceIsRetried
  WithinTwoBudgets
PROPERTIES
  KeepsThePromise
CHECK_DEADLOCK FALSE
