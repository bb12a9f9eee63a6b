CONSTANTS
  Point <- Plane
  Dist <- Squared
  MaxLevel = 1
  M = 1
  Ef = 3
  WarmStart = 1
  Worker = {w1, w2}
  MaxBuilt = 3
  MaxNodes = 4
  None = None
SPECIFICATION Spec
CONSTRAINT FewRepeated
INVARIANTS TypeOK EntryHighest AllReachable SearchExact
CHECK_DEADLOCK FALSE
