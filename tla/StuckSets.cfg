CONSTANTS
  Thread = {t1, t2}
  Id = {a, b}
  None = None
  Calls = {"set"}
  MaxCalls = 2
  LogLimit = 5
  Persistent = {TRUE}
SPECIFICATION Spec
PROPERTY EveryCallEnds
CHECK_DEADLOCK FALSE
