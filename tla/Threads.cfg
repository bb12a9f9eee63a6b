CONSTANTS
  Thread = {t1, t2}
  Id = {a, b}
  None = None
  Calls = {"set", "update", "delete", "get", "search", "compact", "set_batch"}
  MaxCalls = 2
  LogLimit = 1
  Persistent = {TRUE, FALSE}
SPECIFICATION Spec
INVARIANTS TypeOK Coherent IndexesAgree LogAgrees
PROPERTIES CallsEnd
CHECK_DEADLOCK FALSE
