\* A store that is never reopened: every call, compaction, a failing checkpoint.
CONSTANTS
  Key = {a, b}
  Val = {v1, v2}
  Zero = Zero
  None = None
  Calls = {"set", "update", "delete", "flush", "set_batch", "compact"}
  WalThreshold = 9
  CompactAbove = 25
  StopAt = {}
  ErrorAt = {"stat", "grow", "publish", "stamp"}
  MaxCalls = 6
  MaxRestarts = 0
  MaxErrors = 1
  SlotLimit = 6
SPECIFICATION Spec
SYMMETRY Symmetry
PROPERTIES CheckpointsComplete
CHECK_DEADLOCK FALSE
