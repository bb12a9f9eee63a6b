\* The store is closed between calls, with or without a flush, and reopened.
CONSTANTS
  Key = {a, b}
  Val = {v1, v2}
  Zero = Zero
  None = None
  Calls = {"set", "update", "delete", "flush"}
  WalThreshold = 2
  CompactAbove = 100
  StopAt = {"idle"}
  ErrorAt = {}
  MaxCalls = 5
  MaxRestarts = 2
  MaxErrors = 0
  SlotLimit = 15
SPECIFICATION Spec
SYMMETRY Symmetry
INVARIANTS NoPhantoms Recoverable
CHECK_DEADLOCK FALSE
