\* One crash, at any step but the one between emptying the log and stamping its
\* epoch, and then the store goes on.
CONSTANTS
  Key = {a, b}
  Val = {v1, v2}
  Zero = Zero
  None = None
  Calls = {"set", "update", "delete", "flush", "delete_batch"}
  WalThreshold = 2
  CompactAbove = 100
  StopAt = {"idle", "due", "flush", "write", "truncate"}
  ErrorAt = {}
  MaxCalls = 5
  MaxRestarts = 1
  MaxErrors = 0
  SlotLimit = 10
SPECIFICATION Spec
SYMMETRY Symmetry
INVARIANTS TypeOK RecoveredConsistent
PROPERTIES ReadersUndisturbed ImplementsDurableMap
CHECK_DEADLOCK FALSE
