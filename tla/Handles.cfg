\* Three processes, one per binding, a database and one collection.  One value is
\* enough: what is stale shows as a name that should be gone, or is.
CONSTANTS
  Process = {"python", "node", "ffi"}
  Root = Root
  Name = {users}
  Id = {a, b}
  Val = {v1}
  None = None
  Gone = Gone
  Torn = Torn
  MaxInners = 2
  MaxOpens = 3
  MaxWrites = 2
  MaxFlushes = 1
  MaxDeletes = 1
  MaxCrashes = 1
SPECIFICATION Spec
CONSTRAINT Unmarred
SYMMETRY Symmetry
INVARIANTS TypeOK OneOwner  IterationComplete
CHECK_DEADLOCK FALSE
