\* Two updates and a restart: the engine's nodes are no longer the slots.
CONSTANTS
  Id = {a, b}
  Field = {f}
  Doc <- MCDoc
  Term = {t}
  Tokens <- MCTokens
  Text = {x}
  None = None
  Query <- MCQuery
  MaxK = 2
  Multi = {FALSE}
  Calls = {"set"}
  LogLimit = 9
  MaxCalls = 3
  MaxRestarts = 1
SPECIFICATION Spec
INVARIANTS NodesAreSlots
CHECK_DEADLOCK FALSE
