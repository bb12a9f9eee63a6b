CONSTANTS
  Id = {a, b, c}
  Type = {t}
  Datum = {w1, w2}
  AnyType = AnyType
  LogLimit = 3
  Calls = {"enable", "add", "add_batch", "remove", "set", "delete", "delete_batch", "compact", "flush"}
  MaxCalls = 2
  MaxAdds = 2
  MaxRestarts = 1
  StaleManifest = FALSE
SPECIFICATION Spec
SYMMETRY Symmetry
INVARIANTS TypeOK Mirrored QueriesAgree
PROPERTIES NoHalfDelete ImplementsEdgeMap
CHECK_DEADLOCK FALSE
