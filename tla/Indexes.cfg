\* Every call on a regular and on a multi-vector store, a stop between two calls.
CONSTANTS
  Id = {a, b}
  Field = {f}
  Doc <- MCDoc
  Term = {t}
  Tokens <- MCTokens
  Text = {x}
  None = None
  Query <- MCQuery
  MaxK = 2
  Multi = {TRUE, FALSE}
  Calls = {"set", "set_batch", "update", "delete", "set_sparse", "set_hybrid", "store", "text", "merge", "compact", "flush"}
  LogLimit = 2
  MaxCalls = 3
  MaxRestarts = 2
SPECIFICATION Spec
SYMMETRY Symmetry
INVARIANTS TypeOK FieldsAgree SparseAgrees TokensAgree TextAgrees FilterExact AnswersSound AnswersFound
CHECK_DEADLOCK FALSE
