\* Three entries of every kind, one of them cut short at any word, two reopens.
CONSTANTS
  Payload <- MCPayload
  None = None
  MaxEntry = 100
  MaxAppends = 3
  MaxFaults = 1
  MaxRestarts = 2
SPECIFICATION Spec
INVARIANTS KeepsAcknowledged CutoffSeparates
CHECK_DEADLOCK FALSE
