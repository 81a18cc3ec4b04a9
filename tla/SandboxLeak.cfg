SPECIFICATION Spec
CONSTANTS
  Attempts = 3
  ReadyAttempts = 2
  MaxFaults = 0
  None = None
CHECK_DEADLOCK FALSE
INVARIANTS
  NothingLeftBehind
