SPECIFICATION Spec
CONSTANTS
  Attempts = 3
  ReadyAttempts = 2
  MaxFaults = 1
  None = None
CHECK_DEADLOCK FALSE
INVARIANTS
  RunnerFailureNeverFails
