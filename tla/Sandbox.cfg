SPECIFICATION FairSpec
CONSTANTS
  Attempts = 3
  ReadyAttempts = 2
  MaxFaults = 3
  None = None
CHECK_DEADLOCK FALSE
INVARIANTS
  ResolvedMeansClean
  ReportValid
  PassIsEarned
  UntrustedOffline
PROPERTIES
  EveryExecutionEnds
