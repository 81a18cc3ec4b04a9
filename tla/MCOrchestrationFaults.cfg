SPECIFICATION Spec
CONSTANTS
  Run = {r1, r2}
  Job = {j1}
  Key = {k1}
  Request = {q1}
  Verdict = {"PASS", "INCONCLUSIVE"}
  Stage = {"TEST"}
  Fingerprint = {r1, r2}
  ErrorCode = {"API_RESTARTED", "RUNNER_UNAVAILABLE", "RUNNER_FAILURE",
               "RUNTIME_IMAGE_MISMATCH", "RECEIPT_ISSUANCE_FAILED",
               "LEASE_EXPIRED"}
  WaitingLimit = 2
  None = None
  LeaseDuration = 2
  DispatchTimeout = 1
  RetryDelay = 1
  ResultStatus = {"COMPLETED", "TIMEOUT", "SYSTEM_ERROR",
                  "WRONG_RUNTIME"}
  LostReplies = FALSE
  MaxApiCrashes = 2
  MaxRunnerCrashes = 1
SYMMETRY Interchangeable
CONSTRAINT CompetingOrSingle
CHECK_DEADLOCK FALSE
INVARIANTS
  RunningIsOwned
  QueuedUnseen
  ReplyMatchesStore
  CancelledHasNoVerdict
PROPERTIES
  AtMostOnce
  TerminalIsFinal
