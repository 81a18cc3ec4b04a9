SPECIFICATION Spec
CONSTANTS
  Run = {r1, r2, r3}
  Job = {}
  Key = {k1, k2, k3}
  Request = {q1}
  Verdict = {"INCONCLUSIVE"}
  Stage = {}
  Fingerprint = {r1, r2, r3}
  ErrorCode = {"API_RESTARTED", "RUNNER_UNAVAILABLE", "RUNNER_FAILURE",
               "RUNTIME_IMAGE_MISMATCH", "RECEIPT_ISSUANCE_FAILED",
               "LEASE_EXPIRED"}
  WaitingLimit = 1
  None = None
  LeaseDuration = 2
  DispatchTimeout = 1
  RetryDelay = 1
  ResultStatus = {"COMPLETED"}
  LostReplies = FALSE
  MaxApiCrashes = 0
  MaxRunnerCrashes = 0
SYMMETRY Interchangeable
CHECK_DEADLOCK FALSE
INVARIANTS
  QueuePositionBounded
