SPECIFICATION Spec
CONSTANTS
  Run = {r1, r2}
  Job = {j1}
  Key = {k1}
  Request = {q1}
  Verdict = {"INCONCLUSIVE"}
  Stage = {}
  Fingerprint = {r1, r2}
  ErrorCode = {"API_RESTARTED", "RUNNER_UNAVAILABLE", "RUNNER_FAILURE",
               "RUNTIME_IMAGE_MISMATCH", "RECEIPT_ISSUANCE_FAILED",
               "LEASE_EXPIRED"}
  WaitingLimit = 2
  None = None
  LeaseDuration = 2
  DispatchTimeout = 1
  RetryDelay = 1
  ResultStatus = {"COMPLETED"}
  LostReplies = FALSE
  MaxApiCrashes = 1
  MaxRunnerCrashes = 0
SYMMETRY Interchangeable
CHECK_DEADLOCK FALSE
INVARIANTS
  LeaseExclusion
