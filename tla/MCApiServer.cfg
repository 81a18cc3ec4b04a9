CONSTANTS
  r1 = r1
  k1 = k1
  q1 = q1
  q2 = q2
  f1 = f1
  f2 = f2
  j1 = j1
  Run = {r1, r2, r3}
  Job = {j1}
  Key = {k1}
  Request = {q1, q2}
  Verdict = {"PASS", "INCONCLUSIVE"}
  Stage = {"INSTALL"}
  Fingerprint = {f1, f2}
  ErrorCode = {"API_RESTARTED", "LEASE_EXPIRED", "RECEIPT_ISSUANCE_FAILED"}
  WaitingLimit = 2
  None = None
  Unreadable = Unreadable
  Call <- MCCall
  MaxSent = 3
  MaxOpen = 2
  MaxCrashes = 1

SPECIFICATION ApiSpec
SYMMETRY OtherRuns

INVARIANTS
  AnswersStayTrue
  EffectsHaveCallers
  NoHandlerIsStuck
PROPERTIES
  AnswersAreCurrent

CHECK_DEADLOCK FALSE
