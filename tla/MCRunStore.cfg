SPECIFICATION Spec
CONSTANTS
  r1 = r1
  r2 = r2
  r3 = r3
  r4 = r4
  f1 = f1
  f2 = f2
  q1 = q1
  q2 = q2
  Run <- MCRun
  Job = {j1}
  Key = {k1, k2}
  Request = {q1, q2}
  Verdict = {"PASS", "INCONCLUSIVE"}
  Stage = {"TEST"}
  Fingerprint <- MCFingerprint
  WaitingLimit = 2
  ErrorCode = {"API_RESTARTED", "LEASE_EXPIRED"}
  None = None
  Unreadable = Unreadable
  ComparedRuns <- MCRun
  Subjects <- MCSubjects
  ComparedContracts <- MCContracts
  ComparedReports <- MCReports
SYMMETRY Interchangeable
CHECK_DEADLOCK FALSE
INVARIANTS
  StoreTypeOK
  ChildrenInOrder
  OutcomeConsistent
  QueueIsSound
  ResponsesAreSound
  ComparisonsAreSound
PROPERTIES
  ImplementsQueue
  ShownIsFinal
