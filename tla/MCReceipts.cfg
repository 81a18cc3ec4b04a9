SPECIFICATION Spec
CONSTANTS
  None = None
  StoredRuns = {r1, r2}
  MaxTime = 3
  Ids = {old, new}
  Keys = {k1, k2}
  Payloads = {p, q}
  MaxSigners = 2
  MaxVerifiers = 2
  MaxBundles = 2
  MaxDamage = 2
  RunKinds <- MCRunKinds
  Junk = Junk
  Paths = {"a", "b", "/"}
  UnsafePaths = {"/"}
  PathLength <- MCPathLength
  Data = {"empty", "full", "large", "one"}
  DataLength <- MCDataLength
  MAX_ENTRIES = 2
  MAX_ENTRY_BYTES = 2
  MAX_BUNDLE_BYTES = 180
  MaxArchiveDamage = 2
  OtherCheck = {"install"}
  Outcome = {"PASSED", "FAILED", "SKIPPED", "INCONCLUSIVE"}
  MaxFaults = 3
  EnvFiles <- MCFiles
  MaxFailures = 2
SYMMETRY Interchangeable
CHECK_DEADLOCK FALSE
INVARIANTS
  ReceiptsTypeOK
  StoresAgree
  KeysAgree
  BundlesAreSound
  ReaderMatchesWriter
  AcceptanceIsSound
  ProvisioningIsCoherent
PROPERTIES
  StepsKeepPromises
