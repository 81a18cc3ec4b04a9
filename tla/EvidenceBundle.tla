---------------------------- MODULE EvidenceBundle ----------------------------
(***************************************************************************)
(* Evidence bundles of receipts: what the service puts into one, and what  *)
(* verification makes of it later, when keys have changed, raw logs have   *)
(* expired and the file may be damaged.                                    *)
(*                                                                         *)
(* A bundle is the list of entries that ZipArchive reads; a digest is the  *)
(* data it is of, as in ReceiptKeys.  A raw log is known by what redaction *)
(* does to it.                                                             *)
(***************************************************************************)
EXTENDS ReceiptKeys, FiniteSets

CONSTANTS MaxBundles, MaxDamage,
          RunKinds,  \* what a run may leave: contract, isPublic, logs
          Junk   \* data that is not what it should be

RunLogs == Seq({"clean", "secret", "unsafe"}) \union {<<"unavailable">>, <<"expired">>}

ASSUME EvidenceBundleAssumption ==
  /\ {MaxBundles, MaxDamage} \subseteq Nat /\ None \notin {"clean", "redacted"}
  /\ RunKinds \subseteq [contract : BOOLEAN, isPublic : BOOLEAN, logs : RunLogs]

VARIABLES
  runs,       \* of each receipt: whether it had a contract and is public, and
              \* its raw logs: unavailable, expired, or the contents in order
  created,    \* the bundles that have been downloaded
  file,       \* one of them, as it is now, or None
  damage

bundleVars == <<keyVars, runs, created, file, damage>>

-----------------------------------------------------------------------------

(* safelyRedactedRawLog() *)
Redacted(content) ==
  CASE content = "secret" -> "redacted" [] content = "unsafe" -> None [] OTHER -> content

Entry(path, data) == [path |-> path, data |-> data]
Report(receipt) == Entry("report.json", receipt.payload)

(* Fault: the logs of a private run are taken along. *)
FaultyAvailable(run) == run.logs
(* The raw logs of a private receipt are unavailable. *)
Available(run) == IF run.isPublic THEN run.logs ELSE <<"unavailable">>

Retained(state) == state \notin {<<"unavailable">>, <<"expired">>, <<>>}
SafeLog(state) == [k \in DOMAIN state |-> Redacted(state[k])]
Included(state) == Retained(state) /\ None \notin ToSet(SafeLog(state))

PayloadFiles(receipt, hasContract, state) ==
  <<Entry("receipt.json", receipt), Report(receipt)>>
  \o (IF hasContract THEN <<Entry("verification-contract.json", receipt.payload)>> ELSE <<>>)
  \o (IF Included(state) THEN <<Entry("logs/raw.ndjson", SafeLog(state))>> ELSE <<>>)

Omission(state) ==
  IF Included(state) THEN "none"
  ELSE IF Retained(state) THEN "RAW_LOG_REDACTION_UNSAFE"
  ELSE IF state = <<"expired">> THEN "RAW_LOG_EXPIRED" ELSE "RAW_LOG_UNAVAILABLE"

Checksums(files, manifest, signature) ==
  files \o <<Entry("bundle-manifest.json", manifest), Entry("bundle-manifest.sig", signature)>>

Manifest(receipt, hasContract, state) ==
  [keyId |-> receipt.keyId, receipt |-> receipt.payload,
   files |-> PayloadFiles(receipt, hasContract, state), omission |-> Omission(state)]

SignedManifest(manifest, key) ==
  [keyId |-> manifest.keyId, hash |-> manifest,
   signature |-> [key |-> key, text |-> manifest]]

Assembled(manifest, signature) ==
  LET checked == Checksums(manifest.files, manifest, signature)
  IN  checked \o <<Entry("checksums.txt", checked)>>

(* createEvidenceBundle() *)
Bundle(receipt, hasContract, state, key) ==
  LET manifest == Manifest(receipt, hasContract, state)
  IN  Assembled(manifest, SignedManifest(manifest, key))

(* What there may be of the logs of a run when a bundle is made. *)
LogOutcomes == {kind.logs : kind \in RunKinds} \union {<<"unavailable">>, <<"expired">>}

(* Junk is neither a manifest nor a signature of one. *)
ASSUME JunkAssumption ==
  \A payload \in Payloads, entry \in KeyEntries, hasContract \in BOOLEAN, state \in LogOutcomes :
    LET manifest == Manifest(Signed(payload, entry), hasContract, state)
    IN  Junk \notin {manifest, SignedManifest(manifest, entry.key)}

-----------------------------------------------------------------------------
Has(entries, path) == \E k \in DOMAIN entries : entries[k].path = path
DataOf(entries, path) == entries[Min({k \in DOMAIN entries : entries[k].path = path})].data

Metadata == <<"bundle-manifest.json", "bundle-manifest.sig", "checksums.txt">>
PathsOf(entries) == [k \in DOMAIN entries |-> entries[k].path]

(* Fault: a file the manifest does not name is passed over. *)
FaultyCovered(entries, manifest) ==
  \A k \in DOMAIN manifest.files : Has(entries, manifest.files[k].path)
Covered(entries, manifest) == PathsOf(entries) = PathsOf(manifest.files) \o Metadata

Digests(entries, manifest, signature) ==
  /\ \A k \in DOMAIN manifest.files : DataOf(entries, manifest.files[k].path) = manifest.files[k].data
  /\ DataOf(entries, "checksums.txt") = Checksums(manifest.files, manifest, signature)

(* verifyEvidenceBundle(), after the archive has been read. *)
BundleReason(c, entries) ==
  LET manifest == DataOf(entries, "bundle-manifest.json")
      signature == DataOf(entries, "bundle-manifest.sig")
      key == PublicKey(c, signature.keyId)
      receipt == DataOf(entries, "receipt.json")
  IN
  IF \E p \in ToSet(Metadata) : ~Has(entries, p) THEN "MANIFEST_INVALID"
  ELSE IF manifest = Junk \/ signature = Junk THEN "MANIFEST_INVALID"
  ELSE IF ~Covered(entries, manifest) THEN "MANIFEST_COVERAGE_MISMATCH"
  ELSE IF ~Digests(entries, manifest, signature) THEN "CHECKSUM_MISMATCH"
  ELSE IF signature.keyId # manifest.keyId \/ signature.hash # manifest THEN "INVALID_MANIFEST_SIGNATURE"
  ELSE IF key = None THEN "UNKNOWN_KEY"
  ELSE IF signature.signature # [key |-> key, text |-> manifest] THEN "INVALID_MANIFEST_SIGNATURE"
  ELSE IF receipt.payload # manifest.receipt \/ receipt.keyId # manifest.keyId
          \/ Reason(receipt, <<[id |-> receipt.keyId, key |-> key]>>) # "NONE" THEN "INVALID_RECEIPT"
  ELSE IF DataOf(entries, "report.json") # receipt.payload THEN "RECEIPT_REPORT_MISMATCH"
  ELSE IF Has(entries, "verification-contract.json")
          /\ DataOf(entries, "verification-contract.json") # receipt.payload THEN "CONTRACT_MISMATCH"
  ELSE IF Has(entries, "logs/raw.ndjson") /\ \E content \in ToSet(DataOf(entries, "logs/raw.ndjson")) :
            Redacted(content) # content THEN "MANIFEST_INVALID"
  ELSE "NONE"

-----------------------------------------------------------------------------
BundleInit ==
  /\ KeysInit
  /\ runs \in [Payloads -> RunKinds]
  /\ created = {} /\ file = None /\ damage = 0

Keep == UNCHANGED <<runs, created, file, damage>>

(* Retention: deleteExpiredRawLogs(), or a download after the expiry. *)
Expire(payload) ==
  /\ Retained(runs[payload].logs)
  /\ runs' = [runs EXCEPT ![payload].logs = <<"expired">>]
  /\ UNCHANGED <<keyVars, created, file, damage>>

(* Fault: the key is chosen by its ID only. *)
FaultyMaySign(receipt) == SignerFor(config, receipt.keyId) # None
MaySign(receipt) ==
  LET key == SignerFor(config, receipt.keyId)
  IN  key # None /\ Reason(receipt, <<[id |-> receipt.keyId, key |-> key]>>) = "NONE"

(* create() of EvidenceBundleService: it throws without a stored receipt,  *)
(* without its key, or with another one of the same ID.                    *)
Download(payload) ==
  LET receipt == issued[payload] IN
  /\ receipt # None /\ MaySign(receipt)
  /\ LET bundle == Bundle(receipt, runs[payload].contract, Available(runs[payload]),
                           SignerFor(config, receipt.keyId))
     IN  Cardinality(created \union {bundle}) <= MaxBundles
         /\ created' = created \union {bundle} /\ file' = bundle
  /\ damage' = 0
  /\ UNCHANGED <<keyVars, runs>>

(* An entry is lost, overwritten, or taken from another bundle.            *)
Damage ==
  /\ file # None /\ damage < MaxDamage
  /\ \E k \in DOMAIN file :
       \/ file' = RemoveAt(file, k)
       \/ file' = [file EXCEPT ![k].data = Junk]
       \/ \E b \in created :
            \/ /\ Has(b, file[k].path)
               /\ file' = [file EXCEPT ![k].data = DataOf(b, file[k].path)]
            \/ k \in DOMAIN b /\ file' = InsertAt(file, k, b[k])
  /\ file' # file /\ damage' = damage + 1
  /\ UNCHANGED <<keyVars, runs, created>>

BundleNext ==
  \/ KeysNext /\ Keep
  \/ \E payload \in Payloads : Expire(payload) \/ Download(payload)
  \/ Damage

BundleSpec == BundleInit /\ [][BundleNext]_bundleVars

-----------------------------------------------------------------------------
(* Only what has been downloaded is damaged, every bundle is of a receipt, *)
(* and its omission says why there is no log.                              *)
BundleTypeOK ==
  /\ damage \in 0..MaxDamage /\ (created = {} => file = None /\ damage = 0)
  /\ \A b \in created :
       /\ DataOf(b, "receipt.json") \in Receipts
       /\ Has(b, "logs/raw.ndjson") <=> DataOf(b, "bundle-manifest.json").omission = "none"

(* A bundle that has been downloaded is valid for as long as its key is    *)
(* published: whatever has expired since, and whichever key is active.     *)
CreatedIsValid ==
  \A b \in created :
    LET receipt == DataOf(b, "receipt.json")
        key == PublicKey(config, receipt.keyId)
    IN  BundleReason(config, b) =
          IF key = receipt.signature.key THEN "NONE"
          ELSE IF key = None THEN "UNKNOWN_KEY" ELSE "INVALID_MANIFEST_SIGNATURE"

(* A file that is accepted is one that has been downloaded, entry by       *)
(* entry.                                                                  *)
ValidIsCreated ==
  file # None /\ BundleReason(config, file) = "NONE" => file \in created

(* No bundle holds a log that could not be made safe, or one of a private  *)
(* run.                                                                    *)
OnlySafeLogs ==
  \A b \in created : Has(b, "logs/raw.ndjson") =>
    /\ ToSet(DataOf(b, "logs/raw.ndjson")) \subseteq {"clean", "redacted"}
    /\ runs[DataOf(b, "receipt.json").payload].isPublic

(* A bundle is accepted exactly when it was downloaded and its key is     *)
(* still published, and holds no log that may not be shown.               *)
BundlesAreSound == CreatedIsValid /\ ValidIsCreated /\ OnlySafeLogs
=============================================================================
