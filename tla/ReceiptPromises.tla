--------------------------- MODULE ReceiptPromises ---------------------------
(***************************************************************************)
(* What holders of receipts rely on: the receipts that are stored, the     *)
(* keys they are verified with, the bundles and archives made of them, the *)
(* evaluations they carry, and the commands of provision-secrets.mjs that  *)
(* create and publish their keys.  But for bundles, which have the keys of *)
(* their receipts, the parts share no variable.                            *)
(***************************************************************************)
EXTENDS ReceiptStore, ReceiptKeys, EvidenceBundle, ZipArchive, Acceptance, SecretsInit, SecretsApply

(* Every variable of every part has its type. *)
ReceiptsTypeOK ==
  /\ ReceiptStoreTypeOK
  /\ KeysTypeOK
  /\ BundleTypeOK
  /\ ZipArchiveTypeOK
  /\ AcceptanceTypeOK
  /\ SecretsInitTypeOK
  /\ SecretsApplyTypeOK

(* Provisioning, interrupted anywhere and run again, ends with all of    *)
(* what it was to do, and never publishes a private key that nobody can  *)
(* verify.                                                               *)
ProvisioningIsCoherent ==
  /\ AllOrNothing
  /\ AppliedIsPublished
  /\ KeyringCoversPrivateKey

(* No step takes back what somebody relies on: neither a receipt that    *)
(* was issued, nor one that was verifiable before a rotation, nor a file *)
(* of somebody else; and none makes callers pay before they can be paid  *)
(* for.                                                                  *)
StepsKeepPromises ==
  /\ ReceiptsAreFinal
  /\ RotationKeepsReceipts
  /\ ForeignFilesAreKept
  /\ PaidIsActivatedLast
=============================================================================
