----------------------------- MODULE ReceiptKeys -----------------------------
(***************************************************************************)
(* Receipts and the keys of the service that signs and verifies them: the  *)
(* signing key ring, the list of verification keys, and what restarts with *)
(* other keys do to receipts issued before.                                *)
(*                                                                         *)
(* A hash is what it is a hash of; a signature is a key with the text it   *)
(* has signed, and only keys make signatures.                              *)
(***************************************************************************)
EXTENDS Schema, Naturals, SequencesExt

CONSTANTS Ids, Keys, Payloads,
          MaxSigners, MaxVerifiers    \* bound the two lists of keys

ASSUME ReceiptKeysAssumption ==
  MaxSigners \in Nat \ {0} /\ MaxVerifiers \in Nat /\ None \notin Ids \union Keys \union Payloads

VARIABLES config,   \* of the running service: signers, the active one first, and verifiers
          issued    \* the receipt of each payload, or None

keyVars == <<config, issued>>

-----------------------------------------------------------------------------
KeyEntries == [id : Ids, key : Keys]

(* The key of the first entry with an ID. *)
Find(list, id) ==
  LET matching == {k \in DOMAIN list : list[k].id = id}
  IN  IF matching = {} THEN None ELSE list[Min(matching)].key

(* validateReceiptKeyConfig(): the IDs of signing keys are unique. *)
ValidKeys(c) ==
  c.signers # <<>> /\ \A j, k \in DOMAIN c.signers : c.signers[j].id = c.signers[k].id => j = k

Configs ==
  {c \in [signers : BoundedSeq(KeyEntries, MaxSigners), verifiers : BoundedSeq(KeyEntries, MaxVerifiers)] :
     ValidKeys(c)}

(* Fault: only the active key is in the ring. *)
FaultyRing(c) == <<c.signers[1]>>
Ring(c) == c.signers

(* Fault: the active key stands in for keys that are gone. *)
FaultySignerFor(c, id) == IF Find(Ring(c), id) = None THEN c.signers[1].key ELSE Find(Ring(c), id)
SignerFor(c, id) == Find(Ring(c), id)

(* Fault: only the keys of the ring are published. *)
FaultyPublicKey(c, id) == Find(Ring(c), id)
PublicKey(c, id) == IF Find(Ring(c), id) # None THEN Find(Ring(c), id) ELSE Find(c.verifiers, id)

(* Fault: the hash in the receipt is taken for that of its payload. *)
FaultyReason(receipt, keys) ==
  LET key == Find(keys, receipt.keyId)
  IN  IF key = None THEN "UNKNOWN_KEY"
      ELSE IF receipt.signature # [key |-> key, text |-> receipt.hash] THEN "INVALID_SIGNATURE"
      ELSE "NONE"

(* verifyReceipt() *)
Reason(receipt, keys) ==
  LET key == Find(keys, receipt.keyId)
  IN  IF receipt.hash # receipt.payload THEN "PAYLOAD_HASH_MISMATCH"
      ELSE IF key = None THEN "UNKNOWN_KEY"
      ELSE IF receipt.signature # [key |-> key, text |-> receipt.payload] THEN "INVALID_SIGNATURE"
      ELSE "NONE"

(* verify() of the service. *)
Verify(c, receipt) == Reason(receipt, Ring(c) \o c.verifiers)

-----------------------------------------------------------------------------
KeysInit ==
  /\ config \in Configs
  /\ issued = [p \in Payloads |-> None]

Signed(payload, entry) ==
  [payload |-> payload, hash |-> payload, keyId |-> entry.id,
   signature |-> [key |-> entry.key, text |-> payload]]

(* A receipt is issued once, under the active key. *)
IssueReceipt(payload) ==
  /\ issued[payload] = None
  /\ issued' = [issued EXCEPT ![payload] = Signed(payload, config.signers[1])]
  /\ UNCHANGED config

(* A restart with other keys. *)
Reconfigure == config' \in Configs \ {config} /\ UNCHANGED issued

KeysNext == Reconfigure \/ \E payload \in Payloads : IssueReceipt(payload)

KeysSpec == KeysInit /\ [][KeysNext]_keyVars

-----------------------------------------------------------------------------
Receipts == {issued[p] : p \in Payloads} \ {None}

(* What may be handed in for verification: the parts of receipts in any    *)
(* combination, and a signature of nothing.                                *)
Candidates ==
  [payload : Payloads, hash : Payloads, keyId : Ids,
   signature : {r.signature : r \in Receipts} \union {[key |-> None, text |-> None]}]

KeysTypeOK ==
  /\ config \in Configs
  /\ \A j, k \in DOMAIN Ring(config) : Ring(config)[j].id = Ring(config)[k].id => j = k
  /\ issued \in [Payloads -> {None} \union {Signed(p, e) : p \in Payloads, e \in KeyEntries}]
  /\ \A p \in Payloads : issued[p] # None => \E e \in KeyEntries : issued[p] = Signed(p, e)

(* Whoever fetches the public key of a receipt finds what the service      *)
(* finds, even if an ID is in both lists, or twice in one.                 *)
PublishedKeyDecides ==
  \A r \in Candidates :
    LET key == PublicKey(config, r.keyId)
    IN  Reason(r, IF key = None THEN <<>> ELSE <<[id |-> r.keyId, key |-> key]>>) = Verify(config, r)

(* What the service can still sign for is published with its own key.      *)
SignersArePublished ==
  \A id \in Ids : SignerFor(config, id) # None => PublicKey(config, id) = SignerFor(config, id)

(* A receipt that is accepted has a payload that has been issued.          *)
AcceptedIsIssued ==
  \A r \in Candidates : Verify(config, r) = "NONE" => issued[r.payload] # None

(* Signer, service and the published keys agree on every receipt: who     *)
(* looks a key up finds what the service finds, what can be signed can be *)
(* verified, and nothing is accepted that was not issued.                 *)
KeysAgree == PublishedKeyDecides /\ SignersArePublished /\ AcceptedIsIssued

(* A rotation that keeps every key in one of the lists and gives no ID to  *)
(* another key.                                                            *)
Entries(c) == ToSet(c.signers) \union ToSet(c.verifiers)
ProperRotation ==
  /\ Entries(config) \subseteq Entries(config')
  /\ \A d, e \in Entries(config') : d.id = e.id => d = e

(* A proper rotation keeps what can be verified: publicKey() and verify()  *)
(* look in both lists.                                                     *)
RotationKeepsReceipts ==
  [][ProperRotation =>
       \A r \in Receipts : Verify(config, r) = "NONE" => Verify(config', r) = "NONE"]_keyVars
=============================================================================
