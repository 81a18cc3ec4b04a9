------------------------------ MODULE MCReceipts ------------------------------
(***************************************************************************)
(* Receipts, what is made of them, and how their keys are provisioned.  A  *)
(* behaviour is one of a single part, while the others rest in a state of  *)
(* theirs: the parts share no variable, so nothing is lost by not          *)
(* interleaving them.                                                      *)
(***************************************************************************)
EXTENDS ReceiptPromises, TLC

VARIABLE part

-----------------------------------------------------------------------------
(* One run of each kind that makes a different bundle. *)
MCRunKinds ==
  {[contract |-> TRUE,  isPublic |-> TRUE,  logs |-> <<"clean", "secret">>],
   [contract |-> FALSE, isPublic |-> TRUE,  logs |-> <<"clean", "unsafe">>],
   [contract |-> FALSE, isPublic |-> FALSE, logs |-> <<"clean">>],
   [contract |-> TRUE,  isPublic |-> TRUE,  logs |-> <<"unavailable">>]}

(* Two safe paths of different lengths and an unsafe one; empty data, data *)
(* of the greatest size and data beyond it.                                *)
MCPathLength(path) == IF path = "b" THEN 2 ELSE 1
MCDataLength(data) == CASE data = "empty" -> 0 [] data = "full" -> 2 [] data = "large" -> 3 [] OTHER -> 1

(* Env files: two keys, each free and paid, the second after a rotation;   *)
(* and three that the validation refuses.                                  *)
EnvFile(key, keyring, mode, credentials) ==
  [key |-> key, keyring |-> keyring, mode |-> mode, credentials |-> credentials]

MCFiles ==
  {EnvFile(k, 1..k, "free", {}) : k \in 1..2}
  \cup {EnvFile(k, 1..k, "paid", Credentials) : k \in 1..2}
  \cup {EnvFile(2, {1}, "free", {}),
        EnvFile(1, {1}, "free", {"OKX_API_KEY"}),
        EnvFile(1, {1}, "paid", Credentials \ {"PAY_TO_ADDRESS"})}

-----------------------------------------------------------------------------
(* Bundles are made with a single key, and a check that no contract asks   *)
(* for is reported only when it is the only one.                           *)
OneSigner(c) == Len(c.signers) = 1 /\ c.verifiers = <<>>
FewOutcomes ==
  runReport # None =>
    \A id \in OtherCheck :
      runReport.checks[id] # None => \A other \in CheckId \ {id} : runReport.checks[other] = None

(* A file is damaged once, or twice while there is no other receipt.       *)
LittleDamage ==
  damage = MaxDamage => Cardinality(created) = 1 /\ Cardinality(Receipts) = 1

OneKind == [p \in Payloads |-> CHOOSE k \in RunKinds : TRUE]

Init ==
  /\ part \in {"store", "keys", "bundle", "archive", "acceptance", "init", "apply"}
  /\ part \notin {"keys", "bundle"} => config = CHOOSE c \in Configs : OneSigner(c)
  /\ part # "bundle" => runs = OneKind
  /\ part # "archive" => given = <<>>
  /\ part # "acceptance" => runContract = CHOOSE c \in Contracts : TRUE
  /\ ReceiptStoreInit /\ BundleInit /\ ZipArchiveInit /\ AcceptanceInit
  /\ SecretsInitInit /\ (part # "init" => disk = [f \in File |-> "absent"])
  /\ SecretsApplyInit
  /\ part = "bundle" => OneSigner(config)

receiptVars == <<receiptStoreVars, bundleVars, zipArchiveVars, acceptanceVars>>
secretsVars == <<secretsInitVars, secretsApplyVars>>

Next ==
  /\ UNCHANGED part
  /\ \/ /\ part = "store" /\ ReceiptStoreNext
        /\ UNCHANGED <<bundleVars, zipArchiveVars, acceptanceVars, secretsVars>>
     \/ /\ part = "keys" /\ KeysNext /\ Keep
        /\ UNCHANGED <<receiptStoreVars, zipArchiveVars, acceptanceVars, secretsVars>>
     \/ /\ part = "bundle" /\ BundleNext /\ (OneSigner(config) /\ LittleDamage)'
        /\ UNCHANGED <<receiptStoreVars, zipArchiveVars, acceptanceVars, secretsVars>>
     \/ /\ part = "archive" /\ ZipArchiveNext
        /\ UNCHANGED <<receiptStoreVars, bundleVars, acceptanceVars, secretsVars>>
     \/ /\ part = "acceptance" /\ AcceptanceNext /\ FewOutcomes'
        /\ UNCHANGED <<receiptStoreVars, bundleVars, zipArchiveVars, secretsVars>>
     \/ /\ part = "init" /\ SecretsInitNext
        /\ UNCHANGED <<receiptVars, secretsApplyVars>>
     \/ /\ part = "apply" /\ SecretsApplyNext
        /\ UNCHANGED <<receiptVars, secretsInitVars>>

vars == <<part, receiptVars, secretsVars>>

Spec == Init /\ [][Next]_vars

Interchangeable == Permutations(Payloads) \cup Permutations(Keys) \cup Permutations(Ids)

===============================================================================
