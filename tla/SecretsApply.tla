----------------------------- MODULE SecretsApply -----------------------------
(***************************************************************************)
(* applyConfiguration() of provision-secrets.mjs: one gh command after the *)
(* other publishes an env file to a GitHub Environment.  Any command may   *)
(* fail, before or after it has had its effect; the script then stops, and *)
(* the operator may run it again, with this or another file.  The API may  *)
(* be started from what is published at any moment.                        *)
(***************************************************************************)
EXTENDS Schema, Integers, Sequences, SequencesExt

CONSTANTS
  EnvFiles,      \* env files: [key, keyring, mode, credentials]
  MaxFailures    \* gh commands that fail

Credentials == {"OKX_API_KEY", "OKX_SECRET_KEY", "OKX_PASSPHRASE",
                "PAY_TO_ADDRESS"}

ASSUME SecretsApplyAssumption ==
  /\ MaxFailures \in Nat /\ None \notin EnvFiles /\ None \notin {"applied", "failed"}
  /\ \A f \in EnvFiles : /\ f.keyring \subseteq Nat /\ f.key \in Nat
                      /\ f.mode \in {"free", "paid"}
                      /\ f.credentials \subseteq Credentials

VARIABLES
  remote,         \* the file each published value is from, or None
  stage,          \* idle, preflight or apply
  envFile,        \* the file being applied, or applied last
  planPosition,   \* in the plan
  staleNames,     \* names to be removed before the payment mode is set
  applyOutcome,   \* of the last run of the script
  failures

secretsApplyVars == <<remote, stage, envFile, planPosition, staleNames, applyOutcome, failures>>

(* "settings" are the nineteen variables from the domain to the price. *)
CoreNames == <<"BEARER_TOKEN", "RECEIPT_KEY_ID", "RECEIPT_VERIFICATION_KEYS",
               "RECEIPT_PRIVATE_KEY", "settings">>
CredentialNames == <<"OKX_API_KEY", "OKX_SECRET_KEY", "OKX_PASSPHRASE",
                     "PAY_TO_ADDRESS">>
Names == ToSet(CoreNames) \cup Credentials \cup {"PAYMENT_MODE"}

(* Fault: the private key before its keyring. *)
FaultyApplyPlan(f) ==
  <<"BEARER_TOKEN", "RECEIPT_KEY_ID", "RECEIPT_PRIVATE_KEY",
    "RECEIPT_VERIFICATION_KEYS", "settings">>
  \o (IF f.mode = "paid" THEN CredentialNames ELSE <<>>)
  \o <<"PAYMENT_MODE">>

ApplyPlan(f) ==
  CoreNames \o (IF f.mode = "paid" THEN CredentialNames ELSE <<>>)
            \o <<"PAYMENT_MODE">>

(* The active key is in the keyring. *)
KeysValid(f) == f.key \in f.keyring

(* Fault: the receiving address is optional in paid mode. *)
FaultyPaymentValid(f) ==
  /\ f.mode = "free" => f.credentials = {}
  /\ f.mode = "paid" => Credentials \ {"PAY_TO_ADDRESS"} \subseteq f.credentials

PaymentValid(f) ==
  f.credentials = IF f.mode = "paid" THEN Credentials ELSE {}

SecretsApplyInit ==
  /\ remote = [n \in Names |-> None]
  /\ stage = "idle" /\ envFile = None /\ planPosition = 1 /\ staleNames = {}
  /\ applyOutcome = None /\ failures = 0

-----------------------------------------------------------------------------
(* The keys that have been published stay in the keyring, as the operator  *)
(* is told to see to.                                                      *)
KeepsOldKeys(f) ==
  LET published == remote["RECEIPT_VERIFICATION_KEYS"]
  IN  published # None => published.keyring \subseteq f.keyring

LoadConfiguration ==
  \E f \in EnvFiles :
    /\ stage = "idle"
    /\ KeysValid(f) /\ PaymentValid(f) /\ KeepsOldKeys(f)
    /\ stage' = "preflight" /\ envFile' = f /\ planPosition' = 1 /\ applyOutcome' = None
    /\ UNCHANGED <<remote, staleNames, failures>>

Failure == failures < MaxFailures /\ failures' = failures + 1

EndRun(result) == stage' = "idle" /\ applyOutcome' = result

(* Fault: only the names of secrets are listed. *)
FaultyListed(f) ==
  IF f.mode = "paid" THEN {}
  ELSE {n \in Credentials \ {"PAY_TO_ADDRESS"} : remote[n] # None}

(* The stale names, listed in free mode only. *)
Listed(f) ==
  IF f.mode = "paid" THEN {} ELSE {n \in Credentials : remote[n] # None}

(* The checks of gh, and the listings; none of them changes a value. *)
Preflight ==
  /\ stage = "preflight"
  /\ \/ /\ stage' = "apply" /\ staleNames' = Listed(envFile)
        /\ UNCHANGED <<applyOutcome, failures>>
     \/ Failure /\ EndRun("failed") /\ UNCHANGED staleNames
  /\ UNCHANGED <<remote, envFile, planPosition>>

(* A gh command that sets name to value: done, or failed with or without   *)
(* its effect.                                                             *)
Gh(name, value) ==
  \/ /\ remote' = [remote EXCEPT ![name] = value]
     /\ UNCHANGED <<stage, applyOutcome, failures>>
  \/ /\ remote' \in {remote, [remote EXCEPT ![name] = value]}
     /\ Failure /\ EndRun("failed")

CurrentName == ApplyPlan(envFile)[planPosition]

(* The first of the stale names, in their order. *)
RemoveStale ==
  /\ stage = "apply" /\ CurrentName = "PAYMENT_MODE"
  /\ \E i \in DOMAIN CredentialNames :
       /\ CredentialNames[i] \in staleNames
       /\ \A k \in 1..i - 1 : CredentialNames[k] \notin staleNames
       /\ Gh(CredentialNames[i], None)
       /\ staleNames' = staleNames \ {CredentialNames[i]}
  /\ UNCHANGED <<envFile, planPosition>>

SetValue ==
  /\ stage = "apply" /\ planPosition < Len(ApplyPlan(envFile))
  /\ Gh(CurrentName, envFile)
  /\ planPosition' = planPosition + 1
  /\ UNCHANGED <<envFile, staleNames>>

(* The payment mode is set last. *)
SetPaymentMode ==
  /\ stage = "apply" /\ CurrentName = "PAYMENT_MODE" /\ staleNames = {}
  /\ \/ /\ remote' = [remote EXCEPT !["PAYMENT_MODE"] = envFile]
        /\ EndRun("applied") /\ UNCHANGED failures
     \/ /\ remote' \in {remote, [remote EXCEPT !["PAYMENT_MODE"] = envFile]}
        /\ Failure /\ EndRun("failed")
  /\ UNCHANGED <<envFile, planPosition, staleNames>>

SecretsApplyNext ==
  \/ LoadConfiguration \/ Preflight
  \/ RemoveStale \/ SetValue \/ SetPaymentMode

SecretsApplySpec == SecretsApplyInit /\ [][SecretsApplyNext]_secretsApplyVars

-----------------------------------------------------------------------------
(* A run of the script stays within its plan, and what it has to remove is *)
(* still published.                                                        *)
SecretsApplyTypeOK ==
  /\ remote \in [Names -> EnvFiles \cup {None}]
  /\ stage \in {"idle", "preflight", "apply"}
  /\ envFile \in EnvFiles \cup {None}
  /\ stage # "idle" => envFile # None /\ planPosition \in DOMAIN ApplyPlan(envFile)
  /\ stage = "apply" => \A n \in staleNames : remote[n] # None
  /\ applyOutcome \in {None, "applied", "failed"}
  /\ failures \in 0..MaxFailures

(* An apply that reports success has published its file and nothing else,  *)
(* whatever mixture earlier failures had left.                             *)
AppliedIsPublished ==
  applyOutcome = "applied" =>
    \A n \in Names : remote[n] = IF n \in ToSet(ApplyPlan(envFile)) THEN envFile
                                                                 ELSE None

(* However far an apply has come, an API that is started from what is    *)
(* published finds the public key of its private key in its keyring.     *)
KeyringCoversPrivateKey ==
  LET signing == remote["RECEIPT_PRIVATE_KEY"]
      keyring == remote["RECEIPT_VERIFICATION_KEYS"]
  IN  signing # None => keyring # None /\ signing.key \in keyring.keyring

(* Paid mode is switched on by a step that finds all the credentials of    *)
(* its own file published.                                                 *)
Paid(value) == value # None /\ value.mode = "paid"
PaidIsActivatedLast ==
  [][Paid(remote'["PAYMENT_MODE"]) /\ ~Paid(remote["PAYMENT_MODE"])
       => \A n \in Credentials : remote[n] = remote'["PAYMENT_MODE"]
                                 /\ n \in remote[n].credentials]_secretsApplyVars

=============================================================================
