----------------------------- MODULE ReceiptStore -----------------------------
(***************************************************************************)
(* Receipts and raw logs: the two writers of signed_receipts (complete()   *)
(* of RunStore and save() of ReceiptStore) over one run_metadata table,    *)
(* the retention of raw logs, and what the readers make of the rows.       *)
(*                                                                         *)
(* A transaction is one action, and one that throws is none: everything it *)
(* has written is rolled back.  Time is a number; a report ends at time 0, *)
(* so a log may have expired before its run is saved.                      *)
(***************************************************************************)
EXTENDS Schema, Integers, FiniteSets, FiniteSetsExt

CONSTANTS
  StoredRuns,
  MaxTime    \* the last moment looked at, and the latest expiry of a log

Terminal == {"COMPLETED", "TIMEOUT", "SYSTEM_ERROR"}
Expiry == 1..MaxTime

ASSUME ReceiptStoreAssumption ==
  /\ MaxTime \in Nat \ {0}
  /\ None \notin Expiry
  /\ None \notin PublicVerdict \cup Terminal \cup {"QUEUED", "RUNNING"}

VARIABLES
  rowStatus, rowVerdict,   \* of each row; None where there is no row
  signedVerdict,           \* the verdict that the receipt of each run signs
  rawLogs,              \* the expiries of the raw logs of each run
  retention,         \* raw_log_metadata; None where there is no row
  now,
  saved              \* history: the latest expiry ever saved, or None

rowVars == <<rowStatus, rowVerdict>>
logVars == <<rawLogs, retention, saved>>
receiptStoreVars == <<rowVars, signedVerdict, logVars, now>>

ReceiptStoreInit ==
  /\ rowStatus = [r \in StoredRuns |-> None]
  /\ rowVerdict = [r \in StoredRuns |-> None]
  /\ signedVerdict = [r \in StoredRuns |-> None]
  /\ rawLogs = [r \in StoredRuns |-> {}]
  /\ retention = [r \in StoredRuns |-> None]
  /\ saved = [r \in StoredRuns |-> None]
  /\ now = 0

-----------------------------------------------------------------------------
(* create() and claimNext() of RunStore. *)
Admit(r) ==
  /\ \/ rowStatus[r] = None /\ rowStatus' = [rowStatus EXCEPT ![r] = "QUEUED"]
     \/ rowStatus[r] = "QUEUED" /\ rowStatus' = [rowStatus EXCEPT ![r] = "RUNNING"]
  /\ UNCHANGED <<rowVerdict, signedVerdict, logVars, now>>

(* Fault: the row stays written when its receipt cannot be inserted. *)
FaultyCompleteRow(r) ==
  /\ rowStatus[r] = "RUNNING"
  /\ \E v \in PublicVerdict : \E s \in {"COMPLETED", "TIMEOUT"} :
       /\ s = "TIMEOUT" => v = "INCONCLUSIVE"
       /\ rowStatus' = [rowStatus EXCEPT ![r] = s]
       /\ rowVerdict' = [rowVerdict EXCEPT ![r] = v]
       /\ signedVerdict' = IF signedVerdict[r] = None THEN [signedVerdict EXCEPT ![r] = v]
                                          ELSE signedVerdict
  /\ UNCHANGED <<logVars, now>>

(* complete() of RunStore; a run has one receipt at most, so it throws     *)
(* when the run has got one in the meantime.                               *)
CompleteRow(r) ==
  /\ rowStatus[r] = "RUNNING" /\ signedVerdict[r] = None
  /\ \E v \in PublicVerdict : \E s \in {"COMPLETED", "TIMEOUT"} :
       /\ s = "TIMEOUT" => v = "INCONCLUSIVE"
       /\ rowStatus' = [rowStatus EXCEPT ![r] = s]
       /\ rowVerdict' = [rowVerdict EXCEPT ![r] = v]
       /\ signedVerdict' = [signedVerdict EXCEPT ![r] = v]
  /\ UNCHANGED <<logVars, now>>

(* Fault: a system error has no verdict. *)
FaultySystemErrorRow(r) ==
  /\ rowStatus[r] = "RUNNING"
  /\ rowStatus' = [rowStatus EXCEPT ![r] = "SYSTEM_ERROR"]
  /\ UNCHANGED <<rowVerdict, signedVerdict, logVars, now>>

(* systemError() and recoverInterruptedRuns() of RunStore. *)
SystemErrorRow(r) ==
  /\ rowStatus[r] = "RUNNING"
  /\ rowStatus' = [rowStatus EXCEPT ![r] = "SYSTEM_ERROR"]
  /\ rowVerdict' = [rowVerdict EXCEPT ![r] = "INCONCLUSIVE"]
  /\ UNCHANGED <<signedVerdict, logVars, now>>

(* The upsert of raw_log_metadata. *)
RetainedUntil(old, expiries) ==
  LET longest == Max(expiries)
  IN  IF old = None \/ longest > old THEN longest ELSE old

SaveLogs(r, expiries) ==
  IF expiries = {}
  THEN UNCHANGED logVars
  ELSE /\ rawLogs' = [rawLogs EXCEPT ![r] = @ \cup expiries]
       /\ retention' = [retention EXCEPT ![r] = RetainedUntil(@, expiries)]
       /\ saved' = [saved EXCEPT ![r] = Max(expiries)]

(* Fault: a second receipt replaces the first one. *)
FaultySave(r) ==
  \E v \in PublicVerdict : \E expiries \in SUBSET Expiry :
    /\ rowVerdict[r] \in {None, v}
    /\ IF rowStatus[r] = None
       THEN /\ rowStatus' = [rowStatus EXCEPT ![r] = "COMPLETED"]
            /\ rowVerdict' = [rowVerdict EXCEPT ![r] = v]
       ELSE UNCHANGED rowVars
    /\ signedVerdict' = [signedVerdict EXCEPT ![r] = v]
    /\ SaveLogs(r, expiries)
    /\ UNCHANGED now

(* save() of ReceiptStore, with a report of the row's subject: the row of  *)
(* a run that has one stays as it is, whatever its status.                 *)
Save(r) ==
  \E v \in PublicVerdict : \E expiries \in SUBSET Expiry :
    /\ rowVerdict[r] \in {None, v} /\ signedVerdict[r] = None
    /\ IF rowStatus[r] = None
       THEN /\ rowStatus' = [rowStatus EXCEPT ![r] = "COMPLETED"]
            /\ rowVerdict' = [rowVerdict EXCEPT ![r] = v]
       ELSE UNCHANGED rowVars
    /\ signedVerdict' = [signedVerdict EXCEPT ![r] = v]
    /\ SaveLogs(r, expiries)
    /\ UNCHANGED now

(* Fault: all the logs of a run go with its first expired one. *)
FaultyUnexpired(expiries) ==
  IF \E e \in expiries : e <= now THEN {} ELSE expiries

Unexpired(expiries) == {e \in expiries : e > now}

DeleteExpiredRawLogs ==
  /\ rawLogs' = [r \in StoredRuns |-> Unexpired(rawLogs[r])]
  /\ UNCHANGED <<rowVars, signedVerdict, retention, saved, now>>

Tick ==
  /\ now < MaxTime
  /\ now' = now + 1
  /\ UNCHANGED <<rowVars, signedVerdict, logVars>>

ReceiptStoreNext ==
  \/ \E r \in StoredRuns : Admit(r) \/ CompleteRow(r) \/ SystemErrorRow(r) \/ Save(r)
  \/ DeleteExpiredRawLogs
  \/ Tick

ReceiptStoreSpec == ReceiptStoreInit /\ [][ReceiptStoreNext]_receiptStoreVars

-----------------------------------------------------------------------------
(* rawLogs(): what an evidence bundle says of the logs of run r. *)
RawLogs(r) ==
  CASE \E e \in rawLogs[r] : e > now -> "retained"
    [] (\A e \in rawLogs[r] : e <= now)
         /\ retention[r] # None /\ retention[r] <= now -> "expired"
    [] OTHER -> "unavailable"

(* inflate() throws for this row: a terminal run without a receipt, or a   *)
(* timeout whose report is conclusive.                                     *)
UnreadableRow(r) ==
  \/ rowStatus[r] \in {"COMPLETED", "TIMEOUT"} /\ signedVerdict[r] = None
  \/ rowStatus[r] = "TIMEOUT" /\ signedVerdict[r] # "INCONCLUSIVE"

(* Only a terminal row has a verdict, and only a saved run has logs. *)
ReceiptStoreTypeOK ==
  /\ rowStatus \in [StoredRuns -> {None, "QUEUED", "RUNNING"} \cup Terminal]
  /\ rowVerdict \in [StoredRuns -> {None} \cup PublicVerdict]
  /\ signedVerdict \in [StoredRuns -> {None} \cup PublicVerdict]
  /\ rawLogs \in [StoredRuns -> SUBSET Expiry]
  /\ retention \in [StoredRuns -> {None} \cup Expiry] /\ saved \in [StoredRuns -> {None} \cup Expiry]
  /\ now \in 0..MaxTime
  /\ \A r \in StoredRuns :
       /\ rowVerdict[r] # None <=> rowStatus[r] \in Terminal
       /\ saved[r] # None => signedVerdict[r] # None

(* Every row that is there can be shown, and a finished run and its        *)
(* receipt never disagree, whichever of the two stores has written each.   *)
RunAgreesWithReceipt ==
  \A r \in StoredRuns :
    /\ ~UnreadableRow(r)
    /\ rowStatus[r] \in {"COMPLETED", "TIMEOUT"} => signedVerdict[r] = rowVerdict[r]

(* The raw logs of a run are retained until the last of them expires and   *)
(* are then known to have expired, whenever the retention job runs; a run  *)
(* whose logs were saved is never one whose logs are unavailable.          *)
LogStateIsHonest ==
  \A r \in StoredRuns :
    RawLogs(r) = CASE saved[r] = None -> "unavailable"
                   [] saved[r] # None /\ saved[r] > now -> "retained"
                   [] OTHER -> "expired"

(* Whatever the two stores and the retention job have written, in whatever*)
(* order: rows agree with receipts, and log states with the logs.         *)
StoresAgree == RunAgreesWithReceipt /\ LogStateIsHonest

(* A receipt is never rewritten, no log is added to a run that has one,    *)
(* and logs that have expired do not come back.                            *)
ReceiptsAreFinal ==
  [][\A r \in StoredRuns :
       /\ signedVerdict[r] # None => signedVerdict'[r] = signedVerdict[r] /\ rawLogs'[r] \subseteq rawLogs[r]
       /\ RawLogs(r) = "expired" => RawLogs(r)' = "expired"]_receiptStoreVars
=============================================================================
