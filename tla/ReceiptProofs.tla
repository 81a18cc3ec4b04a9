---------------------------- MODULE ReceiptProofs ----------------------------
(***************************************************************************)
(* Rows, receipts and raw logs agree for any runs and any time, whatever   *)
(* the two stores, the retention job and the clock do in whatever order;   *)
(* whoever verifies a receipt finds the same, for any lists of keys; what  *)
(* provisioning creates and publishes is coherent; an evaluation says what *)
(* its report proves; and a bundle is accepted exactly when it was made of *)
(* an issued receipt whose key is published.                               *)
(***************************************************************************)
EXTENDS ReceiptPromises, ZipArchiveProofs

(* What the metadata of a run remembers of its logs, and which of them     *)
(* must still be there.                                                    *)
LogsOK ==
  \A r \in StoredRuns :
    /\ saved[r] = None => rawLogs[r] = {} /\ retention[r] = None
    /\ saved[r] # None =>
         /\ retention[r] = saved[r]
         /\ \A e \in rawLogs[r] : e <= saved[r]
         /\ saved[r] > now => saved[r] \in rawLogs[r]

ReceiptStoreIInv == ReceiptStoreTypeOK /\ RunAgreesWithReceipt /\ LogsOK

-----------------------------------------------------------------------------
(* A set of expiries has a latest one: what is left of the time until      *)
(* MaxTime is a natural number.                                            *)
LEMMA LatestExpiry ==
  ASSUME NEW expiries \in SUBSET Expiry, expiries # {}
  PROVE  Max(expiries) \in expiries /\ \A e \in expiries : e <= Max(expiries)
<1> USE ReceiptStoreAssumption DEF Expiry
<1> DEFINE left == {MaxTime - e : e \in expiries}
<1>1. \A e \in expiries : e \in Nat /\ MaxTime - e \in Nat
  OBVIOUS
<1>2. left # {} /\ left \subseteq Nat
  BY <1>1
<1>3. PICK least \in left : \A y \in left : <<y, least>> \notin OpToRel(<, Nat)
  BY <1>2, WFMin, NatLessThanWellFounded
<1>4. \A y \in left : least <= y
  <2> HIDE DEF left
  <2> SUFFICES ASSUME NEW y \in left PROVE least <= y
    OBVIOUS
  <2>1. y \in Nat /\ least \in Nat
    BY <1>2
  <2>2. ~(y < least)
    BY <1>3, <2>1 DEF OpToRel
  <2> QED
    BY <2>1, <2>2
<1>5. PICK latest \in expiries : least = MaxTime - latest
  OBVIOUS
<1>6. \A e \in expiries : latest >= e
  <2> SUFFICES ASSUME NEW e \in expiries PROVE latest >= e
    OBVIOUS
  <2>1. MaxTime - latest <= MaxTime - e
    BY <1>4, <1>5
  <2> QED
    BY <1>1, <2>1
<1>7. Max(expiries) \in expiries /\ \A e \in expiries : Max(expiries) >= e
  BY <1>5, <1>6 DEF Max
<1> QED
  BY <1>7

(* The logs of a run are saved once, with its receipt. *)
LEMMA SaveLogsKeeps ==
  ASSUME ReceiptStoreIInv, NEW r \in StoredRuns, NEW expiries \in SUBSET Expiry,
         signedVerdict[r] = None, SaveLogs(r, expiries), now' = now
  PROVE  /\ LogsOK'
         /\ rawLogs' \in [StoredRuns -> SUBSET Expiry]
         /\ retention' \in [StoredRuns -> {None} \cup Expiry]
         /\ saved' \in [StoredRuns -> {None} \cup Expiry]
         /\ \A q \in StoredRuns \ {r} : /\ saved'[q] = saved[q]
                                        /\ rawLogs'[q] = rawLogs[q]
                                        /\ retention'[q] = retention[q]
<1> USE DEF ReceiptStoreIInv, ReceiptStoreTypeOK
<1>1. saved[r] = None /\ rawLogs[r] = {} /\ retention[r] = None
  BY DEF LogsOK
<1>2. CASE expiries = {}
  BY <1>2 DEF SaveLogs, logVars, LogsOK
<1>3. CASE expiries # {}
  <2> DEFINE latest == Max(expiries)
  <2>1. latest \in Expiry /\ latest \in expiries /\ \A e \in expiries : e <= latest
    BY <1>3, LatestExpiry
  <2> HIDE DEF latest
  <2>2. /\ rawLogs' = [rawLogs EXCEPT ![r] = expiries]
        /\ retention' = [retention EXCEPT ![r] = latest]
        /\ saved' = [saved EXCEPT ![r] = latest]
    BY <1>1, <1>3 DEF SaveLogs, RetainedUntil, latest
  <2>3. latest # None
    BY <2>1, ReceiptStoreAssumption
  <2>4. LogsOK'
    BY <2>1, <2>2, <2>3 DEF LogsOK
  <2> QED
    BY <2>1, <2>2, <2>4
<1> QED
  BY <1>2, <1>3

LEMMA ReceiptStoreInitial == ReceiptStoreInit => ReceiptStoreIInv
  BY ReceiptStoreAssumption
     DEF ReceiptStoreInit, ReceiptStoreIInv, ReceiptStoreTypeOK, RunAgreesWithReceipt,
         LogsOK, UnreadableRow, Terminal, PublicVerdict

(* What only writes the rows and receipts of one run. *)
LEMMA RowStep ==
  ASSUME ReceiptStoreIInv, NEW r \in StoredRuns,
         Admit(r) \/ CompleteRow(r) \/ SystemErrorRow(r)
  PROVE  ReceiptStoreIInv'
<1> USE ReceiptStoreAssumption
    DEF ReceiptStoreIInv, ReceiptStoreTypeOK, Terminal, PublicVerdict
<1>1. LogsOK' /\ UNCHANGED <<rawLogs, retention, saved, now>>
  BY DEF Admit, CompleteRow, SystemErrorRow, LogsOK, logVars
<1>2. CASE Admit(r)
  BY <1>1, <1>2 DEF Admit, RunAgreesWithReceipt, UnreadableRow
<1>3. CASE CompleteRow(r)
  BY <1>1, <1>3 DEF CompleteRow, RunAgreesWithReceipt, UnreadableRow
<1>4. CASE SystemErrorRow(r)
  BY <1>1, <1>4 DEF SystemErrorRow, RunAgreesWithReceipt, UnreadableRow
<1> QED
  BY <1>2, <1>3, <1>4

LEMMA SaveStep ==
  ASSUME ReceiptStoreIInv, NEW r \in StoredRuns, Save(r)
  PROVE  ReceiptStoreIInv'
<1> USE ReceiptStoreAssumption
    DEF ReceiptStoreIInv, ReceiptStoreTypeOK, Terminal, PublicVerdict
<1>1. PICK v \in PublicVerdict, expiries \in SUBSET Expiry :
        /\ rowVerdict[r] \in {None, v} /\ signedVerdict[r] = None
        /\ IF rowStatus[r] = None
           THEN /\ rowStatus' = [rowStatus EXCEPT ![r] = "COMPLETED"]
                /\ rowVerdict' = [rowVerdict EXCEPT ![r] = v]
           ELSE UNCHANGED <<rowStatus, rowVerdict>>
        /\ signedVerdict' = [signedVerdict EXCEPT ![r] = v]
        /\ SaveLogs(r, expiries) /\ now' = now
  BY DEF Save, rowVars
<1>2. /\ LogsOK'
      /\ rawLogs' \in [StoredRuns -> SUBSET Expiry]
      /\ retention' \in [StoredRuns -> {None} \cup Expiry]
      /\ saved' \in [StoredRuns -> {None} \cup Expiry]
      /\ \A q \in StoredRuns \ {r} : saved'[q] = saved[q]
  BY <1>1, SaveLogsKeeps
<1>3. ReceiptStoreTypeOK'
  <2>1. /\ rowStatus' \in [StoredRuns -> {None, "QUEUED", "RUNNING"} \cup Terminal]
        /\ rowVerdict' \in [StoredRuns -> {None} \cup PublicVerdict]
        /\ signedVerdict' \in [StoredRuns -> {None} \cup PublicVerdict]
    BY <1>1
  <2>2. \A q \in StoredRuns : rowVerdict'[q] # None <=> rowStatus'[q] \in Terminal
    BY <1>1
  <2>3. \A q \in StoredRuns : saved'[q] # None => signedVerdict'[q] # None
    BY <1>1, <1>2
  <2> QED
    BY <1>1, <1>2, <2>1, <2>2, <2>3
<1>4. RunAgreesWithReceipt'
  BY <1>1 DEF RunAgreesWithReceipt, UnreadableRow
<1> QED
  BY <1>2, <1>3, <1>4

LEMMA ReceiptStoreStep ==
  ASSUME ReceiptStoreIInv, [ReceiptStoreNext]_receiptStoreVars
  PROVE  ReceiptStoreIInv'
<1> USE DEF ReceiptStoreIInv, ReceiptStoreTypeOK
<1>1. CASE \E r \in StoredRuns : Admit(r) \/ CompleteRow(r) \/ SystemErrorRow(r) \/ Save(r)
  BY <1>1, RowStep, SaveStep
<1>2. CASE DeleteExpiredRawLogs
  <2>1. LogsOK'
    BY <1>2, ReceiptStoreAssumption DEF DeleteExpiredRawLogs, Unexpired, LogsOK, Expiry
  <2>2. RunAgreesWithReceipt'
    BY <1>2 DEF DeleteExpiredRawLogs, rowVars, RunAgreesWithReceipt, UnreadableRow
  <2> QED
    BY <1>2, <2>1, <2>2 DEF DeleteExpiredRawLogs, rowVars, Unexpired
<1>3. CASE Tick
  <2>1. LogsOK'
    BY <1>3, ReceiptStoreAssumption DEF Tick, logVars, LogsOK, Expiry
  <2>2. RunAgreesWithReceipt'
    BY <1>3 DEF Tick, rowVars, RunAgreesWithReceipt, UnreadableRow
  <2> QED
    BY <1>3, <2>1, <2>2, ReceiptStoreAssumption DEF Tick, rowVars, logVars
<1>4. CASE UNCHANGED receiptStoreVars
  BY <1>4 DEF receiptStoreVars, rowVars, logVars, RunAgreesWithReceipt, UnreadableRow, LogsOK
<1> QED
  BY <1>1, <1>2, <1>3, <1>4 DEF ReceiptStoreNext

-----------------------------------------------------------------------------
(* What rawLogs() finds in each of the three cases. *)
LEMMA LogStates ==
  ASSUME ReceiptStoreIInv, NEW r \in StoredRuns
  PROVE  RawLogs(r) = CASE saved[r] = None -> "unavailable"
                        [] saved[r] # None /\ saved[r] > now -> "retained"
                        [] OTHER -> "expired"
<1> USE ReceiptStoreAssumption DEF ReceiptStoreIInv, ReceiptStoreTypeOK, LogsOK, Expiry
<1>1. CASE saved[r] = None
  BY <1>1 DEF RawLogs
<1>2. CASE saved[r] # None /\ saved[r] > now
  BY <1>2 DEF RawLogs
<1>3. CASE saved[r] # None /\ ~(saved[r] > now)
  BY <1>3 DEF RawLogs
<1> QED
  BY <1>1, <1>2, <1>3

LEMMA StoresAgreeHolds == ReceiptStoreIInv => StoresAgree
  BY LogStates DEF ReceiptStoreIInv, StoresAgree, LogStateIsHonest

(* No finished run disagrees with its receipt, no row becomes unreadable,  *)
(* and every run's logs are known to be retained or expired, whatever the  *)
(* two stores, the retention job and the clock do in whatever order.       *)
THEOREM StoresAlwaysAgree == ReceiptStoreSpec => []StoresAgree
  BY ReceiptStoreInitial, ReceiptStoreStep, StoresAgreeHolds, PTL DEF ReceiptStoreSpec

(* What a step may change of a run that has a receipt. *)
LEMMA StepKeepsReceipts ==
  ASSUME ReceiptStoreIInv, [ReceiptStoreNext]_receiptStoreVars, NEW r \in StoredRuns
  PROVE  /\ now' \in Int /\ now <= now'
         /\ saved[r] # None => saved'[r] = saved[r]
         /\ signedVerdict[r] # None => /\ signedVerdict'[r] = signedVerdict[r]
                                       /\ rawLogs'[r] \subseteq rawLogs[r]
<1> USE ReceiptStoreAssumption DEF ReceiptStoreIInv, ReceiptStoreTypeOK
<1>1. CASE \E q \in StoredRuns : Admit(q) \/ CompleteRow(q) \/ SystemErrorRow(q)
  BY <1>1 DEF Admit, CompleteRow, SystemErrorRow, logVars
<1>2. CASE \E q \in StoredRuns : Save(q)
  <2>1. PICK q \in StoredRuns, v \in PublicVerdict, expiries \in SUBSET Expiry :
          /\ signedVerdict[q] = None /\ signedVerdict' = [signedVerdict EXCEPT ![q] = v]
          /\ SaveLogs(q, expiries) /\ now' = now
    BY <1>2 DEF Save
  <2>2. \A p \in StoredRuns \ {q} : saved'[p] = saved[p] /\ rawLogs'[p] = rawLogs[p]
    BY <2>1, SaveLogsKeeps
  <2>3. saved[q] = None
    BY <2>1
  <2> QED
    BY <2>1, <2>2, <2>3
<1>3. CASE DeleteExpiredRawLogs
  BY <1>3 DEF DeleteExpiredRawLogs, Unexpired
<1>4. CASE Tick
  BY <1>4 DEF Tick, logVars
<1>5. CASE UNCHANGED receiptStoreVars
  BY <1>5 DEF receiptStoreVars, logVars
<1> QED
  BY <1>1, <1>2, <1>3, <1>4, <1>5 DEF ReceiptStoreNext

LEMMA StepIsFinal ==
  ASSUME ReceiptStoreIInv, ReceiptStoreIInv', [ReceiptStoreNext]_receiptStoreVars,
         NEW r \in StoredRuns
  PROVE  /\ signedVerdict[r] # None => /\ signedVerdict'[r] = signedVerdict[r]
                                       /\ rawLogs'[r] \subseteq rawLogs[r]
         /\ RawLogs(r) = "expired" => RawLogs(r)' = "expired"
<1> SUFFICES ASSUME RawLogs(r) = "expired" PROVE RawLogs(r)' = "expired"
  BY StepKeepsReceipts
<1>1. saved[r] # None /\ saved[r] <= now
  BY LogStates, ReceiptStoreAssumption DEF ReceiptStoreIInv, ReceiptStoreTypeOK, Expiry
<1>2. saved'[r] # None /\ ~(saved'[r] > now')
  BY <1>1, StepKeepsReceipts, ReceiptStoreAssumption
     DEF ReceiptStoreIInv, ReceiptStoreTypeOK, Expiry
<1>3. /\ retention'[r] = saved'[r] /\ retention'[r] <= now'
      /\ \A e \in rawLogs'[r] : e <= now' /\ ~(e > now')
  BY <1>2, ReceiptStoreAssumption
     DEF ReceiptStoreIInv, ReceiptStoreTypeOK, LogsOK, Expiry
<1> QED
  BY <1>2, <1>3 DEF RawLogs

(* A receipt is never rewritten, no log is added to a run that has one,    *)
(* and logs that have expired do not come back.                            *)
THEOREM ReceiptsStayFinal == ReceiptStoreSpec => ReceiptsAreFinal
<1>1. /\ ReceiptStoreIInv /\ ReceiptStoreIInv' /\ [ReceiptStoreNext]_receiptStoreVars
      => [\A r \in StoredRuns :
            /\ signedVerdict[r] # None =>
                 signedVerdict'[r] = signedVerdict[r] /\ rawLogs'[r] \subseteq rawLogs[r]
            /\ RawLogs(r) = "expired" => RawLogs(r)' = "expired"]_receiptStoreVars
  BY StepIsFinal
<1> QED
  BY <1>1, ReceiptStoreInitial, ReceiptStoreStep, PTL DEF ReceiptStoreSpec, ReceiptsAreFinal

-----------------------------------------------------------------------------
(* The keys.  KeysTypeOK is inductive as it stands. *)

(* What Find() finds: the first match, or nothing. *)
IsFirst(list, k, id) ==
  k \in 1..Len(list) /\ list[k].id = id /\ \A j \in 1..Len(list) : j < k => list[j].id # id

LEMMA Finds ==
  ASSUME NEW list \in Seq(KeyEntries), NEW id
  PROVE  \/ (\A k \in 1..Len(list) : list[k].id # id) /\ Find(list, id) = None
         \/ \E k \in 1..Len(list) : /\ IsFirst(list, k, id) /\ Find(list, id) = list[k].key
                                    /\ list[k].key \in Keys
<1> DEFINE matching == {k \in DOMAIN list : list[k].id = id}
<1>1. DOMAIN list = 1..Len(list) /\ Len(list) \in Nat
  OBVIOUS
<1>2. CASE matching = {}
  BY <1>1, <1>2 DEF Find
<1>3. CASE matching # {}
  <2>1. matching \in SUBSET Nat
    BY <1>1
  <2>2. PICK k \in matching : k = Min(matching) /\ \A j \in matching : k <= j
    BY <1>3, <2>1, FirstMatch
  <2>3. k \in 1..Len(list) /\ list[k].id = id /\ list[k].key \in Keys
    <3>1. k \in 1..Len(list) /\ list[k].id = id
      BY <1>1, <2>2
    <3>2. list[k] \in KeyEntries
      BY <3>1
    <3> QED
      BY <3>1, <3>2 DEF KeyEntries
  <2>4. Find(list, id) = list[k].key
    BY <1>3, <2>2 DEF Find
  <2>5. \A j \in 1..Len(list) : j < k => list[j].id # id
    <3> SUFFICES ASSUME NEW j \in 1..Len(list), j < k, list[j].id = id PROVE FALSE
      OBVIOUS
    <3>1. j \in matching
      BY <1>1
    <3>2. k <= j
      BY <2>2, <3>1
    <3> QED
      BY <1>1, <2>3, <3>2
  <2> QED
    BY <2>3, <2>4, <2>5 DEF IsFirst
<1> QED
  BY <1>2, <1>3

LEMMA FindsFirst ==
  ASSUME NEW list \in Seq(KeyEntries), NEW id, NEW k, IsFirst(list, k, id)
  PROVE  Find(list, id) = list[k].key
<1>1. PICK m \in 1..Len(list) : IsFirst(list, m, id) /\ Find(list, id) = list[m].key
  BY Finds DEF IsFirst
<1>2. m = k
  BY <1>1 DEF IsFirst
<1> QED
  BY <1>1, <1>2

LEMMA FindsNothing ==
  ASSUME NEW list \in Seq(KeyEntries), NEW id, \A k \in 1..Len(list) : list[k].id # id
  PROVE  Find(list, id) = None
BY Finds DEF IsFirst

(* The two lists behind each other. *)
LEMMA Concatenated ==
  ASSUME NEW a \in Seq(KeyEntries), NEW b \in Seq(KeyEntries), NEW both, both = a \o b
  PROVE  /\ both \in Seq(KeyEntries) /\ Len(both) = Len(a) + Len(b)
         /\ Len(a) \in Nat /\ Len(b) \in Nat
         /\ \A k \in 1..Len(a) : both[k] = a[k]
         /\ \A k \in 1..Len(b) : both[Len(a) + k] = b[k]
         /\ \A k \in 1..Len(both) : k \in 1..Len(a) \/ \E j \in 1..Len(b) : k = Len(a) + j
<1>1. /\ both \in Seq(KeyEntries) /\ Len(both) = Len(a) + Len(b)
      /\ Len(a) \in Nat /\ Len(b) \in Nat
      /\ \A k \in 1..Len(a) : both[k] = a[k]
      /\ \A k \in 1..Len(b) : both[Len(a) + k] = b[k]
  OBVIOUS
<1>2. ASSUME NEW k \in 1..Len(both), k \notin 1..Len(a)
      PROVE  \E j \in 1..Len(b) : k = Len(a) + j
  <2>1. k - Len(a) \in 1..Len(b) /\ k = Len(a) + (k - Len(a))
    BY <1>1, <1>2
  <2> QED
    BY <2>1
<1> QED
  BY <1>1, <1>2

LEMMA EntriesOfBoth ==
  ASSUME NEW a \in Seq(KeyEntries), NEW b \in Seq(KeyEntries), NEW both, both = a \o b
  PROVE  \A e : e \in ToSet(a) \union ToSet(b) <=> \E k \in 1..Len(both) : both[k] = e
<1>0. DOMAIN a = 1..Len(a) /\ DOMAIN b = 1..Len(b)
  OBVIOUS
<1>1. ToSet(a) = {a[k] : k \in 1..Len(a)} /\ ToSet(b) = {b[k] : k \in 1..Len(b)}
  BY <1>0 DEF ToSet
<1>2. ASSUME NEW k \in 1..Len(both)
      PROVE  both[k] \in {a[j] : j \in 1..Len(a)} \union {b[j] : j \in 1..Len(b)}
  <2>1. CASE k \in 1..Len(a)
    BY <2>1, Concatenated
  <2>2. CASE k \notin 1..Len(a)
    <3>1. PICK j \in 1..Len(b) : k = Len(a) + j
      BY <2>2, Concatenated
    <3>2. both[k] = b[j]
      BY <3>1, Concatenated
    <3> QED
      BY <3>2
  <2> QED
    BY <2>1, <2>2
<1>3. ASSUME NEW k \in 1..Len(a)
      PROVE  a[k] \in {both[j] : j \in 1..Len(both)}
  <2>1. k \in 1..Len(both) /\ both[k] = a[k]
    BY Concatenated
  <2> QED
    BY <2>1
<1>4. ASSUME NEW k \in 1..Len(b)
      PROVE  b[k] \in {both[j] : j \in 1..Len(both)}
  <2>1. Len(a) + k \in 1..Len(both) /\ both[Len(a) + k] = b[k]
    <3>1. /\ Len(both) = Len(a) + Len(b) /\ Len(a) \in Nat /\ Len(b) \in Nat
          /\ both[Len(a) + k] = b[k]
      BY Concatenated
    <3> QED
      BY <3>1
  <2> QED
    BY <2>1
<1> QED
  BY <1>1, <1>2, <1>3, <1>4

(* verifyReceipt() looks through both lists, the ring of signing keys      *)
(* first.                                                                  *)
LEMMA FindInBoth ==
  ASSUME NEW a \in Seq(KeyEntries), NEW b \in Seq(KeyEntries), NEW id,
         NEW both, both = a \o b
  PROVE  Find(both, id) = IF Find(a, id) # None THEN Find(a, id) ELSE Find(b, id)
<1>1. /\ both \in Seq(KeyEntries) /\ Len(both) = Len(a) + Len(b)
      /\ Len(a) \in Nat /\ Len(b) \in Nat
      /\ \A k \in 1..Len(a) : both[k] = a[k]
      /\ \A k \in 1..Len(b) : both[Len(a) + k] = b[k]
  BY Concatenated
<1>2. \A k \in 1..Len(both) : k \in 1..Len(a) \/ \E j \in 1..Len(b) : k = Len(a) + j
  <2> SUFFICES ASSUME NEW k \in 1..Len(both), k \notin 1..Len(a)
               PROVE  \E j \in 1..Len(b) : k = Len(a) + j
    OBVIOUS
  <2>1. k - Len(a) \in 1..Len(b) /\ k = Len(a) + (k - Len(a))
    BY <1>1
  <2> QED
    BY <2>1
<1>3. CASE \A k \in 1..Len(a) : a[k].id # id
  <2>1. Find(a, id) = None
    BY <1>3, FindsNothing
  <2>2. CASE \A k \in 1..Len(b) : b[k].id # id
    <3>1. \A k \in 1..Len(both) : both[k].id # id
      BY <1>1, <1>2, <1>3, <2>2
    <3>2. Find(b, id) = None /\ Find(both, id) = None
      BY <1>1, <2>2, <3>1, FindsNothing
    <3> QED
      BY <2>1, <3>2
  <2>3. CASE \E k \in 1..Len(b) : b[k].id = id
    <3>1. PICK k \in 1..Len(b) : IsFirst(b, k, id) /\ Find(b, id) = b[k].key
      BY <2>3, Finds
    <3>2. IsFirst(both, Len(a) + k, id)
      <4>1. \A j \in 1..Len(both) : j < Len(a) + k => both[j].id # id
        <5> SUFFICES ASSUME NEW j \in 1..Len(both), j < Len(a) + k PROVE both[j].id # id
          OBVIOUS
        <5>1. CASE j \in 1..Len(a)
          BY <1>1, <1>3, <5>1
        <5>2. ASSUME NEW i \in 1..Len(b), j = Len(a) + i PROVE both[j].id # id
          BY <1>1, <3>1, <5>2 DEF IsFirst
        <5> QED
          BY <1>2, <5>1, <5>2
      <4>2. Len(a) + k \in 1..Len(both) /\ both[Len(a) + k].id = id
        BY <1>1, <3>1 DEF IsFirst
      <4> QED
        BY <4>1, <4>2 DEF IsFirst
    <3>3. Find(both, id) = both[Len(a) + k].key
      BY <1>1, <3>2, FindsFirst
    <3> QED
      BY <1>1, <2>1, <3>1, <3>3
  <2> QED
    BY <2>2, <2>3
<1>4. CASE \E k \in 1..Len(a) : a[k].id = id
  <2>1. PICK k \in 1..Len(a) : /\ IsFirst(a, k, id) /\ Find(a, id) = a[k].key
                               /\ a[k].key \in Keys
    BY <1>4, Finds
  <2>2. IsFirst(both, k, id)
    <3>1. \A j \in 1..Len(both) : j < k => both[j] = a[j] /\ j \in 1..Len(a)
      BY <1>1, <2>1
    <3>2. k \in 1..Len(both) /\ both[k] = a[k]
      BY <1>1
    <3> QED
      BY <2>1, <3>1, <3>2 DEF IsFirst
  <2>3. Find(both, id) = both[k].key
    BY <1>1, <2>2, FindsFirst
  <2>4. Find(a, id) # None
    BY <2>1, ReceiptKeysAssumption
  <2> QED
    BY <1>1, <2>1, <2>3, <2>4
<1> QED
  BY <1>3, <1>4

LEMMA ConfigLists ==
  ASSUME NEW c \in Configs
  PROVE  c.signers \in Seq(KeyEntries) /\ c.verifiers \in Seq(KeyEntries)
<1>1. /\ c.signers \in BoundedSeq(KeyEntries, MaxSigners)
      /\ c.verifiers \in BoundedSeq(KeyEntries, MaxVerifiers)
  BY DEF Configs
<1> QED
  BY <1>1, ReceiptKeysAssumption DEF BoundedSeq, SeqOf

LEMMA KeysInitial == KeysInit => KeysTypeOK
<1> SUFFICES ASSUME KeysInit PROVE KeysTypeOK
  OBVIOUS
<1>1. config \in Configs /\ ValidKeys(config)
  BY DEF KeysInit, Configs
<1>2. issued \in [Payloads -> {None} \union {Signed(p, e) : p \in Payloads, e \in KeyEntries}]
  <2> DEFINE written == {Signed(p, e) : p \in Payloads, e \in KeyEntries}
  <2> HIDE DEF written
  <2>1. issued \in [Payloads -> {None} \union written]
    BY DEF KeysInit
  <2> QED
    BY <2>1 DEF written
<1>3. \A p \in Payloads : issued[p] = None
  BY DEF KeysInit
<1> QED
  BY <1>1, <1>2, <1>3 DEF KeysTypeOK, ValidKeys, Ring

LEMMA KeysStep == KeysTypeOK /\ [KeysNext]_keyVars => KeysTypeOK'
<1> SUFFICES ASSUME KeysTypeOK, [KeysNext]_keyVars PROVE KeysTypeOK'
  OBVIOUS
<1>1. ASSUME NEW payload \in Payloads, IssueReceipt(payload)
      PROVE  KeysTypeOK'
  <2>1. config.signers[1] \in KeyEntries
    <3>1. config \in Configs /\ config.signers # <<>>
      BY DEF KeysTypeOK, Configs, ValidKeys
    <3> QED
      BY <3>1, ConfigLists
  <2>2. issued' = [issued EXCEPT ![payload] = Signed(payload, config.signers[1])]
    BY <1>1 DEF IssueReceipt
  <2>3. \A p \in Payloads : issued'[p] # None => \E e \in KeyEntries : issued'[p] = Signed(p, e)
    BY <2>1, <2>2 DEF KeysTypeOK
  <2>4. issued' \in [Payloads -> {None} \union {Signed(p, e) : p \in Payloads, e \in KeyEntries}]
    BY <2>1, <2>2 DEF KeysTypeOK
  <2> QED
    BY <1>1, <2>3, <2>4 DEF KeysTypeOK, IssueReceipt
<1>2. CASE Reconfigure
  BY <1>2 DEF Reconfigure, KeysTypeOK, Configs, ValidKeys, Ring
<1>3. CASE UNCHANGED keyVars
  BY <1>3 DEF keyVars, KeysTypeOK
<1> QED
  BY <1>1, <1>2, <1>3 DEF KeysNext

(* What verify() finds depends on one key, which is the published one.     *)
LEMMA PublishedIsVerified ==
  ASSUME NEW c \in Configs, NEW id
  PROVE  PublicKey(c, id) = Find(Ring(c) \o c.verifiers, id)
<1>1. c.signers \in Seq(KeyEntries) /\ c.verifiers \in Seq(KeyEntries)
  BY ConfigLists
<1>2. \A both : both = c.signers \o c.verifiers =>
        Find(both, id) = IF Find(c.signers, id) # None THEN Find(c.signers, id)
                                                       ELSE Find(c.verifiers, id)
  BY <1>1, FindInBoth, Zenon
<1> QED
  BY <1>2 DEF PublicKey, Ring

LEMMA SingletonFound ==
  ASSUME NEW id \in Ids, NEW key \in Keys
  PROVE  Find(<<[id |-> id, key |-> key]>>, id) = key
<1> DEFINE list == <<[id |-> id, key |-> key]>>
<1>1. list \in Seq(KeyEntries) /\ Len(list) = 1 /\ list[1].id = id /\ list[1].key = key
  BY DEF KeyEntries
<1> HIDE DEF list
<1>2. IsFirst(list, 1, id)
  BY <1>1 DEF IsFirst
<1>3. Find(list, id) = key
  BY <1>1, <1>2, FindsFirst
<1> QED
  BY <1>3 DEF list

LEMMA PublishedKeyAgrees == KeysTypeOK => PublishedKeyDecides
<1> SUFFICES ASSUME KeysTypeOK, NEW r \in Candidates
             PROVE  LET key == PublicKey(config, r.keyId)
                    IN  Reason(r, IF key = None THEN <<>> ELSE <<[id |-> r.keyId, key |-> key]>>)
                          = Verify(config, r)
  BY DEF PublishedKeyDecides
<1> DEFINE both == Ring(config) \o config.verifiers
           key == PublicKey(config, r.keyId)
           one == IF key = None THEN <<>> ELSE <<[id |-> r.keyId, key |-> key]>>
<1>1. config \in Configs /\ r.keyId \in Ids
  BY DEF KeysTypeOK, Candidates
<1>2. key = Find(both, r.keyId)
  BY <1>1, PublishedIsVerified
<1>3. both \in Seq(KeyEntries)
  BY <1>1, ConfigLists DEF Ring
<1> HIDE DEF both
<1>4. Find(one, r.keyId) = Find(both, r.keyId)
  <2>1. key = None \/ key \in Keys
    BY <1>2, <1>3, Finds
  <2>2. CASE key = None
    <3>1. one \in Seq(KeyEntries) /\ Len(one) = 0
      BY <2>2
    <3>2. Find(one, r.keyId) = None
      <4> HIDE DEF one
      <4>1. \A k \in 1..Len(one) : one[k].id # r.keyId
        BY <3>1
      <4> QED
        BY <3>1, <4>1, FindsNothing
    <3> QED
      BY <1>2, <2>2, <3>2
  <2>3. CASE key # None
    BY <1>1, <1>2, <2>1, <2>3, SingletonFound
  <2> QED
    BY <2>2, <2>3
<1> QED
  BY <1>4 DEF Reason, Verify, both

LEMMA AcceptedWasIssued == KeysTypeOK => AcceptedIsIssued
<1> SUFFICES ASSUME KeysTypeOK, NEW r \in Candidates, Verify(config, r) = "NONE"
             PROVE  issued[r.payload] # None
  BY DEF AcceptedIsIssued
<1> DEFINE key == Find(Ring(config) \o config.verifiers, r.keyId)
<1>1. key # None /\ r.signature = [key |-> key, text |-> r.payload]
  BY DEF Verify, Reason
<1>2. r.signature # [key |-> None, text |-> None]
  BY <1>1
<1>3. PICK p \in Payloads : issued[p] # None /\ r.signature = issued[p].signature
  BY <1>2 DEF Candidates, Receipts
<1>4. r.signature.text = p
  BY <1>3 DEF KeysTypeOK, Signed
<1> QED
  BY <1>1, <1>3, <1>4

(* Whichever keys a service is restarted with: the published key decides   *)
(* as the service does, what can be signed is published with its own key,  *)
(* and only what has been issued is accepted.                              *)
THEOREM KeysAlwaysAgree == KeysSpec => []KeysAgree
<1>1. KeysTypeOK => SignersArePublished
  BY DEF SignersArePublished, SignerFor, PublicKey
<1>2. KeysTypeOK => KeysAgree
  BY <1>1, PublishedKeyAgrees, AcceptedWasIssued DEF KeysAgree
<1> QED
  BY <1>2, KeysInitial, KeysStep, PTL DEF KeysSpec

(* A rotation that keeps every key and gives no ID to another one finds    *)
(* the same key again, wherever it has moved.                              *)
LEMMA RotationFinds ==
  ASSUME NEW c \in Configs, NEW d \in Configs, NEW id,
         Entries(c) \subseteq Entries(d),
         \A e, f \in Entries(d) : e.id = f.id => e = f,
         Find(Ring(c) \o c.verifiers, id) # None
  PROVE  Find(Ring(d) \o d.verifiers, id) = Find(Ring(c) \o c.verifiers, id)
<1> DEFINE old == Ring(c) \o c.verifiers
           new == Ring(d) \o d.verifiers
<1>1. old \in Seq(KeyEntries) /\ new \in Seq(KeyEntries)
  BY ConfigLists DEF Ring
<1>2. \A e : /\ e \in Entries(c) <=> \E k \in 1..Len(old) : old[k] = e
             /\ e \in Entries(d) <=> \E k \in 1..Len(new) : new[k] = e
  <2>1. /\ c.signers \in Seq(KeyEntries) /\ c.verifiers \in Seq(KeyEntries)
        /\ d.signers \in Seq(KeyEntries) /\ d.verifiers \in Seq(KeyEntries)
    BY ConfigLists
  <2>2. old = c.signers \o c.verifiers /\ new = d.signers \o d.verifiers
    BY DEF Ring
  <2> HIDE DEF old, new
  <2>3. \A both : both = c.signers \o c.verifiers =>
          \A e : e \in ToSet(c.signers) \union ToSet(c.verifiers)
                 <=> \E k \in 1..Len(both) : both[k] = e
    BY <2>1, EntriesOfBoth, Zenon
  <2>4. \A both : both = d.signers \o d.verifiers =>
          \A e : e \in ToSet(d.signers) \union ToSet(d.verifiers)
                 <=> \E k \in 1..Len(both) : both[k] = e
    BY <2>1, EntriesOfBoth, Zenon
  <2> QED
    BY <2>2, <2>3, <2>4 DEF Entries
<1> HIDE DEF old, new
<1>0. Find(old, id) # None
  BY DEF old
<1>3. PICK k \in 1..Len(old) : old[k].id = id /\ Find(old, id) = old[k].key
  BY <1>0, <1>1, Finds DEF IsFirst
<1>4. PICK j \in 1..Len(new) : new[j] = old[k]
  BY <1>2
<1>5. PICK m \in 1..Len(new) : new[m].id = id /\ Find(new, id) = new[m].key
  BY <1>1, <1>3, <1>4, Finds DEF IsFirst
<1>6. new[m] = new[j]
  BY <1>2, <1>3, <1>4, <1>5
<1> QED
  BY <1>3, <1>4, <1>5, <1>6 DEF old, new

(* A rotation keeps what can be verified, if every key stays in one of the *)
(* lists and no ID is given to another key.                                *)
THEOREM RotationAlwaysKeepsReceipts == KeysSpec => RotationKeepsReceipts
<1>1. ASSUME KeysTypeOK, KeysTypeOK', ProperRotation,
             NEW r \in Receipts, Verify(config, r) = "NONE"
      PROVE  Verify(config', r) = "NONE"
  <2>1. config \in Configs /\ config' \in Configs
    BY <1>1 DEF KeysTypeOK
  <2>2. Find(Ring(config) \o config.verifiers, r.keyId) # None
    BY <1>1 DEF Verify, Reason
  <2>3. Find(Ring(config') \o config'.verifiers, r.keyId)
          = Find(Ring(config) \o config.verifiers, r.keyId)
    BY <1>1, <2>1, <2>2, RotationFinds DEF ProperRotation
  <2> QED
    BY <1>1, <2>3 DEF Verify, Reason
<1>2. KeysTypeOK /\ KeysTypeOK' /\ [KeysNext]_keyVars
      => [ProperRotation =>
            \A r \in Receipts : Verify(config, r) = "NONE" => Verify(config', r) = "NONE"]_keyVars
  BY <1>1
<1> QED
  BY <1>2, KeysInitial, KeysStep, PTL DEF KeysSpec, RotationKeepsReceipts
-----------------------------------------------------------------------------
(* Provisioning: init creates the key files. *)

(* What init knows of the files while it runs its calls: the files it has  *)
(* created are as its calls have left them, and it has touched no other.   *)
InitProgress ==
  nextCall # 0 =>
    /\ nextCall \in 1..8 /\ cleaning = <<>> /\ initOutcome = "none"
    /\ IF nextCall = 1 THEN disk["public"] \in {"absent", "foreign"}
       ELSE IF nextCall = 2 THEN disk["public"] = "empty" ELSE disk["public"] = "whole"
    /\ IF nextCall <= 4 THEN disk["env"] \in {"absent", "foreign"}
       ELSE IF nextCall = 5 THEN disk["env"] = "empty" ELSE disk["env"] = "whole"
    /\ createdFiles = IF nextCall = 1 THEN {} ELSE IF nextCall <= 4 THEN {"public"} ELSE File

(* What is still to be removed was created by init. *)
CleaningIsOwn ==
  /\ cleaning \in {<<"env", "public">>, <<"public">>, <<>>}
  /\ cleaning # <<>> => initOutcome = "failed" /\ nextCall = 0
  /\ \A i \in DOMAIN cleaning : disk[cleaning[i]] \in {"empty", "partial", "whole"}

(* What is neither of somebody else nor absent has still to be removed. *)
FailureCleansUp ==
  initOutcome = "failed" /\ ~stuck =>
    \A f \in File : disk[f] \in {"absent", "foreign"} \/ \E i \in DOMAIN cleaning : cleaning[i] = f

SecretsInitIInv ==
  /\ disk \in [File -> {"absent", "foreign", "empty", "partial", "whole"}]
  /\ nextCall \in 0..8
  /\ InitProgress /\ CleaningIsOwn /\ FailureCleansUp
  /\ initOutcome = "done" => \A f \in File : disk[f] = "whole"

-----------------------------------------------------------------------------
LEMMA CallsOf ==
  /\ Len(Calls) = 8
  /\ \A n \in 1..8 :
       /\ Calls[n][1] = IF n \in {1, 4} THEN "open" ELSE IF n \in {2, 5} THEN "write"
                        ELSE IF n \in {3, 6} THEN "close" ELSE "chmod"
       /\ Calls[n][2] = IF n \in {1, 2, 3, 8} THEN "public" ELSE "env"
BY DEF Calls

LEMMA CleanOrder ==
  /\ ToClean({}) = <<>> /\ ToClean({"public"}) = <<"public">>
  /\ ToClean(File) = <<"env", "public">>
<1>1. ToClean({}) = <<>> \o <<>>
  BY DEF ToClean
<1>2. ToClean({"public"}) = <<>> \o <<"public">>
  BY DEF ToClean
<1>3. ToClean(File) = <<"env">> \o <<"public">>
  BY DEF ToClean, File
<1>4. <<>> \o <<>> = <<>>
  OBVIOUS
<1>5. <<>> \o <<"public">> = <<"public">>
  OBVIOUS
<1>6. <<"env">> \o <<"public">> = <<"env", "public">>
  <2> DEFINE both == <<"env">> \o <<"public">>
  <2>1. <<"env">> \in Seq(File) /\ <<"public">> \in Seq(File) /\ <<"env", "public">> \in Seq(File)
    BY DEF File
  <2>2. both \in Seq(File) /\ Len(both) = 2 /\ both[1] = "env" /\ both[2] = "public"
    BY <2>1, ConcatProperties
  <2> HIDE DEF both
  <2>3. both = <<"env", "public">>
    BY <2>1, <2>2, SeqEqual
  <2> QED
    BY <2>3 DEF both
<1> QED
  BY <1>1, <1>2, <1>3, <1>4, <1>5, <1>6

LEMMA SecretsInitInitial == SecretsInitInit => SecretsInitIInv
BY DEF SecretsInitInit, SecretsInitIInv, InitProgress, CleaningIsOwn, FailureCleansUp

LEMMA BeginStep ==
  ASSUME SecretsInitIInv, Begin
  PROVE  SecretsInitIInv'
<1>1. cleaning = <<>> /\ cleaning' = cleaning /\ disk' = disk /\ createdFiles' = {}
  BY DEF Begin, Busy
<1>2. CASE (\A f \in File : disk[f] = "absent") /\ nextCall' = 1 /\ initOutcome' = "none"
  BY <1>1, <1>2 DEF SecretsInitIInv, InitProgress, CleaningIsOwn, FailureCleansUp, File
<1>3. CASE nextCall' = 0 /\ initOutcome' = "refused"
  BY <1>1, <1>3 DEF SecretsInitIInv, InitProgress, CleaningIsOwn, FailureCleansUp
<1> QED
  BY <1>2, <1>3 DEF Begin

LEMMA SucceedStep ==
  ASSUME SecretsInitIInv, Succeed
  PROVE  SecretsInitIInv'
<1> DEFINE name == Calls[nextCall][1]
           f == Calls[nextCall][2]
<1>1. /\ nextCall \in 1..8 /\ Opens(name, f) /\ disk' = Effect(name, f)
      /\ createdFiles' = Marked(name, f) /\ UNCHANGED <<cleaning, stuck, faults>>
      /\ IF nextCall = 8 THEN nextCall' = 0 /\ initOutcome' = "done"
                         ELSE nextCall' = nextCall + 1 /\ UNCHANGED initOutcome
  BY CallsOf DEF Succeed, SecretsInitIInv
<1>2. /\ name = IF nextCall \in {1, 4} THEN "open" ELSE IF nextCall \in {2, 5} THEN "write"
                ELSE IF nextCall \in {3, 6} THEN "close" ELSE "chmod"
      /\ f = IF nextCall \in {1, 2, 3, 8} THEN "public" ELSE "env"
  BY <1>1, CallsOf
<1> HIDE DEF name, f
<1>3. CASE nextCall = 1
  <2>1. disk' = [disk EXCEPT !["public"] = "empty"] /\ createdFiles' = {"public"} /\ nextCall' = 2 /\ UNCHANGED <<cleaning, initOutcome>>
    BY <1>1, <1>2, <1>3 DEF Effect, Marked, SecretsInitIInv, InitProgress, File
  <2> QED
    BY <1>1, <1>3, <2>1 DEF SecretsInitIInv, InitProgress, CleaningIsOwn, FailureCleansUp, File
<1>4. CASE nextCall = 2
  <2>1. disk' = [disk EXCEPT !["public"] = "whole"] /\ createdFiles' = {"public"} /\ nextCall' = 3 /\ UNCHANGED <<cleaning, initOutcome>>
    BY <1>1, <1>2, <1>4 DEF Effect, Marked, SecretsInitIInv, InitProgress, File
  <2> QED
    BY <1>1, <1>4, <2>1 DEF SecretsInitIInv, InitProgress, CleaningIsOwn, FailureCleansUp, File
<1>5. CASE nextCall = 4
  <2>1. disk' = [disk EXCEPT !["env"] = "empty"] /\ createdFiles' = File /\ nextCall' = 5 /\ UNCHANGED <<cleaning, initOutcome>>
    BY <1>1, <1>2, <1>5 DEF Effect, Marked, SecretsInitIInv, InitProgress, File
  <2> QED
    BY <1>1, <1>5, <2>1 DEF SecretsInitIInv, InitProgress, CleaningIsOwn, FailureCleansUp, File
<1>6. CASE nextCall = 5
  <2>1. disk' = [disk EXCEPT !["env"] = "whole"] /\ createdFiles' = File /\ nextCall' = 6 /\ UNCHANGED <<cleaning, initOutcome>>
    BY <1>1, <1>2, <1>6 DEF Effect, Marked, SecretsInitIInv, InitProgress, File
  <2> QED
    BY <1>1, <1>6, <2>1 DEF SecretsInitIInv, InitProgress, CleaningIsOwn, FailureCleansUp, File
<1>7. CASE nextCall \in {3, 6, 7, 8}
  <2>1. disk' = disk /\ createdFiles' = createdFiles
    BY <1>1, <1>2, <1>7 DEF Effect, Marked
  <2> QED
    BY <1>1, <1>7, <2>1 DEF SecretsInitIInv, InitProgress, CleaningIsOwn, FailureCleansUp, File
<1> QED
  BY <1>1, <1>3, <1>4, <1>5, <1>6, <1>7

LEMMA FailStep ==
  ASSUME SecretsInitIInv, Fail
  PROVE  SecretsInitIInv'
<1> DEFINE f == Calls[nextCall][2]
<1>1. /\ nextCall \in 1..8 /\ nextCall' = 0 /\ initOutcome' = "failed"
      /\ cleaning' = ToClean(createdFiles) /\ UNCHANGED <<createdFiles, stuck>>
      /\ \/ disk' = disk
         \/ Calls[nextCall][1] = "write" /\ disk' = [disk EXCEPT ![f] = "partial"]
  BY DEF Fail, SecretsInitIInv
<1>2. /\ Calls[nextCall][1] = "write" => nextCall \in {2, 5}
      /\ f = IF nextCall \in {1, 2, 3, 8} THEN "public" ELSE "env"
  BY <1>1, CallsOf
<1> HIDE DEF f
<1>3. cleaning' = IF nextCall = 1 THEN <<>> ELSE IF nextCall <= 4 THEN <<"public">> ELSE <<"env", "public">>
  <2>1. createdFiles = IF nextCall = 1 THEN {} ELSE IF nextCall <= 4 THEN {"public"} ELSE File
    BY <1>1 DEF SecretsInitIInv, InitProgress
  <2>2. CASE nextCall = 1
    BY <1>1, <2>1, <2>2, CleanOrder
  <2>3. CASE nextCall # 1 /\ nextCall <= 4
    BY <1>1, <2>1, <2>3, CleanOrder
  <2>4. CASE nextCall # 1 /\ ~(nextCall <= 4)
    BY <1>1, <2>1, <2>4, CleanOrder
  <2> QED
    BY <2>2, <2>3, <2>4
<1>4. /\ disk' \in [File -> {"absent", "foreign", "empty", "partial", "whole"}]
      /\ IF nextCall = 1 THEN disk'["public"] \in {"absent", "foreign"}
                         ELSE disk'["public"] \in {"empty", "partial", "whole"}
      /\ IF nextCall <= 4 THEN disk'["env"] \in {"absent", "foreign"}
                          ELSE disk'["env"] \in {"empty", "partial", "whole"}
  BY <1>1, <1>2 DEF SecretsInitIInv, InitProgress, File
<1>5. CASE nextCall = 1
  BY <1>1, <1>3, <1>4, <1>5 DEF SecretsInitIInv, InitProgress, CleaningIsOwn, FailureCleansUp, File
<1>6. CASE nextCall \in 2..4
  BY <1>1, <1>3, <1>4, <1>6 DEF SecretsInitIInv, InitProgress, CleaningIsOwn, FailureCleansUp, File
<1>7. CASE nextCall \in 5..8
  BY <1>1, <1>3, <1>4, <1>7 DEF SecretsInitIInv, InitProgress, CleaningIsOwn, FailureCleansUp, File
<1> QED
  BY <1>1, <1>5, <1>6, <1>7

LEMMA CleanUpStep ==
  ASSUME SecretsInitIInv, CleanUp
  PROVE  SecretsInitIInv'
<1>1. /\ cleaning \in {<<"env", "public">>, <<"public">>} /\ nextCall = 0 /\ initOutcome = "failed"
      /\ UNCHANGED <<nextCall, createdFiles, initOutcome>> /\ cleaning' = Tail(cleaning)
  BY DEF CleanUp, SecretsInitIInv, CleaningIsOwn
<1>2. \/ disk' = [disk EXCEPT ![Head(cleaning)] = "absent"] /\ UNCHANGED <<stuck, faults>>
      \/ stuck' = TRUE /\ UNCHANGED disk
  BY DEF CleanUp
<1>3. CASE cleaning = <<"env", "public">>
  <2>1. cleaning' = <<"public">> /\ Head(cleaning) = "env"
    BY <1>1, <1>3
  <2> QED
    BY <1>1, <1>2, <1>3, <2>1 DEF SecretsInitIInv, InitProgress, CleaningIsOwn, FailureCleansUp, File
<1>4. CASE cleaning = <<"public">>
  <2>1. cleaning' = <<>> /\ Head(cleaning) = "public"
    BY <1>1, <1>4
  <2> QED
    BY <1>1, <1>2, <1>4, <2>1 DEF SecretsInitIInv, InitProgress, CleaningIsOwn, FailureCleansUp, File
<1> QED
  BY <1>1, <1>3, <1>4

LEMMA ForeignStep ==
  ASSUME SecretsInitIInv, Foreign
  PROVE  SecretsInitIInv'
<1>1. UNCHANGED <<nextCall, createdFiles, cleaning, initOutcome, stuck>>
  BY DEF Foreign
<1>2. PICK f \in File :
        \/ disk[f] = "absent" /\ disk' = [disk EXCEPT ![f] = "foreign"]
        \/ disk[f] # "absent" /\ ~Busy /\ initOutcome # "done" /\ disk' = [disk EXCEPT ![f] = "absent"]
  BY DEF Foreign
<1>3. CASE disk[f] = "absent" /\ disk' = [disk EXCEPT ![f] = "foreign"]
  BY <1>1, <1>3 DEF SecretsInitIInv, InitProgress, CleaningIsOwn, FailureCleansUp, File
<1>4. CASE disk[f] # "absent" /\ ~Busy /\ initOutcome # "done" /\ disk' = [disk EXCEPT ![f] = "absent"]
  BY <1>1, <1>4 DEF Busy, SecretsInitIInv, InitProgress, CleaningIsOwn, FailureCleansUp, File
<1> QED
  BY <1>2, <1>3, <1>4

LEMMA SecretsInitStep == SecretsInitIInv /\ [SecretsInitNext]_secretsInitVars => SecretsInitIInv'
<1> SUFFICES ASSUME SecretsInitIInv, [SecretsInitNext]_secretsInitVars
             PROVE  SecretsInitIInv'
  OBVIOUS
<1>1. CASE Killed
  BY <1>1 DEF Killed, SecretsInitIInv, InitProgress, CleaningIsOwn, FailureCleansUp
<1>2. CASE UNCHANGED secretsInitVars
  BY <1>2 DEF secretsInitVars, SecretsInitIInv, InitProgress, CleaningIsOwn, FailureCleansUp
<1> QED
  BY <1>1, <1>2, BeginStep, SucceedStep, FailStep, CleanUpStep, ForeignStep DEF SecretsInitNext

(* However calls fail, whenever init is killed and whatever others put in  *)
(* its way: a run that has ended has made both files, or has failed and    *)
(* left nothing of its own unless a removal failed too.                    *)
THEOREM InitIsAllOrNothing == SecretsInitSpec => []AllOrNothing
<1>1. SecretsInitIInv => AllOrNothing
  BY DEF SecretsInitIInv, FailureCleansUp, AllOrNothing, Busy
<1> QED
  BY <1>1, SecretsInitInitial, SecretsInitStep, PTL DEF SecretsInitSpec

(* A file that is not init's own is touched by somebody else only. *)
LEMMA ForeignKept ==
  SecretsInitIInv /\ [SecretsInitNext]_secretsInitVars =>
    [\A f \in File : disk[f] = "foreign" => disk'[f] = "foreign" \/ Foreign]_secretsInitVars
<1> SUFFICES ASSUME SecretsInitIInv, SecretsInitNext, ~Foreign,
                    NEW f \in File, disk[f] = "foreign"
             PROVE  disk'[f] = "foreign"
  OBVIOUS
<1>1. CASE Begin \/ Killed
  BY <1>1 DEF Begin, Killed
<1>2. CASE Succeed
  <2> DEFINE name == Calls[nextCall][1]
             g == Calls[nextCall][2]
  <2>1. nextCall \in 1..8 /\ Opens(name, g) /\ disk' = Effect(name, g)
    BY <1>2 DEF Succeed, SecretsInitIInv
  <2>2. /\ name = "open" => nextCall \in {1, 4}
        /\ name = "write" => nextCall \in {2, 5}
        /\ g = IF nextCall \in {1, 2, 3, 8} THEN "public" ELSE "env"
    BY <2>1, CallsOf
  <2> HIDE DEF name, g
  <2>3. name \in {"open", "write"} => g # f
    BY <2>1, <2>2 DEF Opens, SecretsInitIInv, InitProgress
  <2> QED
    BY <2>1, <2>3 DEF Effect, SecretsInitIInv
<1>3. CASE Fail
  <2> DEFINE name == Calls[nextCall][1]
             g == Calls[nextCall][2]
  <2>1. /\ nextCall \in 1..8
        /\ \/ disk' = disk
           \/ name = "write" /\ disk' = [disk EXCEPT ![g] = "partial"]
    BY <1>3 DEF Fail, SecretsInitIInv
  <2>2. /\ name = "write" => nextCall \in {2, 5}
        /\ g = IF nextCall \in {1, 2, 3, 8} THEN "public" ELSE "env"
    BY <2>1, CallsOf
  <2> HIDE DEF name, g
  <2>3. name = "write" => g # f
    BY <2>1, <2>2 DEF SecretsInitIInv, InitProgress
  <2> QED
    BY <2>1, <2>3 DEF SecretsInitIInv
<1>4. CASE CleanUp
  <2>1. disk' = disk \/ disk' = [disk EXCEPT ![Head(cleaning)] = "absent"]
    BY <1>4 DEF CleanUp
  <2>2. Head(cleaning) # f
    BY <1>4 DEF CleanUp, SecretsInitIInv, CleaningIsOwn
  <2> QED
    BY <2>1, <2>2 DEF SecretsInitIInv
<1> QED
  BY <1>1, <1>2, <1>3, <1>4 DEF SecretsInitNext

(* init neither overwrites nor removes a file of somebody else, even one   *)
(* that appears between its look at the disk and its own open().           *)
THEOREM ForeignFilesAreAlwaysKept == SecretsInitSpec => ForeignFilesAreKept
BY SecretsInitInitial, SecretsInitStep, ForeignKept, PTL DEF SecretsInitSpec, ForeignFilesAreKept

-----------------------------------------------------------------------------
(* Provisioning: an env file is published to the Environment. *)

Keyring == "RECEIPT_VERIFICATION_KEYS"
PrivateKey == "RECEIPT_PRIVATE_KEY"
Mode == "PAYMENT_MODE"

(* What a run of the script has behind it: everything before its position  *)
(* in the plan is published from its file, which it has found valid.       *)
PlanIsFollowed ==
  stage # "idle" =>
    /\ envFile \in EnvFiles /\ planPosition \in DOMAIN ApplyPlan(envFile) /\ applyOutcome = None
    /\ KeysValid(envFile) /\ PaymentValid(envFile) /\ KeepsOldKeys(envFile)
    /\ stage = "preflight" => planPosition = 1
    /\ \A i \in 1..planPosition - 1 : remote[ApplyPlan(envFile)[i]] = envFile

(* In free mode, what is stale is what is still published. *)
StaleIsPublished ==
  stage = "apply" =>
    staleNames = IF envFile.mode = "paid" THEN {} ELSE {n \in Credentials : remote[n] # None}

SecretsApplyIInv ==
  /\ remote \in [Names -> EnvFiles \cup {None}]
  /\ stage \in {"idle", "preflight", "apply"}
  /\ envFile \in EnvFiles \cup {None} /\ applyOutcome \in {None, "applied", "failed"}
  /\ failures \in 0..MaxFailures
  /\ PlanIsFollowed /\ StaleIsPublished
  /\ AppliedIsPublished /\ KeyringCoversPrivateKey

-----------------------------------------------------------------------------
LEMMA NameLists ==
  /\ CoreNames \in Seq(Names) /\ CredentialNames \in Seq(Names) /\ <<Mode>> \in Seq(Names)
  /\ Len(CoreNames) = 5 /\ Len(CredentialNames) = 4 /\ Len(<<Mode>>) = 1
  /\ CoreNames[1] = "BEARER_TOKEN" /\ CoreNames[2] = "RECEIPT_KEY_ID"
  /\ CoreNames[3] = Keyring /\ CoreNames[4] = PrivateKey /\ CoreNames[5] = "settings"
  /\ CredentialNames[1] = "OKX_API_KEY" /\ CredentialNames[2] = "OKX_SECRET_KEY"
  /\ CredentialNames[3] = "OKX_PASSPHRASE" /\ CredentialNames[4] = "PAY_TO_ADDRESS"
  /\ <<Mode>>[1] = Mode
<1>1. /\ Len(CoreNames) = 5 /\ Len(CredentialNames) = 4 /\ Len(<<Mode>>) = 1
      /\ CoreNames[1] = "BEARER_TOKEN" /\ CoreNames[2] = "RECEIPT_KEY_ID"
      /\ CoreNames[3] = Keyring /\ CoreNames[4] = PrivateKey /\ CoreNames[5] = "settings"
      /\ CredentialNames[1] = "OKX_API_KEY" /\ CredentialNames[2] = "OKX_SECRET_KEY"
      /\ CredentialNames[3] = "OKX_PASSPHRASE" /\ CredentialNames[4] = "PAY_TO_ADDRESS"
      /\ <<Mode>>[1] = Mode
  BY DEF CoreNames, CredentialNames, Keyring, PrivateKey
<1>2. DOMAIN CoreNames = 1..5
  BY DEF CoreNames
<1>3. /\ \A i \in 1..5 : CoreNames[i] \in Names
      /\ Credentials \subseteq Names /\ Mode \in Names
  BY <1>2 DEF Names, ToSet, Mode
<1>4. CoreNames \in Seq(Names)
  BY <1>1, <1>3 DEF CoreNames
<1>5. CredentialNames \in Seq(Names) /\ <<Mode>> \in Seq(Names)
  BY <1>3 DEF CredentialNames, Credentials
<1> QED
  BY <1>1, <1>4, <1>5

LEMMA KeyNames == Keyring \in Names /\ PrivateKey \in Names
<1>1. 3 \in DOMAIN CoreNames /\ 4 \in DOMAIN CoreNames
  BY NameLists
<1>2. CoreNames[3] = Keyring /\ CoreNames[4] = PrivateKey
  BY NameLists
<1> QED
  BY <1>1, <1>2 DEF Names, ToSet

(* The plan of a file, name by name. *)
LEMMA PlanOf ==
  ASSUME NEW f \in EnvFiles, NEW plan, plan = ApplyPlan(f)
  PROVE  /\ plan \in Seq(Names) /\ DOMAIN plan = 1..Len(plan)
         /\ Len(plan) = IF f.mode = "paid" THEN 10 ELSE 6
         /\ plan[1] = "BEARER_TOKEN" /\ plan[2] = "RECEIPT_KEY_ID" /\ plan[3] = Keyring
         /\ plan[4] = PrivateKey /\ plan[5] = "settings" /\ plan[Len(plan)] = Mode
         /\ f.mode = "paid" =>
              /\ plan[6] = "OKX_API_KEY" /\ plan[7] = "OKX_SECRET_KEY"
              /\ plan[8] = "OKX_PASSPHRASE" /\ plan[9] = "PAY_TO_ADDRESS"
<1> DEFINE credentials == IF f.mode = "paid" THEN CredentialNames ELSE <<>>
           first == CoreNames \o credentials
           mode == <<Mode>>
<1>1. /\ credentials \in Seq(Names)
      /\ f.mode = "paid" => credentials = CredentialNames /\ Len(credentials) = 4
      /\ f.mode # "paid" => Len(credentials) = 0
  BY NameLists
<1>2. plan = first \o mode
  BY DEF ApplyPlan, Mode
<1> HIDE DEF credentials
<1>3. /\ first \in Seq(Names) /\ Len(first) = 5 + Len(credentials)
      /\ \A i \in 1..5 + Len(credentials) : first[i] = IF i <= 5 THEN CoreNames[i] ELSE credentials[i - 5]
  <2>1. CoreNames \in Seq(Names) /\ Len(CoreNames) = 5
    BY NameLists
  <2>2. /\ first \in Seq(Names) /\ Len(first) = Len(CoreNames) + Len(credentials)
        /\ \A i \in 1..Len(CoreNames) + Len(credentials) :
             first[i] = IF i <= Len(CoreNames) THEN CoreNames[i] ELSE credentials[i - Len(CoreNames)]
    BY <1>1, <2>1, ConcatProperties
  <2> QED
    BY <2>1, <2>2
<1>4. mode \in Seq(Names) /\ Len(mode) = 1 /\ mode[1] = Mode
  BY NameLists
<1> HIDE DEF first, mode
<1>5. /\ plan \in Seq(Names) /\ Len(plan) = Len(first) + 1
      /\ \A i \in 1..Len(first) + 1 : plan[i] = IF i <= Len(first) THEN first[i] ELSE mode[i - Len(first)]
  <2>1. /\ first \o mode \in Seq(Names) /\ Len(first \o mode) = Len(first) + Len(mode)
        /\ \A i \in 1..Len(first) + Len(mode) :
             (first \o mode)[i] = IF i <= Len(first) THEN first[i] ELSE mode[i - Len(first)]
    BY <1>3, <1>4, ConcatProperties
  <2> QED
    BY <1>2, <1>4, <2>1
<1>6. CASE f.mode = "paid"
  <2>1. Len(first) = 9 /\ Len(plan) = 10
    <3>1. Len(credentials) = 4
      BY <1>1, <1>6
    <3>2. Len(first) = 9
      BY <1>3, <3>1
    <3> QED
      BY <1>5, <3>2
  <2>2. plan[10] = Mode /\ \A i \in 1..9 : plan[i] = first[i]
    BY <1>4, <1>5, <2>1
  <2>3. /\ \A i \in 1..5 : first[i] = CoreNames[i]
        /\ \A i \in 6..9 : first[i] = CredentialNames[i - 5]
    <3>1. credentials = CredentialNames /\ Len(credentials) = 4
      BY <1>1, <1>6
    <3> QED
      BY <1>3, <3>1
  <2> QED
    BY <1>5, <1>6, <2>1, <2>2, <2>3, NameLists
<1>7. CASE f.mode # "paid"
  <2>1. Len(first) = 5 /\ Len(plan) = 6
    BY <1>1, <1>3, <1>5, <1>7
  <2>2. plan[6] = Mode /\ \A i \in 1..5 : plan[i] = CoreNames[i]
    BY <1>1, <1>3, <1>4, <1>5, <1>7, <2>1
  <2> QED
    BY <1>5, <1>7, <2>1, <2>2, NameLists
<1> QED
  BY <1>6, <1>7

(* No name is in a plan twice; the mode is its last one; and the           *)
(* credentials are in the plans of paid mode only.                         *)
LEMMA PlanNames ==
  ASSUME NEW f \in EnvFiles, NEW plan, plan = ApplyPlan(f)
  PROVE  /\ \A i, j \in DOMAIN plan : plan[i] = plan[j] => i = j
         /\ \A i \in DOMAIN plan : plan[i] = Mode <=> i = Len(plan)
         /\ \A n \in Names : n \in ToSet(plan) <=> (n \in Credentials => f.mode = "paid")
         /\ f.mode # "paid" => \A i \in DOMAIN plan : plan[i] \notin Credentials
<1>1. CASE f.mode = "paid"
  <2>1. DOMAIN plan = 1..10 /\ Len(plan) = 10
    BY <1>1, PlanOf
  <2>2. \A i \in 1..10 :
          plan[i] = IF i = 1 THEN "BEARER_TOKEN" ELSE IF i = 2 THEN "RECEIPT_KEY_ID"
                    ELSE IF i = 3 THEN "RECEIPT_VERIFICATION_KEYS" ELSE IF i = 4 THEN "RECEIPT_PRIVATE_KEY"
                    ELSE IF i = 5 THEN "settings" ELSE IF i = 6 THEN "OKX_API_KEY"
                    ELSE IF i = 7 THEN "OKX_SECRET_KEY" ELSE IF i = 8 THEN "OKX_PASSPHRASE"
                    ELSE IF i = 9 THEN "PAY_TO_ADDRESS" ELSE "PAYMENT_MODE"
    BY <1>1, <2>1, PlanOf DEF Keyring, PrivateKey, Mode
  <2>3. \A n \in Names : \E i \in 1..10 : plan[i] = n
    <3>1. DOMAIN CoreNames = 1..5 /\ \A i \in 1..5 : CoreNames[i] = plan[i]
      BY <2>2, NameLists DEF Keyring, PrivateKey, CoreNames
    <3>2. \A n \in Credentials : \E i \in 6..9 : plan[i] = n
      BY <2>2 DEF Credentials
    <3> QED
      BY <2>2, <3>1, <3>2 DEF Names, ToSet
  <2>4. \A i, j \in 1..10 : plan[i] = plan[j] => i = j
    BY <2>2
  <2>5. \A i \in 1..10 : plan[i] = Mode <=> i = 10
    BY <2>2 DEF Mode
  <2> QED
    BY <1>1, <2>1, <2>3, <2>4, <2>5 DEF ToSet
<1>2. CASE f.mode # "paid"
  <2>1. DOMAIN plan = 1..6 /\ Len(plan) = 6
    BY <1>2, PlanOf
  <2>2. \A i \in 1..6 :
          plan[i] = IF i = 1 THEN "BEARER_TOKEN" ELSE IF i = 2 THEN "RECEIPT_KEY_ID"
                    ELSE IF i = 3 THEN "RECEIPT_VERIFICATION_KEYS" ELSE IF i = 4 THEN "RECEIPT_PRIVATE_KEY"
                    ELSE IF i = 5 THEN "settings" ELSE "PAYMENT_MODE"
    BY <1>2, <2>1, PlanOf DEF Keyring, PrivateKey, Mode
  <2>3. \A n \in Names \ Credentials : \E i \in 1..6 : plan[i] = n
    <3>1. DOMAIN CoreNames = 1..5 /\ \A i \in 1..5 : CoreNames[i] = plan[i]
      BY <2>2, NameLists DEF Keyring, PrivateKey, CoreNames
    <3> QED
      BY <2>2, <3>1 DEF Names, ToSet
  <2>4. \A i, j \in 1..6 : plan[i] = plan[j] => i = j
    BY <2>2
  <2>5. \A i \in 1..6 : (plan[i] = Mode <=> i = 6) /\ plan[i] \notin Credentials
    BY <2>2 DEF Mode, Credentials
  <2> QED
    BY <1>2, <2>1, <2>3, <2>4, <2>5 DEF ToSet
<1> QED
  BY <1>1, <1>2

-----------------------------------------------------------------------------
LEMMA SecretsApplyInitial == SecretsApplyInit => SecretsApplyIInv
<1> SUFFICES ASSUME SecretsApplyInit
             PROVE  SecretsApplyIInv
  OBVIOUS
<1>1. Keyring \in Names /\ PrivateKey \in Names
  BY KeyNames
<1>2. KeyringCoversPrivateKey
  BY <1>1 DEF SecretsApplyInit, KeyringCoversPrivateKey, PrivateKey
<1> QED
  BY <1>2, SecretsApplyAssumption
     DEF SecretsApplyInit, SecretsApplyIInv, PlanIsFollowed, StaleIsPublished, AppliedIsPublished

(* What a run knows while it applies its file. *)
LEMMA Applying ==
  ASSUME SecretsApplyIInv, stage # "idle", NEW plan, plan = ApplyPlan(envFile)
  PROVE  /\ envFile \in EnvFiles /\ envFile # None
         /\ DOMAIN plan = 1..Len(plan) /\ Len(plan) \in Nat /\ planPosition \in 1..Len(plan)
         /\ \A i \in 1..Len(plan) : plan[i] \in Names
         /\ CurrentName = plan[planPosition]
         /\ \A i \in 1..planPosition - 1 : remote[plan[i]] = envFile
<1>1. envFile \in EnvFiles /\ planPosition \in DOMAIN plan
  BY DEF SecretsApplyIInv, PlanIsFollowed
<1>2. plan \in Seq(Names) /\ DOMAIN plan = 1..Len(plan)
  BY <1>1, PlanOf
<1> QED
  BY <1>1, <1>2, SecretsApplyAssumption DEF SecretsApplyIInv, PlanIsFollowed, CurrentName

(* The command at the current position: what was published before stays,   *)
(* and the keyring is published before the private key.                    *)
LEMMA PublishKeeps ==
  ASSUME SecretsApplyIInv, stage = "apply", NEW plan, plan = ApplyPlan(envFile),
         remote' \in {remote, [remote EXCEPT ![CurrentName] = envFile]}
  PROVE  /\ remote' \in [Names -> EnvFiles \cup {None}]
         /\ \A i \in 1..planPosition - 1 : remote'[plan[i]] = envFile
         /\ remote'[Keyring] # None => remote'[Keyring].keyring \subseteq envFile.keyring
         /\ KeyringCoversPrivateKey'
<1> DEFINE here == planPosition
<1>1. /\ envFile \in EnvFiles /\ envFile # None
      /\ DOMAIN plan = 1..Len(plan) /\ Len(plan) \in Nat /\ here \in 1..Len(plan)
      /\ \A i \in 1..Len(plan) : plan[i] \in Names
      /\ CurrentName = plan[here]
      /\ \A i \in 1..here - 1 : remote[plan[i]] = envFile
  BY Applying
<1>2. /\ remote \in [Names -> EnvFiles \cup {None}]
      /\ remote[Keyring] # None => remote[Keyring].keyring \subseteq envFile.keyring
      /\ envFile.key \in envFile.keyring
      /\ remote[PrivateKey] # None => remote[Keyring] # None /\ remote[PrivateKey].key \in remote[Keyring].keyring
  BY DEF SecretsApplyIInv, PlanIsFollowed, KeepsOldKeys, KeysValid, KeyringCoversPrivateKey,
         Keyring, PrivateKey
<1>3. /\ Len(plan) >= 6 /\ plan[3] = Keyring /\ plan[4] = PrivateKey
      /\ \A i, j \in 1..Len(plan) : plan[i] = plan[j] => i = j
  <2>1. Len(plan) = (IF envFile.mode = "paid" THEN 10 ELSE 6) /\ plan[3] = Keyring /\ plan[4] = PrivateKey
    BY <1>1, PlanOf
  <2>2. \A i, j \in DOMAIN plan : plan[i] = plan[j] => i = j
    BY <1>1, PlanNames
  <2> QED
    BY <1>1, <2>1, <2>2
<1>4. Keyring \in Names /\ PrivateKey \in Names /\ Keyring # PrivateKey
  <2>1. Keyring \in Names /\ PrivateKey \in Names
    BY <1>1, <1>3
  <2> QED
    BY <2>1 DEF Keyring, PrivateKey
<1>5. /\ remote' \in [Names -> EnvFiles \cup {None}]
      /\ \A i \in 1..here - 1 : remote'[plan[i]] = envFile
  BY <1>1, <1>2
<1>6. \A n \in Names : remote'[n] = remote[n] \/ (remote'[n] = envFile /\ n = plan[here])
  BY <1>1, <1>2
<1>7. remote'[Keyring] # None => remote'[Keyring].keyring \subseteq envFile.keyring
  BY <1>2, <1>4, <1>6
<1>8. remote'[PrivateKey] # None =>
        remote'[Keyring] # None /\ remote'[PrivateKey].key \in remote'[Keyring].keyring
  <2>1. CASE remote'[PrivateKey] = remote[PrivateKey] /\ remote'[Keyring] = remote[Keyring]
    BY <1>2, <2>1
  <2>2. CASE remote'[PrivateKey] = remote[PrivateKey] /\ remote'[Keyring] = envFile
    BY <1>1, <1>2, <2>2
  <2>3. CASE remote'[PrivateKey] = envFile /\ PrivateKey = plan[here]
    <3>1. here = 4
      BY <1>1, <1>3, <2>3
    <3>2. remote'[Keyring] = envFile
      BY <1>3, <1>5, <3>1
    <3> QED
      BY <1>1, <1>2, <2>3, <3>2
  <2> QED
    BY <1>4, <1>6, <2>1, <2>2, <2>3
<1> QED
  BY <1>5, <1>7, <1>8 DEF KeyringCoversPrivateKey, Keyring, PrivateKey

LEMMA FailureEnds ==
  ASSUME SecretsApplyIInv, Failure, EndRun("failed"), UNCHANGED envFile,
         remote' \in [Names -> EnvFiles \cup {None}], KeyringCoversPrivateKey'
  PROVE  SecretsApplyIInv'
<1>1. failures' \in 0..MaxFailures
  BY SecretsApplyAssumption DEF Failure, SecretsApplyIInv
<1> QED
  BY <1>1 DEF EndRun, SecretsApplyIInv, PlanIsFollowed, StaleIsPublished, AppliedIsPublished

LEMMA LoadStep ==
  ASSUME SecretsApplyIInv, LoadConfiguration
  PROVE  SecretsApplyIInv'
<1>1. PICK f \in EnvFiles :
        /\ stage = "idle" /\ KeysValid(f) /\ PaymentValid(f) /\ KeepsOldKeys(f)
        /\ stage' = "preflight" /\ envFile' = f /\ planPosition' = 1 /\ applyOutcome' = None
        /\ UNCHANGED <<remote, staleNames, failures>>
  BY DEF LoadConfiguration
<1>2. 1 \in DOMAIN ApplyPlan(f)
  <2>1. DOMAIN ApplyPlan(f) = 1..Len(ApplyPlan(f)) /\ Len(ApplyPlan(f)) = IF f.mode = "paid" THEN 10 ELSE 6
    BY PlanOf
  <2> QED
    BY <2>1
<1>3. PlanIsFollowed'
  <2>1. (KeysValid(envFile) /\ PaymentValid(envFile) /\ KeepsOldKeys(envFile))'
    BY <1>1 DEF KeysValid, PaymentValid, KeepsOldKeys
  <2>2. ApplyPlan(envFile)' = ApplyPlan(f)
    BY <1>1 DEF ApplyPlan
  <2> QED
    BY <1>1, <1>2, <2>1, <2>2 DEF PlanIsFollowed
<1> QED
  BY <1>1, <1>3, SecretsApplyAssumption
     DEF SecretsApplyIInv, StaleIsPublished, AppliedIsPublished, KeyringCoversPrivateKey

LEMMA PreflightStep ==
  ASSUME SecretsApplyIInv, Preflight
  PROVE  SecretsApplyIInv'
<1>1. stage = "preflight" /\ UNCHANGED <<remote, envFile, planPosition>>
  BY DEF Preflight
<1>2. CASE Failure /\ EndRun("failed")
  BY <1>1, <1>2, FailureEnds DEF SecretsApplyIInv, KeyringCoversPrivateKey
<1>3. CASE /\ stage' = "apply" /\ staleNames' = Listed(envFile)
           /\ UNCHANGED <<applyOutcome, failures>>
  <2>1. ApplyPlan(envFile)' = ApplyPlan(envFile)
    BY <1>1 DEF ApplyPlan
  <2>2. PlanIsFollowed'
    BY <1>1, <1>3, <2>1 DEF SecretsApplyIInv, PlanIsFollowed, KeysValid, PaymentValid, KeepsOldKeys
  <2>3. StaleIsPublished'
    BY <1>1, <1>3 DEF StaleIsPublished, Listed
  <2>4. AppliedIsPublished'
    BY <1>1, <1>3, SecretsApplyAssumption DEF SecretsApplyIInv, PlanIsFollowed, AppliedIsPublished
  <2> QED
    BY <1>1, <1>3, <2>2, <2>3, <2>4 DEF SecretsApplyIInv, KeyringCoversPrivateKey
<1> QED
  BY <1>2, <1>3 DEF Preflight

LEMMA SetValueStep ==
  ASSUME SecretsApplyIInv, SetValue
  PROVE  SecretsApplyIInv'
<1> DEFINE plan == ApplyPlan(envFile)
<1>1. /\ stage = "apply" /\ planPosition < Len(plan) /\ Gh(CurrentName, envFile)
      /\ planPosition' = planPosition + 1 /\ UNCHANGED <<envFile, staleNames>>
  BY DEF SetValue
<1>2. remote' \in {remote, [remote EXCEPT ![CurrentName] = envFile]}
  BY <1>1 DEF Gh
<1>3. /\ remote' \in [Names -> EnvFiles \cup {None}]
      /\ \A i \in 1..planPosition - 1 : remote'[plan[i]] = envFile
      /\ remote'[Keyring] # None => remote'[Keyring].keyring \subseteq envFile.keyring
      /\ KeyringCoversPrivateKey'
  BY <1>1, <1>2, PublishKeeps
<1>4. CASE Failure /\ EndRun("failed")
  BY <1>1, <1>3, <1>4, FailureEnds
<1>5. CASE remote' = [remote EXCEPT ![CurrentName] = envFile] /\ UNCHANGED <<stage, applyOutcome, failures>>
  <2>1. /\ envFile \in EnvFiles /\ envFile # None
        /\ DOMAIN plan = 1..Len(plan) /\ Len(plan) \in Nat /\ planPosition \in 1..Len(plan)
        /\ \A i \in 1..Len(plan) : plan[i] \in Names
        /\ CurrentName = plan[planPosition]
    BY <1>1, Applying
  <2>2. ApplyPlan(envFile)' = plan
    BY <1>1 DEF ApplyPlan
  <2> HIDE DEF plan
  <2>3. planPosition' \in DOMAIN plan /\ planPosition' # 1
    BY <1>1, <2>1
  <2>4. \A i \in 1..planPosition' - 1 : remote'[plan[i]] = envFile
    <3> SUFFICES ASSUME NEW i \in 1..planPosition
                 PROVE  remote'[plan[i]] = envFile
      BY <1>1, <2>1
    <3>1. CASE i = planPosition
      BY <1>5, <2>1, <3>1 DEF SecretsApplyIInv
    <3>2. CASE i # planPosition
      BY <1>3, <2>1, <3>2
    <3> QED
      BY <3>1, <3>2
  <2>5. PlanIsFollowed'
    <3>1. (KeysValid(envFile) /\ PaymentValid(envFile) /\ KeepsOldKeys(envFile))'
      BY <1>1, <1>3 DEF SecretsApplyIInv, PlanIsFollowed, KeysValid, PaymentValid, KeepsOldKeys, Keyring
    <3>2. applyOutcome' = None
      BY <1>1, <1>5 DEF SecretsApplyIInv, PlanIsFollowed
    <3> QED
      BY <1>1, <1>5, <2>1, <2>2, <2>3, <2>4, <3>1, <3>2 DEF PlanIsFollowed
  <2>6. StaleIsPublished'
    <3>1. envFile.mode # "paid" => \A n \in Credentials : remote'[n] = remote[n]
      <4>1. envFile.mode # "paid" => CurrentName \notin Credentials
        BY <2>1, PlanNames DEF plan
      <4> QED
        BY <1>5, <4>1 DEF SecretsApplyIInv, Names
    <3>2. /\ stage' = stage /\ staleNames' = staleNames /\ envFile' = envFile
          /\ staleNames = IF envFile.mode = "paid" THEN {} ELSE {n \in Credentials : remote[n] # None}
      BY <1>1, <1>5 DEF SecretsApplyIInv, StaleIsPublished
    <3> QED
      BY <3>1, <3>2 DEF StaleIsPublished
  <2>7. AppliedIsPublished'
    BY <1>1, <1>5, SecretsApplyAssumption DEF SecretsApplyIInv, PlanIsFollowed, AppliedIsPublished
  <2> QED
    BY <1>1, <1>3, <1>5, <2>5, <2>6, <2>7 DEF SecretsApplyIInv
<1> QED
  BY <1>1, <1>4, <1>5 DEF Gh

LEMMA RemoveStaleStep ==
  ASSUME SecretsApplyIInv, RemoveStale
  PROVE  SecretsApplyIInv'
<1> DEFINE plan == ApplyPlan(envFile)
<1>1. stage = "apply" /\ UNCHANGED <<envFile, planPosition>>
  BY DEF RemoveStale
<1>2. PICK k \in DOMAIN CredentialNames :
        /\ CredentialNames[k] \in staleNames /\ Gh(CredentialNames[k], None)
        /\ staleNames' = staleNames \ {CredentialNames[k]}
  BY DEF RemoveStale
<1> DEFINE name == CredentialNames[k]
<1>3. /\ envFile.mode # "paid" /\ name \in Credentials
      /\ staleNames = {n \in Credentials : remote[n] # None}
  BY <1>1, <1>2 DEF SecretsApplyIInv, StaleIsPublished
<1>4. remote' \in {remote, [remote EXCEPT ![name] = None]}
  BY <1>2 DEF Gh
<1> HIDE DEF name
<1>5. /\ remote' \in [Names -> EnvFiles \cup {None}]
      /\ \A n \in Names \ Credentials : remote'[n] = remote[n]
  BY <1>3, <1>4 DEF SecretsApplyIInv
<1>6. Keyring \in Names \ Credentials /\ PrivateKey \in Names \ Credentials
  BY KeyNames DEF Keyring, PrivateKey, Credentials
<1>7. KeyringCoversPrivateKey'
  BY <1>5, <1>6 DEF SecretsApplyIInv, KeyringCoversPrivateKey, Keyring, PrivateKey
<1>8. CASE Failure /\ EndRun("failed")
  BY <1>1, <1>5, <1>7, <1>8, FailureEnds
<1>9. CASE remote' = [remote EXCEPT ![name] = None] /\ UNCHANGED <<stage, applyOutcome, failures>>
  <2>1. ApplyPlan(envFile)' = plan
    BY <1>1 DEF ApplyPlan
  <2>2. /\ envFile \in EnvFiles
        /\ DOMAIN plan = 1..Len(plan) /\ Len(plan) \in Nat /\ planPosition \in 1..Len(plan)
        /\ \A i \in 1..Len(plan) : plan[i] \in Names
        /\ \A i \in 1..planPosition - 1 : remote[plan[i]] = envFile
    BY <1>1, Applying
  <2>3. \A i \in 1..Len(plan) : plan[i] \notin Credentials
    BY <1>3, <2>2, PlanNames
  <2> HIDE DEF plan
  <2>4. \A i \in 1..planPosition - 1 : remote'[plan[i]] = envFile
    BY <1>5, <2>2, <2>3
  <2>5. PlanIsFollowed'
    <3>1. (KeysValid(envFile) /\ PaymentValid(envFile) /\ KeepsOldKeys(envFile))'
      BY <1>1, <1>5, <1>6 DEF SecretsApplyIInv, PlanIsFollowed, KeysValid, PaymentValid, KeepsOldKeys, Keyring
    <3>2. applyOutcome' = None
      BY <1>1, <1>9 DEF SecretsApplyIInv, PlanIsFollowed
    <3> QED
      BY <1>1, <1>9, <2>1, <2>2, <2>4, <3>1, <3>2 DEF PlanIsFollowed
  <2>6. StaleIsPublished'
    <3>1. \A n \in Credentials : remote'[n] # None <=> remote[n] # None /\ n # name
      BY <1>9 DEF SecretsApplyIInv, Names
    <3>2. staleNames' = {n \in Credentials : remote'[n] # None}
      BY <1>2, <1>3, <3>1 DEF name
    <3> QED
      BY <1>1, <1>3, <3>2 DEF StaleIsPublished
  <2>7. AppliedIsPublished'
    BY <1>1, <1>9, SecretsApplyAssumption DEF SecretsApplyIInv, PlanIsFollowed, AppliedIsPublished
  <2> QED
    BY <1>1, <1>5, <1>7, <1>9, <2>5, <2>6, <2>7 DEF SecretsApplyIInv
<1> QED
  BY <1>2, <1>8, <1>9 DEF Gh, name

LEMMA SetPaymentModeStep ==
  ASSUME SecretsApplyIInv, SetPaymentMode
  PROVE  SecretsApplyIInv'
<1> DEFINE plan == ApplyPlan(envFile)
<1>1. /\ stage = "apply" /\ CurrentName = Mode /\ staleNames = {}
      /\ UNCHANGED <<envFile, planPosition, staleNames>>
  BY DEF SetPaymentMode, Mode
<1>2. remote' \in {remote, [remote EXCEPT ![CurrentName] = envFile]}
  BY <1>1 DEF SetPaymentMode, Mode
<1>3. /\ remote' \in [Names -> EnvFiles \cup {None}]
      /\ \A i \in 1..planPosition - 1 : remote'[plan[i]] = envFile
      /\ KeyringCoversPrivateKey'
  BY <1>1, <1>2, PublishKeeps
<1>4. CASE Failure /\ EndRun("failed")
  BY <1>1, <1>3, <1>4, FailureEnds
<1>5. CASE remote' = [remote EXCEPT ![Mode] = envFile] /\ EndRun("applied") /\ UNCHANGED failures
  <2>1. /\ envFile \in EnvFiles
        /\ DOMAIN plan = 1..Len(plan) /\ Len(plan) \in Nat /\ planPosition \in 1..Len(plan)
        /\ CurrentName = plan[planPosition]
    BY <1>1, Applying
  <2>2. /\ planPosition = Len(plan)
        /\ \A n \in Names : n \in ToSet(plan) <=> (n \in Credentials => envFile.mode = "paid")
    BY <1>1, <2>1, PlanNames
  <2>3. ApplyPlan(envFile)' = plan
    BY <1>1 DEF ApplyPlan
  <2>4. ToSet(plan) = {plan[i] : i \in 1..Len(plan)}
    BY <2>1 DEF ToSet
  <2> HIDE DEF plan
  <2>5. ASSUME NEW n \in Names
        PROVE  remote'[n] = IF n \in ToSet(plan) THEN envFile ELSE None
    <3>1. CASE n = Mode
      <4>1. n \in ToSet(plan)
        BY <1>1, <2>1, <2>4, <3>1
      <4>2. remote'[n] = envFile
        BY <1>5, <3>1 DEF SecretsApplyIInv
      <4> QED
        BY <4>1, <4>2
    <3>2. CASE n # Mode /\ n \in ToSet(plan)
      <4>1. PICK i \in 1..Len(plan) : n = plan[i]
        BY <2>4, <3>2
      <4>2. i \in 1..planPosition - 1
        BY <1>1, <2>1, <2>2, <3>2, <4>1
      <4> QED
        BY <1>3, <3>2, <4>1, <4>2
    <3>3. CASE n # Mode /\ n \notin ToSet(plan)
      <4>1. n \in Credentials /\ envFile.mode # "paid"
        BY <2>2, <3>3
      <4>2. remote[n] = None
        BY <1>1, <4>1 DEF SecretsApplyIInv, StaleIsPublished
      <4>3. remote'[n] = remote[n]
        BY <1>5, <3>3 DEF SecretsApplyIInv
      <4> QED
        BY <3>3, <4>2, <4>3
    <3> QED
      BY <3>1, <3>2, <3>3
  <2>6. AppliedIsPublished'
    BY <1>1, <2>3, <2>5 DEF AppliedIsPublished, Names
  <2> QED
    BY <1>1, <1>3, <1>5, <2>6 DEF EndRun, SecretsApplyIInv, PlanIsFollowed, StaleIsPublished
<1> QED
  BY <1>4, <1>5 DEF SetPaymentMode, Mode

LEMMA SecretsApplyStep == SecretsApplyIInv /\ [SecretsApplyNext]_secretsApplyVars => SecretsApplyIInv'
<1> SUFFICES ASSUME SecretsApplyIInv, [SecretsApplyNext]_secretsApplyVars
             PROVE  SecretsApplyIInv'
  OBVIOUS
<1>1. CASE UNCHANGED secretsApplyVars
  BY <1>1 DEF secretsApplyVars, SecretsApplyIInv, PlanIsFollowed, StaleIsPublished,
              AppliedIsPublished, KeyringCoversPrivateKey, KeysValid, PaymentValid, KeepsOldKeys
<1> QED
  BY <1>1, LoadStep, PreflightStep, SetValueStep, RemoveStaleStep, SetPaymentModeStep
     DEF SecretsApplyNext

(* Whichever gh commands fail, with or without their effect, and whichever *)
(* files are applied in whatever order: an apply that reports success has  *)
(* published its file and nothing else.                                    *)
THEOREM AppliedIsAlwaysPublished == SecretsApplySpec => []AppliedIsPublished
<1>1. SecretsApplyIInv => AppliedIsPublished
  BY DEF SecretsApplyIInv
<1> QED
  BY <1>1, SecretsApplyInitial, SecretsApplyStep, PTL DEF SecretsApplySpec

(* At every moment of every apply, what is published lets a starting API   *)
(* find the public key of its private key.                                 *)
THEOREM KeyringAlwaysCoversPrivateKey == SecretsApplySpec => []KeyringCoversPrivateKey
<1>1. SecretsApplyIInv => KeyringCoversPrivateKey
  BY DEF SecretsApplyIInv
<1> QED
  BY <1>1, SecretsApplyInitial, SecretsApplyStep, PTL DEF SecretsApplySpec

LEMMA PaidStep ==
  SecretsApplyIInv /\ [SecretsApplyNext]_secretsApplyVars =>
    [Paid(remote'["PAYMENT_MODE"]) /\ ~Paid(remote["PAYMENT_MODE"])
       => \A n \in Credentials : remote[n] = remote'["PAYMENT_MODE"]
                                 /\ n \in remote[n].credentials]_secretsApplyVars
<1> SUFFICES ASSUME SecretsApplyIInv, SecretsApplyNext, Paid(remote'[Mode]), ~Paid(remote[Mode])
             PROVE  \A n \in Credentials : remote[n] = remote'[Mode] /\ n \in remote[n].credentials
  BY DEF Mode
<1> DEFINE plan == ApplyPlan(envFile)
<1>1. remote'[Mode] # remote[Mode] /\ Mode \in Names
  BY DEF Mode, Names
<1>2. ASSUME stage = "apply", remote' \in {remote, [remote EXCEPT ![CurrentName] = envFile]}
      PROVE  \A n \in Credentials : remote[n] = remote'[Mode] /\ n \in remote[n].credentials
  <2>1. /\ envFile \in EnvFiles /\ planPosition \in 1..Len(plan) /\ Len(plan) \in Nat
        /\ CurrentName = plan[planPosition] /\ DOMAIN plan = 1..Len(plan)
        /\ \A i \in 1..planPosition - 1 : remote[plan[i]] = envFile
    BY <1>2, Applying
  <2>2. CurrentName = Mode /\ remote'[Mode] = envFile
    BY <1>1, <1>2 DEF SecretsApplyIInv
  <2>3. planPosition = Len(plan)
    BY <2>1, <2>2, PlanNames
  <2>4. envFile.mode = "paid"
    BY <2>2 DEF Paid
  <2>5. envFile.credentials = Credentials
    BY <1>2, <2>4 DEF SecretsApplyIInv, PlanIsFollowed, PaymentValid
  <2>6. Len(plan) = 10 /\ plan[6] = "OKX_API_KEY" /\ plan[7] = "OKX_SECRET_KEY"
        /\ plan[8] = "OKX_PASSPHRASE" /\ plan[9] = "PAY_TO_ADDRESS"
    BY <2>1, <2>4, PlanOf
  <2> HIDE DEF plan
  <2>7. \A n \in Credentials : remote[n] = envFile
    BY <2>1, <2>3, <2>6 DEF Credentials
  <2> QED
    BY <2>2, <2>5, <2>7
<1>3. CASE LoadConfiguration \/ Preflight
  BY <1>1, <1>3 DEF LoadConfiguration, Preflight
<1>4. CASE RemoveStale
  <2>1. PICK k \in DOMAIN CredentialNames : remote' \in {remote, [remote EXCEPT ![CredentialNames[k]] = None]}
    BY <1>4 DEF RemoveStale, Gh
  <2>2. remote'[Mode] \in {remote[Mode], None}
    BY <1>1, <2>1 DEF SecretsApplyIInv
  <2> QED
    BY <1>1, <2>2 DEF Paid
<1>5. CASE SetValue
  BY <1>2, <1>5 DEF SetValue, Gh
<1>6. CASE SetPaymentMode
  BY <1>2, <1>6 DEF SetPaymentMode
<1> QED
  BY <1>3, <1>4, <1>5, <1>6 DEF SecretsApplyNext

(* The step that makes callers pay finds all the credentials of its own    *)
(* file published, whatever mixture earlier failures had left.             *)
THEOREM PaidIsAlwaysActivatedLast == SecretsApplySpec => PaidIsActivatedLast
BY SecretsApplyInitial, SecretsApplyStep, PaidStep, PTL DEF SecretsApplySpec, PaidIsActivatedLast

(* Provisioning and publishing are coherent for any env files and any      *)
(* number of failures, interruptions and repetitions.                      *)
THEOREM ProvisioningAlwaysCoherent ==
  SecretsInitSpec /\ SecretsApplySpec => []ProvisioningIsCoherent
<1>1. AllOrNothing /\ AppliedIsPublished /\ KeyringCoversPrivateKey => ProvisioningIsCoherent
  BY DEF ProvisioningIsCoherent
<1> QED
  BY <1>1, InitIsAllOrNothing, AppliedIsAlwaysPublished, KeyringAlwaysCoversPrivateKey, PTL

(* Neither the stores nor a rotation nor provisioning takes back what      *)
(* somebody relies on.                                                     *)
THEOREM StepsAlwaysKeepPromises ==
  ReceiptStoreSpec /\ KeysSpec /\ SecretsInitSpec /\ SecretsApplySpec => StepsKeepPromises
BY ReceiptsStayFinal, RotationAlwaysKeepsReceipts, ForeignFilesAreAlwaysKept, PaidIsAlwaysActivatedLast
   DEF StepsKeepPromises

-----------------------------------------------------------------------------
(* The evaluation.  The schemas of report and coverage are the hypotheses  *)
(* the decision can rely on: the type and the validity of the report are   *)
(* inductive together.                                                     *)
AcceptanceIInv == AcceptanceTypeOK /\ ReportIsValid

LEMMA AcceptanceInitial == AcceptanceInit => AcceptanceIInv
BY DEF AcceptanceInit, AcceptanceIInv, AcceptanceTypeOK, ReportIsValid

LEMMA AcceptanceStep == AcceptanceIInv /\ [AcceptanceNext]_acceptanceVars => AcceptanceIInv'
<1> SUFFICES ASSUME AcceptanceIInv, [AcceptanceNext]_acceptanceVars
             PROVE  AcceptanceIInv'
  OBVIOUS
<1> USE DEF AcceptanceIInv, AcceptanceTypeOK, ReportIsValid
<1>1. ASSUME NEW v \in PublicVerdict, NEW p \in Reports, Complete(v, p)
      PROVE  AcceptanceIInv'
  BY <1>1, AcceptanceAssumption, ReportAssumption DEF Complete
<1>2. CASE SystemError
  BY <1>2 DEF SystemError, PublicVerdict
<1>3. CASE UNCHANGED acceptanceVars
  BY <1>3 DEF acceptanceVars
<1>4. QED
  BY <1>1, <1>2, <1>3 DEF AcceptanceNext

(* Contract, verdict and report always have the shapes of theirs, and a    *)
(* report that exists has passed VerificationReportSchema.                 *)
THEOREM AcceptanceInvariant == AcceptanceSpec => []AcceptanceIInv
<1>1. AcceptanceInit => AcceptanceIInv
  BY AcceptanceInitial
<1>2. AcceptanceIInv /\ [AcceptanceNext]_acceptanceVars => AcceptanceIInv'
  BY AcceptanceStep
<1>3. QED
  BY <1>1, <1>2, PTL DEF AcceptanceSpec

(* The columns hold values of their types.                                 *)
THEOREM AcceptanceTypeCorrect == AcceptanceSpec => []AcceptanceTypeOK
<1>1. AcceptanceIInv => AcceptanceTypeOK
  BY DEF AcceptanceIInv
<1>2. QED
  BY <1>1, AcceptanceInvariant, PTL

LEMMA ContractKinds ==
  ASSUME NEW c \in Contracts
  PROVE  /\ DOMAIN c \subseteq Criterion \cup Prohibition
         /\ \A kind \in DOMAIN c : c[kind] \in BOOLEAN
         /\ \A kind \in DOMAIN c \cap Prohibition : c[kind]
BY DEF Contracts

LEMMA KindsAreApart == Criterion \cap Prohibition = {}
BY DEF Criterion, Prohibition

LEMMA ControlIsNamed ==
  ASSUME NEW kind \in Prohibition PROVE Control[kind] \in Controls
BY DEF Controls

(* Reading a response never fails over its coverage.                       *)
THEOREM CoverageAlwaysValid == AcceptanceSpec => []CoverageIsValid
<1>1. AcceptanceIInv => CoverageIsValid
  <2> SUFFICES ASSUME AcceptanceIInv, NEW kind \in DOMAIN runContract
               PROVE  CriterionCoverageSchema(kind, Coverage(kind))
    BY DEF CoverageIsValid
  <2>1. kind \in Criterion \cup Prohibition
    BY ContractKinds DEF AcceptanceIInv, AcceptanceTypeOK
  <2>2. runReport = None \/ runReport \in Reports
    BY DEF AcceptanceIInv, AcceptanceTypeOK
  <2>3. CASE kind \in Criterion
    <3>1. Coverage(kind) = CriterionCoverage(kind)
      BY <2>3 DEF Coverage
    <3> DEFINE id == IF kind = "build" THEN "build" ELSE "test"
    <3>2. runReport # None => runReport.checks[id] \in Outcome \cup {None}
      BY <2>2 DEF Reports, CheckId
    <3>3. QED
      BY <3>1, <3>2, <2>3, AcceptanceAssumption
         DEF CriterionCoverage, CriterionCoverageSchema, Unverified, Proved,
             UnverifiedReason
  <2>4. CASE kind \in Prohibition
    <3>1. Coverage(kind) = ProhibitionCoverage(kind)
      BY <2>4, KindsAreApart DEF Coverage
    <3>2. runReport # None =>
            runReport.controls[Control[kind]] \in {"ENFORCED", "VIOLATED", None}
      BY <2>2, <2>4, ControlIsNamed DEF Reports
    <3>3. QED
      BY <3>1, <3>2, <2>4, AcceptanceAssumption
         DEF ProhibitionCoverage, CriterionCoverageSchema, Unverified, Proved,
             UnverifiedReason
  <2>5. QED
    BY <2>1, <2>3, <2>4
<1>2. QED
  BY <1>1, AcceptanceInvariant, PTL

LEMMA ExecutedCriterion ==
  ASSUME NEW kind \in Criterion, Coverage(kind).status = "EXECUTED"
  PROVE  LET id == IF kind = "build" THEN "build" ELSE "test"
         IN  /\ runReport # None
             /\ runReport.checks[id] # None /\ runReport.checks[id] # "SKIPPED"
BY DEF Coverage, CriterionCoverage, Unverified, Proved

LEMMA ExecutedProhibition ==
  ASSUME NEW kind \in Prohibition, Coverage(kind).status = "EXECUTED"
  PROVE  runReport # None /\ runReport.controls[Control[kind]] = "ENFORCED"
BY KindsAreApart DEF Coverage, ProhibitionCoverage, Unverified, Proved

LEMMA Accepting ==
  ASSUME NEW c, Decision(c) = "ACCEPT"
  PROVE  /\ runVerdict \notin {"FAIL", "INCONCLUSIVE"}
         /\ ~ProhibitedConditionObserved(c) /\ ~Incomplete(c)
BY DEF Decision

(* ACCEPT is never given for less than it says.                            *)
THEOREM AcceptedAlwaysVerified == AcceptanceSpec => []AcceptedIsVerified
<1>1. AcceptanceIInv => AcceptedIsVerified
  <2> SUFFICES ASSUME AcceptanceIInv, runVerdict # None,
                      Decision(runContract) = "ACCEPT"
               PROVE  /\ runVerdict = "PASS"
                      /\ \A kind \in DOMAIN runContract \cap Criterion :
                           runContract[kind] =>
                             runReport.checks[IF kind = "build" THEN "build"
                                           ELSE "test"] = "PASSED"
                      /\ \A kind \in DOMAIN runContract \cap Prohibition :
                           runReport.controls[Control[kind]] = "ENFORCED"
    BY DEF AcceptedIsVerified
  <2>1. runVerdict = "PASS"
    BY Accepting DEF AcceptanceIInv, AcceptanceTypeOK, PublicVerdict
  <2>2. ASSUME NEW kind \in DOMAIN runContract \cap Criterion, runContract[kind]
        PROVE  runReport.checks[IF kind = "build" THEN "build" ELSE "test"]
                 = "PASSED"
    <3> DEFINE id == IF kind = "build" THEN "build" ELSE "test"
    <3>1. Coverage(kind).status = "EXECUTED"
      BY <2>2, Accepting DEF Incomplete
    <3>2. /\ runReport # None
          /\ runReport.checks[id] # None /\ runReport.checks[id] # "SKIPPED"
      BY <3>1, ExecutedCriterion
    <3>3. VerificationReportSchema("PASS", runReport)
      BY <2>1, <3>2 DEF AcceptanceIInv, ReportIsValid
    <3>4. id \in CheckId
      BY DEF CheckId
    <3>5. runReport.checks[id] \in {"PASSED", "SKIPPED"}
      BY <3>2, <3>3, <3>4 DEF VerificationReportSchema
    <3>6. QED
      BY <3>2, <3>5
  <2>3. ASSUME NEW kind \in DOMAIN runContract \cap Prohibition
        PROVE  runReport.controls[Control[kind]] = "ENFORCED"
    <3>1. runContract[kind]
      BY <2>3, ContractKinds DEF AcceptanceIInv, AcceptanceTypeOK
    <3>2. Coverage(kind).status = "EXECUTED"
      BY <2>3, <3>1, Accepting DEF Incomplete
    <3>3. QED
      BY <3>2, ExecutedProhibition
  <2>4. QED
    BY <2>1, <2>2, <2>3
<1>2. QED
  BY <1>1, AcceptanceInvariant, PTL

LEMMA ObservedProhibition ==
  ASSUME NEW kind \in Prohibition,
         runReport \in Reports \cup {None}
  PROVE  Coverage(kind).status = "OBSERVED"
           <=> runReport # None /\ runReport.controls[Control[kind]] = "VIOLATED"
<1>1. Coverage(kind) = ProhibitionCoverage(kind)
  BY KindsAreApart DEF Coverage
<1>2. runReport # None =>
        runReport.controls[Control[kind]] \in {"ENFORCED", "VIOLATED", None}
  BY ControlIsNamed DEF Reports
<1>3. QED
  BY <1>1, <1>2, AcceptanceAssumption DEF ProhibitionCoverage, Unverified, Proved

(* REMEDIATE is returned exactly for a failure or an observed violation.   *)
THEOREM RemediationAlwaysGrounded == AcceptanceSpec => []RemediationIsGrounded
<1>1. AcceptanceIInv => RemediationIsGrounded
  <2> SUFFICES ASSUME AcceptanceIInv, runVerdict # None
               PROVE  Decision(runContract) = "REMEDIATE"
                 <=> \/ runVerdict = "FAIL"
                     \/ /\ runReport # None
                        /\ \E kind \in DOMAIN runContract \cap Prohibition :
                             runReport.controls[Control[kind]] = "VIOLATED"
    BY DEF RemediationIsGrounded
  <2>1. runReport \in Reports \cup {None}
    BY DEF AcceptanceIInv, AcceptanceTypeOK
  <2>2. ProhibitedConditionObserved(runContract)
          <=> /\ runReport # None
              /\ \E kind \in DOMAIN runContract \cap Prohibition :
                   runReport.controls[Control[kind]] = "VIOLATED"
    BY <2>1, ObservedProhibition DEF ProhibitedConditionObserved
  <2>3. QED
    BY <2>2 DEF Decision
<1>2. QED
  BY <1>1, AcceptanceInvariant, PTL

(* Asking for more never gets a run accepted.                              *)
THEOREM StricterNeverKinder == AcceptanceSpec => []StricterIsNeverKinder
<1>1. AcceptanceIInv => StricterIsNeverKinder
  <2> SUFFICES ASSUME AcceptanceIInv, NEW c \in Contracts,
                      Stricter(c, runContract), Decision(c) = "ACCEPT"
               PROVE  Decision(runContract) = "ACCEPT"
    BY DEF StricterIsNeverKinder
  <2>1. ~ProhibitedConditionObserved(c) /\ ~Incomplete(c)
    BY Accepting
  <2>2. ~ProhibitedConditionObserved(runContract)
    BY <2>1 DEF ProhibitedConditionObserved, Stricter
  <2>3. ~Incomplete(runContract)
    BY <2>1 DEF Incomplete, Stricter
  <2>4. QED
    BY <2>2, <2>3, Accepting DEF Decision
<1>2. QED
  BY <1>1, AcceptanceInvariant, PTL

(* Evaluations are sound for every contract, verdict and report. *)
THEOREM AcceptanceAlwaysSound == AcceptanceSpec => []AcceptanceIsSound
<1>1. CoverageIsValid /\ AcceptedIsVerified /\ RemediationIsGrounded /\ StricterIsNeverKinder => AcceptanceIsSound
  BY DEF AcceptanceIsSound
<1> QED
  BY <1>1, CoverageAlwaysValid, AcceptedAlwaysVerified, RemediationAlwaysGrounded, StricterNeverKinder, PTL

-----------------------------------------------------------------------------
(* What a bundle has under a path that only one of its entries has. *)
LEMMA FoundData ==
  ASSUME NEW entries, DOMAIN entries \subseteq Nat, NEW path, Has(entries, path)
  PROVE  \E k \in DOMAIN entries : entries[k].path = path /\ DataOf(entries, path) = entries[k].data
<1> DEFINE at == {k \in DOMAIN entries : entries[k].path = path}
<1>1. at # {} /\ at \in SUBSET Nat
  BY DEF Has
<1>2. Min(at) \in at
  BY <1>1, FirstMatch
<1> QED
  BY <1>2 DEF DataOf

LEMMA OnlyData ==
  ASSUME NEW entries, DOMAIN entries \subseteq Nat, NEW k \in DOMAIN entries,
         \A j \in DOMAIN entries : entries[j].path = entries[k].path => j = k
  PROVE  DataOf(entries, entries[k].path) = entries[k].data
<1>1. Has(entries, entries[k].path)
  BY DEF Has
<1> QED
  BY <1>1, FoundData

(* The entries of a bundle: its files, and three about them. *)
BundlePaths ==
  {"receipt.json", "report.json", "verification-contract.json", "logs/raw.ndjson",
   "bundle-manifest.json", "bundle-manifest.sig", "checksums.txt"}

FilesOK(files) ==
  \A j, k \in DOMAIN files :
    /\ files[k].path \notin ToSet(Metadata)
    /\ files[j].path = files[k].path => j = k

LEMMA MetadataPaths ==
  /\ ToSet(Metadata) = {"bundle-manifest.json", "bundle-manifest.sig", "checksums.txt"}
  /\ Metadata \in Seq(BundlePaths) /\ Len(Metadata) = 3
  /\ Metadata[1] = "bundle-manifest.json" /\ Metadata[2] = "bundle-manifest.sig"
  /\ Metadata[3] = "checksums.txt"
<1>1. /\ Metadata \in Seq(BundlePaths) /\ Len(Metadata) = 3
      /\ Metadata[1] = "bundle-manifest.json" /\ Metadata[2] = "bundle-manifest.sig"
      /\ Metadata[3] = "checksums.txt"
  <2>1. Metadata \in Seq(BundlePaths)
    BY DEF Metadata, BundlePaths
  <2>2. Len(Metadata) = 3
    BY DEF Metadata
  <2>3. Metadata[1] = "bundle-manifest.json"
    BY DEF Metadata
  <2>4. Metadata[2] = "bundle-manifest.sig"
    BY DEF Metadata
  <2>5. Metadata[3] = "checksums.txt"
    BY DEF Metadata
  <2> QED
    BY <2>1, <2>2, <2>3, <2>4, <2>5
<1>2. DOMAIN Metadata = 1..3
  BY <1>1
<1>3. \A k \in 1..3 : k = 1 \/ k = 2 \/ k = 3
  OBVIOUS
<1>4. 1 \in 1..3 /\ 2 \in 1..3 /\ 3 \in 1..3
  OBVIOUS
<1>5. ToSet(Metadata) = {"bundle-manifest.json", "bundle-manifest.sig", "checksums.txt"}
  <2>1. ToSet(Metadata) = {Metadata[k] : k \in 1..3}
    BY <1>2 DEF ToSet
  <2> HIDE DEF Metadata
  <2> QED
    BY <1>1, <1>3, <1>4, <2>1
<1> QED
  BY <1>1, <1>5

(* Three elements behind a list. *)
Followed(both, n, q, m) ==
  /\ n \in Nat /\ Len(both) = n + 3 /\ DOMAIN both = 1..n + 3
  /\ \A k \in 1..n : both[k] = q[k]
  /\ both[n + 1] = m[1] /\ both[n + 2] = m[2] /\ both[n + 3] = m[3]

LEMMA ThreeBehind ==
  ASSUME NEW V, NEW q \in Seq(V), NEW m \in Seq(V), Len(m) = 3,
         NEW both, both = q \o m, NEW n, n = Len(q)
  PROVE  both \in Seq(V) /\ Followed(both, n, q, m)
<1>0. /\ q \o m \in Seq(V) /\ Len(q \o m) = Len(q) + Len(m)
      /\ \A k \in 1..Len(q) + Len(m) : (q \o m)[k] = IF k <= Len(q) THEN q[k] ELSE m[k - Len(q)]
  BY ConcatProperties, Zenon
<1>1. n \in Nat /\ both \in Seq(V) /\ Len(both) = n + 3
  BY <1>0
<1>2. \A k \in 1..n + 3 : both[k] = IF k <= n THEN q[k] ELSE m[k - n]
  BY <1>0
<1>3. \A j \in 1..3 : both[n + j] = m[j]
  <2> SUFFICES ASSUME NEW j \in 1..3 PROVE both[n + j] = m[j]
    OBVIOUS
  <2>1. PICK k \in 1..n + 3 : k = n + j
    BY <1>1
  <2>2. ~(k <= n) /\ k - n = j
    BY <1>1, <2>1
  <2>3. both[k] = m[k - n]
    BY <1>2, <2>2
  <2> QED
    BY <2>1, <2>2, <2>3
<1>4. both[n + 1] = m[1] /\ both[n + 2] = m[2] /\ both[n + 3] = m[3]
  <2>1. 1 \in 1..3 /\ 2 \in 1..3 /\ 3 \in 1..3
    OBVIOUS
  <2> QED
    BY <1>3, <2>1, Zenon
<1>5. \A k \in 1..n : k \in 1..n + 3 /\ k <= n
  BY <1>1
<1>6. \A k \in 1..n : both[k] = q[k]
  BY <1>2, <1>5
<1>7. DOMAIN both = 1..n + 3
  BY <1>1
<1> QED
  BY <1>1, <1>4, <1>6, <1>7 DEF Followed

LEMMA AnyOfThem ==
  ASSUME NEW n \in Nat
  PROVE  /\ \A k \in 1..n + 3 : k \in 1..n \/ k = n + 1 \/ k = n + 2 \/ k = n + 3
         /\ \A k \in 1..n : k \in 1..n + 3
         /\ n + 1 \in 1..n + 3 /\ n + 2 \in 1..n + 3 /\ n + 3 \in 1..n + 3
OBVIOUS

ArePaths(paths, n, files) ==
  /\ n \in Nat /\ DOMAIN files = 1..n /\ DOMAIN paths = 1..n /\ Len(paths) = n
  /\ \A k \in 1..n : paths[k] = files[k].path
  /\ \E V : paths \in Seq(V) /\ Metadata \in Seq(V)

LEMMA PathsAre ==
  ASSUME NEW S, NEW files \in Seq(S), NEW n, n = Len(files),
         NEW paths, paths = PathsOf(files)
  PROVE  ArePaths(paths, n, files)
<1>1. DOMAIN files = 1..n /\ n \in Nat
  OBVIOUS
<1>2. paths = [k \in 1..n |-> files[k].path]
  BY <1>1 DEF PathsOf
<1> DEFINE V == {files[k].path : k \in 1..n} \union BundlePaths
<1>3. (\A k \in 1..n : files[k].path \in V) /\ BundlePaths \subseteq V
  OBVIOUS
<1> HIDE DEF V
<1>4. paths \in Seq(V)
  BY <1>1, <1>2, <1>3
<1>5. Metadata \in Seq(V)
  BY <1>3, MetadataPaths
<1> QED
  BY <1>1, <1>2, <1>4, <1>5 DEF ArePaths

EntriesOf(b, n, files, manifest, signature) ==
  /\ n \in Nat /\ DOMAIN b = 1..n + 3 /\ Len(b) = n + 3 /\ DOMAIN files = 1..n
  /\ \A k \in 1..n : b[k] = files[k]
  /\ b[n + 1] = Entry("bundle-manifest.json", manifest)
  /\ b[n + 2] = Entry("bundle-manifest.sig", signature)
  /\ b[n + 3] = Entry("checksums.txt", Checksums(files, manifest, signature))
  /\ \E T : b \in Seq(T)

LEMMA AssembledEntries ==
  ASSUME NEW S, NEW manifest, NEW signature, NEW files \in Seq(S), files = manifest.files,
         NEW n, n = Len(files), NEW b, b = Assembled(manifest, signature)
  PROVE  EntriesOf(b, n, files, manifest, signature)
<1> DEFINE m == Entry("bundle-manifest.json", manifest)
           s == Entry("bundle-manifest.sig", signature)
           checked == Checksums(files, manifest, signature)
           x == Entry("checksums.txt", checked)
           T == S \union {m, s, x}
<1>1. files \in Seq(T) /\ <<m, s>> \in Seq(T) /\ <<x>> \in Seq(T)
  <2> HIDE DEF m, s, x
  <2> QED
    OBVIOUS
<1>2. checked = files \o <<m, s>> /\ b = checked \o <<x>>
  BY DEF Checksums, Assembled
<1> HIDE DEF m, s, x, T, checked
<1>3. /\ n \in Nat /\ checked \in Seq(T) /\ Len(checked) = n + 2
      /\ \A k \in 1..n : checked[k] = files[k]
      /\ checked[n + 1] = m /\ checked[n + 2] = s
  BY <1>1, <1>2
<1>4. /\ b \in Seq(T) /\ Len(b) = n + 3
      /\ \A k \in 1..n + 2 : b[k] = checked[k]
      /\ b[n + 3] = x
  BY <1>1, <1>2, <1>3
<1> QED
  <2>1. \A k \in 1..n : k \in 1..n + 2 /\ b[k] = files[k]
    BY <1>3, <1>4
  <2>2. n + 1 \in 1..n + 2 /\ n + 2 \in 1..n + 2
    BY <1>3
  <2>3. b[n + 1] = m /\ b[n + 2] = s
    BY <1>3, <1>4, <2>2
  <2>4. DOMAIN b = 1..n + 3 /\ DOMAIN files = 1..n
    BY <1>4
  <2> QED
    BY <1>3, <1>4, <2>1, <2>3, <2>4 DEF m, s, x, checked, EntriesOf

DataIn(b, n, files, manifest, signature) ==
  /\ \A j, k \in 1..n + 3 : b[j].path = b[k].path => j = k
  /\ \A k \in 1..n : DataOf(b, files[k].path) = files[k].data
  /\ DataOf(b, "bundle-manifest.json") = manifest
  /\ DataOf(b, "bundle-manifest.sig") = signature
  /\ DataOf(b, "checksums.txt") = Checksums(files, manifest, signature)
  /\ \A p \in ToSet(Metadata) : Has(b, p)
  /\ \A p : p \notin ToSet(Metadata) /\ Has(b, p) => Has(files, p)
  /\ \A p : Has(files, p) => Has(b, p)

LEMMA AssembledData ==
  ASSUME NEW S, NEW manifest, NEW signature, NEW files \in Seq(S), files = manifest.files,
         FilesOK(files), NEW n, n = Len(files), NEW b, b = Assembled(manifest, signature)
  PROVE  DataIn(b, n, files, manifest, signature)
<1> DEFINE checked == Checksums(files, manifest, signature)
<1>1. /\ n \in Nat /\ DOMAIN b = 1..n + 3
      /\ \A k \in 1..n : b[k] = files[k]
      /\ b[n + 1] = Entry("bundle-manifest.json", manifest)
      /\ b[n + 2] = Entry("bundle-manifest.sig", signature)
      /\ b[n + 3] = Entry("checksums.txt", checked)
      /\ DOMAIN files = 1..n
  <2>1. EntriesOf(b, n, files, manifest, signature)
    BY AssembledEntries
  <2> QED
    BY <2>1 DEF EntriesOf
<1> HIDE DEF checked
<1>2. /\ b[n + 1].path = "bundle-manifest.json" /\ b[n + 1].data = manifest
      /\ b[n + 2].path = "bundle-manifest.sig" /\ b[n + 2].data = signature
      /\ b[n + 3].path = "checksums.txt" /\ b[n + 3].data = checked
  BY <1>1 DEF Entry
<1>3. \A k \in 1..n : b[k].path \notin {"bundle-manifest.json", "bundle-manifest.sig", "checksums.txt"}
  BY <1>1, MetadataPaths DEF FilesOK
<1>4. \A k \in 1..n + 3 : k \in 1..n \/ k = n + 1 \/ k = n + 2 \/ k = n + 3
  BY <1>1, AnyOfThem
<1>5. \A j, k \in 1..n : b[j].path = b[k].path => j = k
  BY <1>1 DEF FilesOK
<1>6. \A j, k \in 1..n + 3 : b[j].path = b[k].path => j = k
  <2> SUFFICES ASSUME NEW j \in 1..n + 3, NEW k \in 1..n + 3, b[j].path = b[k].path
               PROVE  j = k
    OBVIOUS
  <2> QED
    BY <1>2, <1>3, <1>4, <1>5
<1>7. \A k \in 1..n + 3 : DataOf(b, b[k].path) = b[k].data
  <2>1. DOMAIN b \subseteq Nat
    BY <1>1
  <2> QED
    BY <1>1, <1>6, <2>1, OnlyData
<1>8. \A k \in 1..n : k \in 1..n + 3
  BY <1>1, AnyOfThem
<1>9. n + 1 \in 1..n + 3 /\ n + 2 \in 1..n + 3 /\ n + 3 \in 1..n + 3
  BY <1>1, AnyOfThem
<1>10. \A p \in ToSet(Metadata) : Has(b, p)
  <2>1. /\ Has(b, "bundle-manifest.json") /\ Has(b, "bundle-manifest.sig")
        /\ Has(b, "checksums.txt")
    BY <1>1, <1>2, <1>9 DEF Has
  <2> QED
    BY <2>1, MetadataPaths
<1>11. \A p : p \notin ToSet(Metadata) /\ Has(b, p) => Has(files, p)
  BY <1>1, <1>2, <1>4, MetadataPaths DEF Has
<1>12. \A p : Has(files, p) => Has(b, p)
  BY <1>1, <1>8 DEF Has
<1>13. \A k \in 1..n : DataOf(b, files[k].path) = files[k].data
  BY <1>1, <1>7, <1>8
<1>14. /\ DataOf(b, "bundle-manifest.json") = manifest
       /\ DataOf(b, "bundle-manifest.sig") = signature
       /\ DataOf(b, "checksums.txt") = checked
  BY <1>2, <1>7, <1>9
<1> QED
  BY <1>6, <1>10, <1>11, <1>12, <1>13, <1>14 DEF checked, DataIn

(* A list of entries that has the paths and the data of a bundle is it. *)
LEMMA AssembledIsAll ==
  ASSUME NEW S, NEW T, NEW manifest, NEW signature, NEW files \in Seq(S),
         files = manifest.files, FilesOK(files), NEW entries \in Seq(T),
         \A k \in DOMAIN entries : entries[k] = Entry(entries[k].path, entries[k].data),
         \A k \in DOMAIN files : files[k] = Entry(files[k].path, files[k].data),
         Covered(entries, manifest), Digests(entries, manifest, signature),
         DataOf(entries, "bundle-manifest.json") = manifest,
         DataOf(entries, "bundle-manifest.sig") = signature
  PROVE  entries = Assembled(manifest, signature)
<1> DEFINE n == Len(files)
           b == Assembled(manifest, signature)
           checked == Checksums(files, manifest, signature)
<1> HIDE DEF n, b, checked
<1>1. /\ n \in Nat /\ DOMAIN b = 1..n + 3 /\ Len(b) = n + 3
      /\ \A k \in 1..n : b[k] = files[k]
      /\ b[n + 1] = Entry("bundle-manifest.json", manifest)
      /\ b[n + 2] = Entry("bundle-manifest.sig", signature)
      /\ b[n + 3] = Entry("checksums.txt", checked)
      /\ DOMAIN files = 1..n
      /\ \E U : b \in Seq(U)
  <2>1. EntriesOf(b, n, files, manifest, signature)
    BY AssembledEntries DEF n, b
  <2> QED
    BY <2>1 DEF EntriesOf, checked
<1>2. PICK U : b \in Seq(U)
  BY <1>1
<1> DEFINE q == PathsOf(files)
           a == PathsOf(entries)
<1>3. ArePaths(q, n, files)
  BY PathsAre DEF n
<1>4. /\ DOMAIN a = 1..n + 3 /\ Len(a) = n + 3
      /\ \A k \in 1..n : a[k] = files[k].path
      /\ a[n + 1] = "bundle-manifest.json"
      /\ a[n + 2] = "bundle-manifest.sig"
      /\ a[n + 3] = "checksums.txt"
  <2>1. PICK V : q \in Seq(V) /\ Metadata \in Seq(V)
    BY <1>3 DEF ArePaths
  <2>2. a = q \o Metadata
    BY DEF Covered
  <2>3. n = Len(q) /\ Len(Metadata) = 3
    BY <1>3, MetadataPaths DEF ArePaths
  <2> HIDE DEF a, q
  <2>4. Followed(a, n, q, Metadata)
    BY <2>1, <2>2, <2>3, ThreeBehind
  <2> QED
    BY <1>3, <2>4, MetadataPaths DEF ArePaths, Followed
<1>5. /\ DOMAIN entries = 1..n + 3 /\ Len(entries) = n + 3
      /\ \A k \in 1..n : entries[k].path = files[k].path
      /\ entries[n + 1].path = "bundle-manifest.json"
      /\ entries[n + 2].path = "bundle-manifest.sig"
      /\ entries[n + 3].path = "checksums.txt"
  <2>1. ArePaths(a, Len(entries), entries)
    BY PathsAre
  <2> HIDE DEF a, q
  <2>2. Len(entries) = n + 3 /\ DOMAIN entries = 1..n + 3
    BY <1>4, <2>1 DEF ArePaths
  <2> QED
    BY <1>1, <1>4, <2>1, <2>2, AnyOfThem DEF ArePaths
<1> HIDE DEF a, q
<1>6. \A k \in 1..n : entries[k].path \notin {"bundle-manifest.json", "bundle-manifest.sig", "checksums.txt"}
  BY <1>1, <1>5, MetadataPaths DEF FilesOK
<1>7. \A k \in 1..n + 3 : k \in 1..n \/ k = n + 1 \/ k = n + 2 \/ k = n + 3
  BY <1>1, AnyOfThem
<1>8. \A j, k \in 1..n : entries[j].path = entries[k].path => j = k
  <2>1. \A j, k \in 1..n : files[k].path = files[j].path => j = k
    BY <1>1 DEF FilesOK
  <2>2. \A k \in 1..n : entries[k].path = files[k].path
    BY <1>5
  <2> QED
    BY <2>1, <2>2
<1>9. \A j, k \in 1..n + 3 : entries[j].path = entries[k].path => j = k
  <2> SUFFICES ASSUME NEW j \in 1..n + 3, NEW k \in 1..n + 3, entries[j].path = entries[k].path
               PROVE  j = k
    OBVIOUS
  <2>1. j \in 1..n \/ j = n + 1 \/ j = n + 2 \/ j = n + 3
    BY <1>7
  <2>2. k \in 1..n \/ k = n + 1 \/ k = n + 2 \/ k = n + 3
    BY <1>7
  <2>3. CASE j \in 1..n
    <3>1. entries[k].path \notin {"bundle-manifest.json", "bundle-manifest.sig", "checksums.txt"}
      BY <1>6, <2>3
    <3>2. k \in 1..n
      BY <1>5, <2>2, <3>1
    <3> QED
      BY <1>8, <2>3, <3>2
  <2>4. CASE j \notin 1..n
    <3>1. entries[j].path \in {"bundle-manifest.json", "bundle-manifest.sig", "checksums.txt"}
      BY <1>5, <2>1, <2>4
    <3>2. k \notin 1..n
      BY <1>6, <3>1
    <3> QED
      BY <1>5, <2>1, <2>2, <2>4, <3>2
  <2> QED
    BY <2>3, <2>4
<1>10. \A k \in 1..n + 3 : DataOf(entries, entries[k].path) = entries[k].data
  <2>1. DOMAIN entries \subseteq Nat
    BY <1>5
  <2> QED
    BY <1>5, <1>9, <2>1, OnlyData
<1>11. \A k \in 1..n : entries[k] = b[k]
  <2> SUFFICES ASSUME NEW k \in 1..n PROVE entries[k] = b[k]
    OBVIOUS
  <2>1. k \in 1..n + 3
    BY <1>1, AnyOfThem
  <2>2. entries[k].data = files[k].data
    BY <1>1, <1>5, <1>10, <2>1 DEF Digests
  <2> QED
    BY <1>1, <1>5, <2>1, <2>2
<1>12. n + 1 \in 1..n + 3 /\ n + 2 \in 1..n + 3 /\ n + 3 \in 1..n + 3
  BY <1>1, AnyOfThem
<1>13. /\ entries[n + 1].data = manifest /\ entries[n + 2].data = signature
       /\ entries[n + 3].data = checked
  BY <1>5, <1>10, <1>12 DEF Digests, checked
<1>14. entries[n + 1] = b[n + 1] /\ entries[n + 2] = b[n + 2] /\ entries[n + 3] = b[n + 3]
  BY <1>1, <1>5, <1>12, <1>13
<1>15. \A k \in 1..n + 3 : entries[k] = b[k]
  BY <1>7, <1>11, <1>14
<1> QED
  BY <1>1, <1>2, <1>5, <1>15 DEF b
-----------------------------------------------------------------------------
(* The files of a bundle, whatever the run has left. *)
Contract(receipt) == Entry("verification-contract.json", receipt.payload)
Logs(state) == Entry("logs/raw.ndjson", SafeLog(state))
FilesFor(receipt, state) ==
  {Entry("receipt.json", receipt), Report(receipt), Contract(receipt), Logs(state)}

AreFiles(files, r, p, c, l, withC, withL) ==
  /\ files[1] = r /\ files[2] = p
  /\ \/ withC /\ withL /\ Len(files) = 4 /\ files[3] = c /\ files[4] = l
     \/ withC /\ ~withL /\ Len(files) = 3 /\ files[3] = c
     \/ ~withC /\ withL /\ Len(files) = 3 /\ files[3] = l
     \/ ~withC /\ ~withL /\ Len(files) = 2

LEMMA FourFiles ==
  ASSUME NEW r, NEW p, NEW c, NEW l, NEW S, S = {r, p, c, l},
         NEW withC \in BOOLEAN, NEW withL \in BOOLEAN, NEW files,
         files = <<r, p>> \o (IF withC THEN <<c>> ELSE <<>>) \o (IF withL THEN <<l>> ELSE <<>>)
  PROVE  files \in Seq(S) /\ AreFiles(files, r, p, c, l, withC, withL)
<1> USE DEF AreFiles
<1>1. /\ <<r, p>> \in Seq(S) /\ Len(<<r, p>>) = 2
      /\ <<r, p>>[1] = r /\ <<r, p>>[2] = p
      /\ <<c>> \in Seq(S) /\ Len(<<c>>) = 1 /\ <<c>>[1] = c
      /\ <<l>> \in Seq(S) /\ Len(<<l>>) = 1 /\ <<l>>[1] = l
  OBVIOUS
<1> DEFINE two == <<r, p>>
           three == two \o <<c>>
<1>2. /\ three \in Seq(S) /\ Len(three) = 3
      /\ three[1] = r /\ three[2] = p /\ three[3] = c
  <2> HIDE DEF two
  <2>1. two \in Seq(S) /\ <<c>> \in Seq(S) /\ Len(two) = 2 /\ Len(<<c>>) = 1
    BY <1>1 DEF two
  <2> DEFINE one == <<c>>
  <2> HIDE DEF one
  <2>2. /\ three \in Seq(S) /\ Len(three) = 3
        /\ \A k \in 1..3 : three[k] = IF k <= 2 THEN two[k] ELSE one[k - 2]
    <3>1. /\ two \o one \in Seq(S) /\ Len(two \o one) = Len(two) + Len(one)
          /\ \A k \in 1..Len(two) + Len(one) :
               (two \o one)[k] = IF k <= Len(two) THEN two[k] ELSE one[k - Len(two)]
      BY <2>1, ConcatProperties, Zenon DEF one
    <3>2. three = two \o one /\ Len(two) = 2 /\ Len(one) = 1
      BY <2>1 DEF one
    <3>3. three \in Seq(S) /\ Len(three) = 3
      BY <3>1, <3>2
    <3>4. ASSUME NEW k \in 1..3
          PROVE  three[k] = IF k <= 2 THEN two[k] ELSE one[k - 2]
      <4>1. k \in 1..Len(two) + Len(one)
        BY <3>2
      <4>2. (two \o one)[k] = IF k <= Len(two) THEN two[k] ELSE one[k - Len(two)]
        BY <3>1, <4>1
      <4> HIDE DEF three
      <4> QED
        BY <3>2, <4>2
    <3> QED
      BY <3>3, <3>4
  <2>3. two[1] = r /\ two[2] = p
    BY <1>1 DEF two
  <2>4. one[1] = c
    BY <1>1 DEF one
  <2> HIDE DEF three
  <2> QED
    BY <2>2, <2>3, <2>4
<1>3. ASSUME NEW list \in Seq(S)
      PROVE  list \o <<>> = list
  BY <1>3, ConcatEmptySeq
<1>4. CASE withC /\ withL
  <2> HIDE DEF three
  <2>1. files = three \o <<l>>
    BY <1>4 DEF three
  <2> QED
    BY <1>1, <1>2, <1>4, <2>1
<1>5. CASE withC /\ ~withL
  <2>1. files = three \o <<>>
    BY <1>5
  <2> HIDE DEF three
  <2>2. files = three
    BY <1>2, <1>3, <2>1
  <2> QED
    BY <1>2, <1>5, <2>2
<1> HIDE DEF two
<1>6. two \in Seq(S) /\ Len(two) = 2 /\ two[1] = r /\ two[2] = p /\ two \o <<>> = two
  BY <1>1, <1>3 DEF two
<1>7. CASE ~withC /\ withL
  <2>1. files = two \o <<l>>
    BY <1>6, <1>7 DEF two
  <2> QED
    BY <1>1, <1>6, <1>7, <2>1
<1>8. CASE ~withC /\ ~withL
  <2>1. files = two
    BY <1>6, <1>8 DEF two
  <2> QED
    BY <1>6, <1>8, <2>1
<1> QED
  BY <1>4, <1>5, <1>7, <1>8

FilesOf(files, receipt, hasContract, state) ==
  /\ files \in Seq(FilesFor(receipt, state))
  /\ Len(files) >= 2
  /\ files[1] = Entry("receipt.json", receipt) /\ files[2] = Report(receipt)
  /\ FilesOK(files)
  /\ \A k \in DOMAIN files : files[k] = Entry(files[k].path, files[k].data)
  /\ Has(files, "verification-contract.json") <=> hasContract
  /\ Has(files, "logs/raw.ndjson") <=> Included(state)

LEMMA BundleFiles ==
  ASSUME NEW receipt, NEW hasContract \in BOOLEAN, NEW state, NEW files,
         files = PayloadFiles(receipt, hasContract, state)
  PROVE  FilesOf(files, receipt, hasContract, state)
<1> DEFINE r == Entry("receipt.json", receipt)
           p == Report(receipt)
           c == Contract(receipt)
           l == Logs(state)
           S == {r, p, c, l}
<1>0. files = <<r, p>> \o (IF hasContract THEN <<c>> ELSE <<>>)
                      \o (IF Included(state) THEN <<l>> ELSE <<>>)
  BY DEF PayloadFiles, Contract, Logs
<1>2. /\ r.path = "receipt.json" /\ p.path = "report.json"
      /\ c.path = "verification-contract.json" /\ l.path = "logs/raw.ndjson"
  BY DEF Entry, Report, Contract, Logs
<1>3. \A e \in S : e = Entry(e.path, e.data)
  BY DEF Entry, Report, Contract, Logs
<1> HIDE DEF r, p, c, l
<1>1. Included(state) \in BOOLEAN
  BY DEF Included
<1> DEFINE withLogs == Included(state)
<1>4. files \in Seq(S) /\ AreFiles(files, r, p, c, l, hasContract, withLogs)
  BY <1>0, <1>1, FourFiles
<1> HIDE DEF S
<1> USE DEF AreFiles
<1>5. FilesOK(files)
  <2>0. DOMAIN files = 1..Len(files)
    BY <1>4
  <2>1. \A k \in DOMAIN files : files[k].path \notin ToSet(Metadata)
    <3> SUFFICES ASSUME NEW k \in DOMAIN files PROVE files[k].path \notin ToSet(Metadata)
      OBVIOUS
    <3>1. files[k] \in S
      BY <1>4
    <3> QED
      BY <1>2, <3>1, MetadataPaths DEF S
  <2>2. \A j, k \in DOMAIN files : files[j].path = files[k].path => j = k
    BY <1>2, <1>4, <2>0
  <2> QED
    BY <2>1, <2>2 DEF FilesOK
<1>6. \A k \in DOMAIN files : files[k] = Entry(files[k].path, files[k].data)
  BY <1>3, <1>4 DEF S
<1>7. Has(files, "verification-contract.json") <=> hasContract
  BY <1>2, <1>4 DEF Has
<1>8. Has(files, "logs/raw.ndjson") <=> Included(state)
  BY <1>2, <1>4 DEF Has
<1>9. Len(files) >= 2
  BY <1>4
<1> QED
  BY <1>4, <1>5, <1>6, <1>7, <1>8, <1>9 DEF r, p, c, l, S, FilesOf, FilesFor

(* What a reader finds in a bundle. *)
LEMMA BundleData ==
  ASSUME NEW receipt, NEW hasContract \in BOOLEAN, NEW state, NEW key, NEW b,
         b = Bundle(receipt, hasContract, state, key)
  PROVE  LET manifest == Manifest(receipt, hasContract, state)
         IN  /\ DataOf(b, "bundle-manifest.json") = manifest
             /\ DataOf(b, "bundle-manifest.sig") = SignedManifest(manifest, key)
             /\ DataOf(b, "checksums.txt") =
                  Checksums(manifest.files, manifest, SignedManifest(manifest, key))
             /\ DataOf(b, "receipt.json") = receipt
             /\ DataOf(b, "report.json") = receipt.payload
             /\ \A p \in ToSet(Metadata) : Has(b, p)
             /\ Has(b, "verification-contract.json") <=> hasContract
             /\ Has(b, "verification-contract.json") =>
                  DataOf(b, "verification-contract.json") = receipt.payload
             /\ Has(b, "logs/raw.ndjson") <=> Included(state)
             /\ Has(b, "logs/raw.ndjson") => DataOf(b, "logs/raw.ndjson") = SafeLog(state)
             /\ Covered(b, manifest)
             /\ Digests(b, manifest, SignedManifest(manifest, key))
<1> DEFINE manifest == Manifest(receipt, hasContract, state)
           signature == SignedManifest(manifest, key)
           files == manifest.files
           n == Len(files)
           S == FilesFor(receipt, state)
<1>1. files = PayloadFiles(receipt, hasContract, state) /\ b = Assembled(manifest, signature)
  BY DEF Manifest, Bundle
<1> HIDE DEF manifest, signature
<1>2. /\ files \in Seq(S) /\ n >= 2
      /\ files[1] = Entry("receipt.json", receipt) /\ files[2] = Report(receipt)
      /\ FilesOK(files)
      /\ Has(files, "verification-contract.json") <=> hasContract
      /\ Has(files, "logs/raw.ndjson") <=> Included(state)
  <2>1. FilesOf(files, receipt, hasContract, state)
    BY <1>1, BundleFiles
  <2> QED
    BY <2>1 DEF FilesOf
<1> HIDE DEF S
<1>3. /\ \A k \in 1..n : DataOf(b, files[k].path) = files[k].data
      /\ DataOf(b, "bundle-manifest.json") = manifest
      /\ DataOf(b, "bundle-manifest.sig") = signature
      /\ DataOf(b, "checksums.txt") = Checksums(files, manifest, signature)
      /\ \A p \in ToSet(Metadata) : Has(b, p)
      /\ \A p : p \notin ToSet(Metadata) /\ Has(b, p) => Has(files, p)
      /\ \A p : Has(files, p) => Has(b, p)
  <2>1. DataIn(b, n, files, manifest, signature)
    BY <1>1, <1>2, AssembledData
  <2> QED
    BY <2>1 DEF DataIn
<1>4. DOMAIN files = 1..n /\ n \in Nat
  BY <1>2
<1>5. DataOf(b, "receipt.json") = receipt /\ DataOf(b, "report.json") = receipt.payload
  <2>1. 1 \in 1..n /\ 2 \in 1..n
    BY <1>2, <1>4
  <2>2. /\ files[1].path = "receipt.json" /\ files[1].data = receipt
        /\ files[2].path = "report.json" /\ files[2].data = receipt.payload
    BY <1>2 DEF Entry, Report
  <2> QED
    BY <1>3, <2>1, <2>2
<1>6. ASSUME Has(files, "verification-contract.json")
      PROVE  DataOf(b, "verification-contract.json") = receipt.payload
  <2>1. PICK k \in 1..n : files[k].path = "verification-contract.json"
    BY <1>4, <1>6 DEF Has
  <2>2. files[k] \in S
    BY <1>2, <2>1
  <2>3. files[k].data = receipt.payload
    BY <2>1, <2>2 DEF S, FilesFor, Entry, Report, Contract, Logs
  <2> QED
    BY <1>3, <2>1, <2>3
<1>7. ASSUME Has(files, "logs/raw.ndjson")
      PROVE  DataOf(b, "logs/raw.ndjson") = SafeLog(state)
  <2>1. PICK k \in 1..n : files[k].path = "logs/raw.ndjson"
    BY <1>4, <1>7 DEF Has
  <2>2. files[k] \in S
    BY <1>2, <2>1
  <2>3. files[k].data = SafeLog(state)
    BY <2>1, <2>2 DEF S, FilesFor, Entry, Report, Contract, Logs
  <2> QED
    BY <1>3, <2>1, <2>3
<1>8. Has(b, "verification-contract.json") <=> Has(files, "verification-contract.json")
  BY <1>3, MetadataPaths
<1>9. Has(b, "logs/raw.ndjson") <=> Has(files, "logs/raw.ndjson")
  BY <1>3, MetadataPaths
<1>10. Digests(b, manifest, signature)
  BY <1>3, <1>4 DEF Digests
<1>11. Covered(b, manifest)
  <2>1. EntriesOf(b, n, files, manifest, signature)
    BY <1>1, <1>2, AssembledEntries
  <2>2. PICK T : b \in Seq(T)
    BY <2>1 DEF EntriesOf
  <2> DEFINE q == PathsOf(files)
             a == PathsOf(b)
  <2>3. ArePaths(q, n, files)
    BY <1>2, PathsAre
  <2>4. ArePaths(a, n + 3, b)
    <3>1. Len(b) = n + 3
      BY <2>1 DEF EntriesOf
    <3> QED
      BY <2>2, <3>1, PathsAre
  <2> HIDE DEF q, a
  <2>5. PICK V : q \in Seq(V) /\ Metadata \in Seq(V)
    BY <2>3 DEF ArePaths
  <2> DEFINE both == q \o Metadata
  <2>6. both \in Seq(V) /\ Followed(both, n, q, Metadata)
    <3>1. n = Len(q) /\ Len(Metadata) = 3
      BY <2>3, MetadataPaths DEF ArePaths
    <3> QED
      BY <2>5, <3>1, ThreeBehind
  <2>7. PICK W : a \in Seq(W)
    BY <2>4 DEF ArePaths
  <2> HIDE DEF both
  <2>8. /\ b[n + 1].path = "bundle-manifest.json" /\ b[n + 2].path = "bundle-manifest.sig"
        /\ b[n + 3].path = "checksums.txt"
    BY <2>1 DEF EntriesOf, Entry
  <2>9. \A k \in 1..n + 3 : a[k] = both[k]
    <3> SUFFICES ASSUME NEW k \in 1..n + 3 PROVE a[k] = both[k]
      OBVIOUS
    <3>1. CASE k \in 1..n
      <4>1. a[k] = b[k].path /\ both[k] = q[k] /\ q[k] = files[k].path
        BY <2>3, <2>4, <2>6, <3>1 DEF ArePaths, Followed
      <4>2. b[k] = files[k]
        BY <2>1, <3>1 DEF EntriesOf
      <4> QED
        BY <4>1, <4>2
    <3>2. CASE k = n + 1 \/ k = n + 2 \/ k = n + 3
      BY <2>4, <2>6, <2>8, <3>2, MetadataPaths DEF ArePaths, Followed
    <3> QED
      BY <1>4, <3>1, <3>2, AnyOfThem
  <2>10. a = both
    BY <2>4, <2>6, <2>7, <2>9 DEF ArePaths, Followed
  <2> QED
    BY <2>10 DEF Covered, a, q, both
<1> QED
  BY <1>2, <1>3, <1>5, <1>6, <1>7, <1>8, <1>9, <1>10, <1>11 DEF manifest, signature
(* A bundle is a list of entries. *)
IsEntry(e) == e = Entry(e.path, e.data) /\ e.path \in BundlePaths

LEMMA EntriesAre ==
  \A data : /\ \A path \in BundlePaths : IsEntry(Entry(path, data))
            /\ IsEntry(Entry("receipt.json", data)) /\ IsEntry(Entry("report.json", data))
            /\ IsEntry(Entry("verification-contract.json", data))
            /\ IsEntry(Entry("logs/raw.ndjson", data))
            /\ IsEntry(Entry("bundle-manifest.json", data))
            /\ IsEntry(Entry("bundle-manifest.sig", data))
            /\ IsEntry(Entry("checksums.txt", data))
<1>1. \A path \in BundlePaths : \A data : IsEntry(Entry(path, data))
  BY DEF IsEntry, Entry
<1>2. /\ "receipt.json" \in BundlePaths /\ "report.json" \in BundlePaths
      /\ "verification-contract.json" \in BundlePaths /\ "logs/raw.ndjson" \in BundlePaths
      /\ "bundle-manifest.json" \in BundlePaths /\ "bundle-manifest.sig" \in BundlePaths
      /\ "checksums.txt" \in BundlePaths
  BY DEF BundlePaths
<1> QED
  BY <1>1, <1>2

LEMMA BundleEntries ==
  ASSUME NEW receipt, NEW hasContract \in BOOLEAN, NEW state, NEW key, NEW b,
         b = Bundle(receipt, hasContract, state, key)
  PROVE  b \in Seq(ToSet(b)) /\ \A e \in ToSet(b) : IsEntry(e)
<1> DEFINE manifest == Manifest(receipt, hasContract, state)
           signature == SignedManifest(manifest, key)
           files == manifest.files
           n == Len(files)
           S == FilesFor(receipt, state)
<1>1. files = PayloadFiles(receipt, hasContract, state) /\ b = Assembled(manifest, signature)
  BY DEF Manifest, Bundle
<1> HIDE DEF manifest, signature
<1>2. files \in Seq(S)
  <2>1. FilesOf(files, receipt, hasContract, state)
    BY <1>1, BundleFiles
  <2> QED
    BY <2>1 DEF FilesOf
<1>3. /\ n \in Nat /\ DOMAIN b = 1..n + 3 /\ Len(b) = n + 3
      /\ \A k \in 1..n : b[k] = files[k]
      /\ b[n + 1] = Entry("bundle-manifest.json", manifest)
      /\ b[n + 2] = Entry("bundle-manifest.sig", signature)
      /\ b[n + 3] = Entry("checksums.txt", Checksums(files, manifest, signature))
      /\ \E T : b \in Seq(T)
  <2>1. EntriesOf(b, n, files, manifest, signature)
    BY <1>1, <1>2, AssembledEntries
  <2> QED
    BY <2>1 DEF EntriesOf
<1>4. \A e \in S : IsEntry(e)
  <2>1. \A data : /\ IsEntry(Entry("receipt.json", data))
                  /\ IsEntry(Entry("report.json", data))
                  /\ IsEntry(Entry("verification-contract.json", data))
                  /\ IsEntry(Entry("logs/raw.ndjson", data))
    BY EntriesAre, Zenon
  <2> QED
    BY <2>1 DEF FilesFor, Report, Contract, Logs
<1> HIDE DEF S
<1>5. \A k \in 1..n : IsEntry(b[k])
  <2> SUFFICES ASSUME NEW k \in 1..n PROVE IsEntry(b[k])
    OBVIOUS
  <2>1. files[k] \in S
    BY <1>2
  <2> QED
    BY <1>3, <1>4, <2>1
<1>6. IsEntry(b[n + 1]) /\ IsEntry(b[n + 2]) /\ IsEntry(b[n + 3])
  BY <1>3, EntriesAre
<1>7. \A k \in 1..n + 3 : k \in 1..n \/ k = n + 1 \/ k = n + 2 \/ k = n + 3
  BY <1>3
<1>8. \A k \in DOMAIN b : IsEntry(b[k])
  BY <1>3, <1>5, <1>6, <1>7
<1>9. b \in Seq(ToSet(b))
  BY <1>3 DEF ToSet
<1> QED
  BY <1>8, <1>9 DEF ToSet

(* What redaction has made safe stays as it is. *)
LEMMA SafeLogs ==
  ASSUME NEW state \in RunLogs, Included(state)
  PROVE  \A content \in ToSet(SafeLog(state)) :
           content \in {"clean", "redacted"} /\ Redacted(content) = content
<1>1. state \in Seq({"clean", "secret", "unsafe"})
  BY DEF RunLogs, Included, Retained
<1>2. ASSUME NEW k \in DOMAIN state
      PROVE  SafeLog(state)[k] \in {"clean", "redacted"}
  <2>1. state[k] \in {"clean", "secret", "unsafe"}
    BY <1>1
  <2>2. SafeLog(state)[k] = Redacted(state[k]) /\ SafeLog(state)[k] \in ToSet(SafeLog(state))
    BY DEF SafeLog, ToSet
  <2>3. SafeLog(state)[k] # None
    BY <2>2 DEF Included
  <2> QED
    BY <2>1, <2>2, <2>3 DEF Redacted
<1>3. \A content \in ToSet(SafeLog(state)) : content \in {"clean", "redacted"}
  BY <1>2 DEF ToSet, SafeLog
<1>4. \A content \in {"clean", "redacted"} : Redacted(content) = content
  BY DEF Redacted
<1> QED
  BY <1>3, <1>4

-----------------------------------------------------------------------------
(* What a bundle is: that of a receipt, signed with the key of the receipt. *)
IsBundle(b, payload, hasContract, state) ==
  /\ issued[payload] # None
  /\ b = Bundle(issued[payload], hasContract, state, issued[payload].signature.key)
  /\ Included(state) => runs[payload].isPublic

CreatedOK ==
  \A b \in created :
    \E payload \in Payloads, hasContract \in BOOLEAN, state \in LogOutcomes :
      IsBundle(b, payload, hasContract, state)

(* What damage can leave in a file. *)
Downloaded == UNION {ToSet(b) : b \in created}
Blanks == {Entry(path, Junk) : path \in BundlePaths}
Known == Downloaded \union Blanks

LEMMA KnownEntries ==
  /\ \A e : e \in Known <=> (\E b \in created : e \in ToSet(b)) \/ e \in Blanks
  /\ \A e \in Blanks : IsEntry(e) /\ e.data = Junk
  /\ \A path \in BundlePaths : Entry(path, Junk) \in Blanks
<1>1. \A e : e \in Downloaded <=> \E b \in created : e \in ToSet(b)
  BY DEF Downloaded
<1>2. \A e \in Blanks : \E path \in BundlePaths : e = Entry(path, Junk)
  BY DEF Blanks
<1>3. \A path \in BundlePaths : Entry(path, Junk).data = Junk /\ IsEntry(Entry(path, Junk))
  BY EntriesAre DEF Entry
<1>4. \A path \in BundlePaths : Entry(path, Junk) \in Blanks
  BY DEF Blanks
<1> QED
  BY <1>1, <1>2, <1>3, <1>4 DEF Known

RunOutcome == [contract : BOOLEAN, isPublic : BOOLEAN, logs : LogOutcomes]

BundleIInv ==
  /\ KeysTypeOK
  /\ runs \in [Payloads -> RunOutcome]
  /\ CreatedOK
  /\ damage \in 0..MaxDamage
  /\ created = {} => file = None /\ damage = 0
  /\ file # None => file \in Seq(Known)

LEMMA OutcomesAreLogs == LogOutcomes \subseteq RunLogs
BY EvidenceBundleAssumption DEF LogOutcomes, RunLogs

LEMMA IssuedReceipt ==
  ASSUME KeysTypeOK, NEW payload \in Payloads, issued[payload] # None
  PROVE  \E e \in KeyEntries : /\ issued[payload] = Signed(payload, e)
                               /\ issued[payload].payload = payload
                               /\ issued[payload].keyId = e.id /\ e.id \in Ids
                               /\ issued[payload].signature = [key |-> e.key, text |-> payload]
                               /\ issued[payload].hash = payload
                               /\ issued[payload].signature.key = e.key /\ e.key \in Keys
BY DEF KeysTypeOK, Signed, KeyEntries

(* What has been downloaded is accepted as long as its key is published. *)
LEMMA CreatedAreValid == BundleIInv => CreatedIsValid
<1> SUFFICES ASSUME BundleIInv, NEW b \in created
             PROVE  LET receipt == DataOf(b, "receipt.json")
                        key == PublicKey(config, receipt.keyId)
                    IN  BundleReason(config, b) =
                          IF key = receipt.signature.key THEN "NONE"
                          ELSE IF key = None THEN "UNKNOWN_KEY" ELSE "INVALID_MANIFEST_SIGNATURE"
  BY DEF CreatedIsValid
<1>1. PICK payload \in Payloads, hasContract \in BOOLEAN, state \in LogOutcomes :
             IsBundle(b, payload, hasContract, state)
  BY DEF BundleIInv, CreatedOK
<1> DEFINE receipt == issued[payload]
           manifest == Manifest(receipt, hasContract, state)
           own == receipt.signature.key
           signature == SignedManifest(manifest, own)
           key == PublicKey(config, receipt.keyId)
<1>2. PICK e \in KeyEntries :
             /\ receipt = Signed(payload, e)
             /\ receipt.payload = payload /\ receipt.keyId = e.id /\ e.id \in Ids
             /\ receipt.signature = [key |-> e.key, text |-> payload]
             /\ receipt.hash = payload
             /\ own = e.key /\ e.key \in Keys
  BY <1>1, IssuedReceipt DEF IsBundle, BundleIInv
<1>3. /\ DataOf(b, "bundle-manifest.json") = manifest
      /\ DataOf(b, "bundle-manifest.sig") = signature
      /\ DataOf(b, "receipt.json") = receipt
      /\ DataOf(b, "report.json") = receipt.payload
      /\ \A p \in ToSet(Metadata) : Has(b, p)
      /\ Has(b, "verification-contract.json") =>
           DataOf(b, "verification-contract.json") = receipt.payload
      /\ Has(b, "logs/raw.ndjson") <=> Included(state)
      /\ Has(b, "logs/raw.ndjson") => DataOf(b, "logs/raw.ndjson") = SafeLog(state)
      /\ Covered(b, manifest)
      /\ Digests(b, manifest, signature)
  BY <1>1, BundleData DEF IsBundle
<1>4. manifest # Junk /\ signature # Junk
  <2>1. manifest = Manifest(Signed(payload, e), hasContract, state)
        /\ signature = SignedManifest(manifest, e.key)
    BY <1>2
  <2> QED
    BY <2>1, JunkAssumption
<1>5. /\ manifest.keyId = receipt.keyId /\ manifest.receipt = receipt.payload
      /\ signature.keyId = manifest.keyId /\ signature.hash = manifest
      /\ signature.signature = [key |-> own, text |-> manifest]
  <2>1. manifest.keyId = receipt.keyId /\ manifest.receipt = receipt.payload
    BY DEF Manifest
  <2> HIDE DEF manifest
  <2> QED
    BY <2>1 DEF SignedManifest
<1>6. key = own => Reason(receipt, <<[id |-> receipt.keyId, key |-> key]>>) = "NONE"
  <2> SUFFICES ASSUME key = own
               PROVE  Reason(receipt, <<[id |-> receipt.keyId, key |-> key]>>) = "NONE"
    OBVIOUS
  <2>1. Find(<<[id |-> receipt.keyId, key |-> key]>>, receipt.keyId) = key
    BY <1>2, SingletonFound
  <2>2. key # None /\ receipt.hash = receipt.payload
        /\ receipt.signature = [key |-> key, text |-> receipt.payload]
    BY <1>2, ReceiptKeysAssumption
  <2> HIDE DEF receipt, key
  <2> QED
    BY <2>1, <2>2 DEF Reason
<1>7. Has(b, "logs/raw.ndjson") =>
        \A content \in ToSet(DataOf(b, "logs/raw.ndjson")) : Redacted(content) = content
  BY <1>3, SafeLogs, OutcomesAreLogs
<1>8. own # None
  BY <1>2, ReceiptKeysAssumption
<1>9. key # own => signature.signature # [key |-> key, text |-> manifest]
  <2> HIDE DEF key, own, manifest, signature
  <2>1. [key |-> own, text |-> manifest].key = own /\ [key |-> key, text |-> manifest].key = key
    OBVIOUS
  <2> QED
    BY <1>5, <2>1
<1> HIDE DEF receipt, manifest, own, signature, key
<1>10. key = PublicKey(config, signature.keyId) /\ own = receipt.signature.key
  BY <1>5 DEF key, own
<1>11. BundleReason(config, b) =
         IF key = own THEN "NONE" ELSE IF key = None THEN "UNKNOWN_KEY" ELSE "INVALID_MANIFEST_SIGNATURE"
  <2>1. CASE key = None
    BY <1>3, <1>4, <1>5, <1>8, <1>10, <2>1 DEF BundleReason
  <2>2. CASE key # None /\ key # own
    BY <1>3, <1>4, <1>5, <1>9, <1>10, <2>2 DEF BundleReason
  <2>3. CASE key # None /\ key = own
    BY <1>3, <1>4, <1>5, <1>6, <1>7, <1>10, <2>3 DEF BundleReason
  <2> QED
    BY <1>8, <2>1, <2>2, <2>3
<1> QED
  BY <1>3, <1>10, <1>11 DEF key, own

(* What is accepted has been downloaded: the signature that is found in    *)
(* the file is that of one bundle, and names everything in it.             *)
LEMMA AcceptedWasCreated == BundleIInv => ValidIsCreated
<1> SUFFICES ASSUME BundleIInv, file # None, BundleReason(config, file) = "NONE"
             PROVE  file \in created
  BY DEF ValidIsCreated
<1> DEFINE manifest == DataOf(file, "bundle-manifest.json")
           signature == DataOf(file, "bundle-manifest.sig")
<1>1. file \in Seq(Known)
  BY DEF BundleIInv
<1>2. /\ \A p \in ToSet(Metadata) : Has(file, p)
      /\ manifest # Junk /\ signature # Junk
      /\ Covered(file, manifest) /\ Digests(file, manifest, signature)
      /\ signature.hash = manifest
  BY DEF BundleReason
<1>3. PICK k \in DOMAIN file :
             file[k].path = "bundle-manifest.sig" /\ signature = file[k].data
  <2>1. DOMAIN file \subseteq Nat
    BY <1>1
  <2>2. Has(file, "bundle-manifest.sig")
    BY <1>2, MetadataPaths
  <2> QED
    BY <2>1, <2>2, FoundData
<1> HIDE DEF manifest, signature
<1>4. file[k] \in Known
  BY <1>1, <1>3
<1>5. PICK b \in created : file[k] \in ToSet(b)
  BY <1>2, <1>3, <1>4, KnownEntries
<1>6. PICK payload \in Payloads, hasContract \in BOOLEAN, state \in LogOutcomes :
             IsBundle(b, payload, hasContract, state)
  BY DEF BundleIInv, CreatedOK
<1> DEFINE own == Manifest(issued[payload], hasContract, state)
           ownSignature == SignedManifest(own, issued[payload].signature.key)
           S == FilesFor(issued[payload], state)
           files == own.files
           n == Len(files)
<1>7. b = Assembled(own, ownSignature) /\ own.files = PayloadFiles(issued[payload], hasContract, state)
  BY <1>6 DEF IsBundle, Bundle, Manifest
<1>8. ownSignature.hash = own
  <2> HIDE DEF own
  <2> QED
    BY DEF SignedManifest
<1> HIDE DEF own, ownSignature
<1>9. /\ own.files \in Seq(S) /\ FilesOK(own.files)
      /\ \A j \in DOMAIN own.files : own.files[j] = Entry(own.files[j].path, own.files[j].data)
  <2>1. FilesOf(files, issued[payload], hasContract, state)
    BY <1>7, BundleFiles
  <2> QED
    BY <2>1 DEF FilesOf
<1> HIDE DEF S
<1>10. signature = ownSignature
  <2>1. b \in Seq(ToSet(b)) /\ DataOf(b, "bundle-manifest.sig") = ownSignature
    BY <1>6, BundleEntries, BundleData DEF IsBundle, own, ownSignature
  <2>2. /\ DOMAIN b = 1..n + 3 /\ DOMAIN b \subseteq Nat
        /\ \A i, j \in 1..n + 3 : b[i].path = b[j].path => i = j
    <3>1. EntriesOf(b, n, files, own, ownSignature)
      BY <1>7, <1>9, AssembledEntries
    <3>2. DataIn(b, n, files, own, ownSignature)
      BY <1>7, <1>9, AssembledData
    <3> QED
      BY <3>1, <3>2 DEF EntriesOf, DataIn
  <2>3. PICK j \in DOMAIN b : file[k] = b[j]
    BY <1>5 DEF ToSet
  <2>4. DataOf(b, b[j].path) = b[j].data
    BY <2>1, <2>2, OnlyData
  <2> QED
    BY <1>3, <2>1, <2>3, <2>4
<1>11. manifest = own
  BY <1>2, <1>8, <1>10
<1>12. \A j \in DOMAIN file : file[j] = Entry(file[j].path, file[j].data)
  <2> SUFFICES ASSUME NEW j \in DOMAIN file PROVE file[j] = Entry(file[j].path, file[j].data)
    OBVIOUS
  <2>1. file[j] \in Known
    BY <1>1
  <2>2. ASSUME NEW c \in created, file[j] \in ToSet(c)
        PROVE  IsEntry(file[j])
    <3>1. PICK p \in Payloads, h \in BOOLEAN, s \in LogOutcomes : IsBundle(c, p, h, s)
      BY DEF BundleIInv, CreatedOK
    <3> QED
      BY <2>2, <3>1, BundleEntries DEF IsBundle
  <2>3. IsEntry(file[j])
    BY <2>1, <2>2, KnownEntries
  <2> QED
    BY <2>3 DEF IsEntry
<1>13. /\ DataOf(file, "bundle-manifest.json") = own
       /\ DataOf(file, "bundle-manifest.sig") = ownSignature
  BY <1>10, <1>11 DEF manifest, signature
<1>14. Covered(file, own) /\ Digests(file, own, ownSignature)
  BY <1>2, <1>10, <1>11
<1>15. file = Assembled(own, ownSignature)
  BY <1>1, <1>9, <1>12, <1>13, <1>14, AssembledIsAll
<1> QED
  BY <1>7, <1>15

LEMMA LogsAreSafe == BundleIInv => OnlySafeLogs
<1> SUFFICES ASSUME BundleIInv, NEW b \in created, Has(b, "logs/raw.ndjson")
             PROVE  /\ ToSet(DataOf(b, "logs/raw.ndjson")) \subseteq {"clean", "redacted"}
                    /\ runs[DataOf(b, "receipt.json").payload].isPublic
  BY DEF OnlySafeLogs
<1>1. PICK payload \in Payloads, hasContract \in BOOLEAN, state \in LogOutcomes :
             IsBundle(b, payload, hasContract, state)
  BY DEF BundleIInv, CreatedOK
<1>2. /\ DataOf(b, "receipt.json") = issued[payload]
      /\ Included(state) /\ DataOf(b, "logs/raw.ndjson") = SafeLog(state)
  BY <1>1, BundleData DEF IsBundle
<1>3. issued[payload].payload = payload
  BY <1>1, IssuedReceipt DEF IsBundle, BundleIInv
<1> QED
  BY <1>1, <1>2, <1>3, SafeLogs, OutcomesAreLogs DEF IsBundle

LEMMA BundlesTyped == BundleIInv => BundleTypeOK
<1> SUFFICES ASSUME BundleIInv PROVE BundleTypeOK
  OBVIOUS
<1>1. ASSUME NEW b \in created
      PROVE  /\ DataOf(b, "receipt.json") \in Receipts
             /\ Has(b, "logs/raw.ndjson") <=> DataOf(b, "bundle-manifest.json").omission = "none"
  <2>1. PICK payload \in Payloads, hasContract \in BOOLEAN, state \in LogOutcomes :
               IsBundle(b, payload, hasContract, state)
    BY DEF BundleIInv, CreatedOK
  <2>2. /\ DataOf(b, "receipt.json") = issued[payload]
        /\ Has(b, "logs/raw.ndjson") <=> Included(state)
        /\ DataOf(b, "bundle-manifest.json") = Manifest(issued[payload], hasContract, state)
    BY <2>1, BundleData DEF IsBundle
  <2>3. Manifest(issued[payload], hasContract, state).omission = "none" <=> Included(state)
    BY DEF Manifest, Omission
  <2> QED
    BY <2>1, <2>2, <2>3 DEF IsBundle, Receipts
<1> QED
  BY <1>1 DEF BundleTypeOK, BundleIInv

LEMMA BundleInitial == BundleInit => BundleIInv
<1> SUFFICES ASSUME BundleInit PROVE BundleIInv
  OBVIOUS
<1>1. KeysTypeOK
  BY KeysInitial DEF BundleInit
<1>2. RunKinds \subseteq RunOutcome
  BY EvidenceBundleAssumption DEF RunOutcome, LogOutcomes
<1>3. runs \in [Payloads -> RunOutcome]
  BY <1>2 DEF BundleInit
<1> QED
  BY <1>1, <1>3, EvidenceBundleAssumption DEF BundleInit, BundleIInv, CreatedOK

(* What has been downloaded stays what it is. *)
LEMMA CreatedKept ==
  ASSUME CreatedOK, UNCHANGED created,
         \A p \in Payloads : /\ issued[p] # None => issued'[p] = issued[p]
                             /\ runs'[p].isPublic = runs[p].isPublic
  PROVE  CreatedOK'
<1> SUFFICES ASSUME NEW b \in created
             PROVE  \E payload \in Payloads, hasContract \in BOOLEAN, state \in LogOutcomes :
                      IsBundle(b, payload, hasContract, state)'
  BY DEF CreatedOK
<1>1. PICK payload \in Payloads, hasContract \in BOOLEAN, state \in LogOutcomes :
             IsBundle(b, payload, hasContract, state)
  BY DEF CreatedOK
<1>2. issued'[payload] = issued[payload] /\ runs'[payload].isPublic = runs[payload].isPublic
  BY <1>1 DEF IsBundle
<1>3. IsBundle(b, payload, hasContract, state)'
  BY <1>1, <1>2 DEF IsBundle
<1> QED
  BY <1>3

LEMMA DownloadStep ==
  ASSUME BundleIInv, NEW payload \in Payloads, Download(payload)
  PROVE  BundleIInv'
<1> DEFINE receipt == issued[payload]
           key == SignerFor(config, receipt.keyId)
           state == Available(runs[payload])
           bundle == Bundle(receipt, runs[payload].contract, state, key)
<1>1. /\ receipt # None /\ MaySign(receipt)
      /\ created' = created \union {bundle} /\ file' = bundle /\ damage' = 0
      /\ UNCHANGED <<config, issued, runs>>
  BY DEF Download, keyVars
<1>2. key = receipt.signature.key
  <2>1. PICK e \in KeyEntries : receipt.keyId = e.id /\ e.id \in Ids
                                /\ receipt.payload = payload
    BY <1>1, IssuedReceipt DEF BundleIInv
  <2>2. key # None /\ Reason(receipt, <<[id |-> receipt.keyId, key |-> key]>>) = "NONE"
    BY <1>1 DEF MaySign
  <2>3. key \in Keys
    <3>1. config.signers \in Seq(KeyEntries)
      BY ConfigLists DEF BundleIInv, KeysTypeOK
    <3> QED
      BY <2>2, <3>1, Finds DEF SignerFor, Ring
  <2>4. Find(<<[id |-> receipt.keyId, key |-> key]>>, receipt.keyId) = key
    BY <2>1, <2>3, SingletonFound
  <2> HIDE DEF receipt, key
  <2>5. receipt.signature = [key |-> key, text |-> receipt.payload]
    BY <2>2, <2>4 DEF Reason
  <2> QED
    BY <2>5
<1>3. runs[payload] \in RunOutcome
  BY DEF BundleIInv
<1>4. /\ runs[payload].contract \in BOOLEAN /\ state \in LogOutcomes
      /\ Included(state) => runs[payload].isPublic
  BY <1>3 DEF RunOutcome, Available, LogOutcomes, Included, Retained
<1>5. ASSUME NEW b, b = bundle
      PROVE  \E p \in Payloads, hasContract \in BOOLEAN, s \in LogOutcomes :
               IsBundle(b, p, hasContract, s)'
  <2>1. PICK hasContract \in BOOLEAN, s \in LogOutcomes :
               hasContract = runs[payload].contract /\ s = state
    BY <1>4
  <2>2. b = Bundle(receipt, hasContract, s, receipt.signature.key)
    BY <1>2, <1>5, <2>1
  <2>3. receipt' = receipt /\ (Included(s) => runs'[payload].isPublic) /\ receipt' # None
    BY <1>1, <1>4, <2>1
  <2> HIDE DEF receipt
  <2>4. IsBundle(b, payload, hasContract, s)'
    BY <2>2, <2>3 DEF IsBundle, receipt
  <2> QED
    BY <2>4
<1>6. CreatedOK'
  <2> SUFFICES ASSUME NEW b \in created'
               PROVE  \E p \in Payloads, hasContract \in BOOLEAN, s \in LogOutcomes :
                        IsBundle(b, p, hasContract, s)'
    BY DEF CreatedOK
  <2>1. CASE b = bundle
    BY <1>5, <2>1
  <2>2. CASE b \in created
    <3>1. PICK p \in Payloads, hasContract \in BOOLEAN, s \in LogOutcomes :
                 IsBundle(b, p, hasContract, s)
      BY <2>2 DEF BundleIInv, CreatedOK
    <3>2. IsBundle(b, p, hasContract, s)'
      BY <1>1, <3>1 DEF IsBundle
    <3> QED
      BY <3>2
  <2> QED
    BY <1>1, <2>1, <2>2
<1>7. bundle \in Seq(Known')
  <2>1. bundle \in Seq(ToSet(bundle))
    BY <1>4, BundleEntries
  <2>2. ToSet(bundle) \subseteq Known'
    BY <1>1 DEF Known, Downloaded
  <2> HIDE DEF bundle
  <2> QED
    BY <2>1, <2>2
<1>8. KeysTypeOK'
  BY <1>1, KeysStep DEF BundleIInv, keyVars
<1> QED
  BY <1>1, <1>6, <1>7, <1>8, EvidenceBundleAssumption DEF BundleIInv

LEMMA DamageStep ==
  ASSUME BundleIInv, Damage
  PROVE  BundleIInv'
<1>1. /\ file # None /\ damage < MaxDamage /\ damage' = damage + 1
      /\ UNCHANGED <<config, issued, runs, created>>
  BY DEF Damage, keyVars
<1>2. file \in Seq(Known) /\ Known' = Known
  BY <1>1 DEF BundleIInv, Known, Downloaded, Blanks
<1>3. \A b \in created : b \in Seq(Known) /\ \A e \in ToSet(b) : IsEntry(e)
  <2> SUFFICES ASSUME NEW b \in created PROVE b \in Seq(Known) /\ \A e \in ToSet(b) : IsEntry(e)
    OBVIOUS
  <2>1. PICK p \in Payloads, h \in BOOLEAN, s \in LogOutcomes : IsBundle(b, p, h, s)
    BY DEF BundleIInv, CreatedOK
  <2>2. b \in Seq(ToSet(b)) /\ \A e \in ToSet(b) : IsEntry(e)
    BY <2>1, BundleEntries DEF IsBundle
  <2>3. ToSet(b) \subseteq Known
    BY KnownEntries
  <2> QED
    BY <2>2, <2>3
<1>4. \A e \in Known : IsEntry(e)
  BY <1>3, KnownEntries
<1>5. \A path \in BundlePaths : Entry(path, Junk) \in Known
  BY KnownEntries
<1>6. \A k \in DOMAIN file : file[k] \in Known /\ IsEntry(file[k]) /\ file[k].path \in BundlePaths
  BY <1>2, <1>4 DEF IsEntry
<1>7. ASSUME NEW k \in DOMAIN file, NEW data, Entry(file[k].path, data) \in Known
      PROVE  [file EXCEPT ![k].data = data] \in Seq(Known)
  <2>1. [file[k] EXCEPT !.data = data] = Entry(file[k].path, data)
    BY <1>6 DEF IsEntry, Entry
  <2>2. [file EXCEPT ![k].data = data] = [file EXCEPT ![k] = Entry(file[k].path, data)]
    BY <2>1
  <2> QED
    BY <1>2, <1>7, <2>2
<1>8. ASSUME NEW k \in DOMAIN file, file' = RemoveAt(file, k)
      PROVE  file' \in Seq(Known)
  BY <1>2, <1>8 DEF RemoveAt
<1>9. ASSUME NEW k \in DOMAIN file, file' = [file EXCEPT ![k].data = Junk]
      PROVE  file' \in Seq(Known)
  BY <1>5, <1>6, <1>7, <1>9
<1>10. ASSUME NEW k \in DOMAIN file, NEW b \in created, Has(b, file[k].path),
              file' = [file EXCEPT ![k].data = DataOf(b, file[k].path)]
       PROVE  file' \in Seq(Known)
  <2>1. b \in Seq(Known)
    BY <1>3
  <2>2. PICK j \in DOMAIN b : b[j].path = file[k].path /\ DataOf(b, file[k].path) = b[j].data
    BY <1>10, <2>1, FoundData
  <2>3. b[j] \in Known /\ IsEntry(b[j])
    BY <1>4, <2>1
  <2> QED
    BY <1>7, <1>10, <2>2, <2>3 DEF IsEntry
<1>11. ASSUME NEW b \in created, NEW k \in DOMAIN b \intersect DOMAIN file,
              file' = InsertAt(file, k, b[k])
       PROVE  file' \in Seq(Known)
  <2>1. b[k] \in Known
    BY <1>3
  <2> QED
    BY <1>2, <1>11, <2>1 DEF InsertAt
<1>12. file' \in Seq(Known)
  BY <1>8, <1>9, <1>10, <1>11 DEF Damage
<1>13. KeysTypeOK' /\ CreatedOK'
  BY <1>1, KeysStep, CreatedKept DEF BundleIInv, keyVars
<1> QED
  BY <1>1, <1>2, <1>12, <1>13, EvidenceBundleAssumption DEF BundleIInv

LEMMA BundleStep == BundleIInv /\ [BundleNext]_bundleVars => BundleIInv'
<1> SUFFICES ASSUME BundleIInv, [BundleNext]_bundleVars PROVE BundleIInv'
  OBVIOUS
<1>1. ASSUME [KeysNext]_keyVars, UNCHANGED <<runs, created, file, damage>>
      PROVE  BundleIInv'
  <2>1. \A p \in Payloads : issued[p] # None => issued'[p] = issued[p]
    <3>1. CASE Reconfigure \/ UNCHANGED keyVars
      BY <3>1 DEF Reconfigure, keyVars
    <3>2. ASSUME NEW payload \in Payloads, IssueReceipt(payload)
          PROVE  \A p \in Payloads : issued[p] # None => issued'[p] = issued[p]
      BY <3>2 DEF IssueReceipt, BundleIInv, KeysTypeOK
    <3> QED
      BY <1>1, <3>1, <3>2 DEF KeysNext
  <2>2. CreatedOK' /\ Known' = Known
    BY <1>1, <2>1, CreatedKept DEF BundleIInv, Known, Downloaded, Blanks
  <2>3. KeysTypeOK'
    BY <1>1, KeysStep DEF BundleIInv
  <2> QED
    BY <1>1, <2>2, <2>3 DEF BundleIInv
<1>2. CASE UNCHANGED bundleVars
  BY <1>1, <1>2 DEF bundleVars
<1>3. ASSUME NEW payload \in Payloads, Expire(payload)
      PROVE  BundleIInv'
  <2>1. /\ runs' = [runs EXCEPT ![payload].logs = <<"expired">>]
        /\ UNCHANGED <<config, issued, created, file, damage>>
    BY <1>3 DEF Expire, keyVars
  <2>2. runs' \in [Payloads -> RunOutcome]
    <3>1. [runs[payload] EXCEPT !.logs = <<"expired">>] \in RunOutcome
      BY DEF BundleIInv, RunOutcome, LogOutcomes
    <3>2. runs' = [runs EXCEPT ![payload] = [runs[payload] EXCEPT !.logs = <<"expired">>]]
      BY <2>1
    <3> QED
      BY <3>1, <3>2 DEF BundleIInv
  <2>3. \A p \in Payloads : runs'[p].isPublic = runs[p].isPublic
    BY <2>1 DEF BundleIInv, RunOutcome
  <2>4. KeysTypeOK' /\ CreatedOK' /\ Known' = Known
    BY <2>1, <2>3, KeysStep, CreatedKept DEF BundleIInv, Known, Downloaded, Blanks, keyVars
  <2> QED
    BY <2>1, <2>2, <2>4 DEF BundleIInv
<1> QED
  BY <1>1, <1>2, <1>3, DownloadStep, DamageStep DEF BundleNext, Keep

(* A bundle that was downloaded is accepted as long as its key is          *)
(* published, nothing else ever is, and no bundle holds what may not be    *)
(* shown: for any runs, keys, damage and downloads.                        *)
THEOREM BundlesAreAlwaysSound == BundleSpec => []BundlesAreSound
<1>1. BundleIInv => BundlesAreSound
  BY CreatedAreValid, AcceptedWasCreated, LogsAreSafe DEF BundlesAreSound
<1> QED
  BY <1>1, BundleInitial, BundleStep, PTL DEF BundleSpec

-----------------------------------------------------------------------------
(* The rest of the types of init: what it has created, and how it ended. *)
InitOutcomes ==
  /\ createdFiles \subseteq File
  /\ initOutcome \in {"none", "done", "refused", "failed", "killed"}
  /\ stuck \in {TRUE, FALSE} /\ faults \in 0..MaxFaults

LEMMA InitOutcomesStep ==
  SecretsInitIInv /\ InitOutcomes /\ [SecretsInitNext]_secretsInitVars => InitOutcomes'
<1> SUFFICES ASSUME SecretsInitIInv, InitOutcomes, [SecretsInitNext]_secretsInitVars
             PROVE  InitOutcomes'
  OBVIOUS
<1>1. ASSUME nextCall # 0 PROVE Calls[nextCall][2] \in File
  BY <1>1, CallsOf DEF SecretsInitIInv, File
<1>2. ASSUME Fault PROVE faults' \in 0..MaxFaults
  BY <1>2, SecretsInitAssumption DEF Fault, InitOutcomes
<1>3. CASE UNCHANGED secretsInitVars
  BY <1>3 DEF secretsInitVars, InitOutcomes
<1>4. CASE Begin
  BY <1>4 DEF Begin, InitOutcomes
<1>5. CASE Succeed
  BY <1>1, <1>5 DEF Succeed, Marked, InitOutcomes
<1>6. CASE Fail
  BY <1>2, <1>6 DEF Fail, InitOutcomes
<1>7. CASE CleanUp
  BY <1>2, <1>7 DEF CleanUp, InitOutcomes
<1>8. CASE Killed
  BY <1>2, <1>8 DEF Killed, InitOutcomes
<1>9. CASE Foreign
  BY <1>2, <1>9 DEF Foreign, InitOutcomes
<1> QED
  BY <1>3, <1>4, <1>5, <1>6, <1>7, <1>8, <1>9 DEF SecretsInitNext

LEMMA SecretsInitTyped == SecretsInitIInv /\ InitOutcomes => SecretsInitTypeOK
<1> SUFFICES ASSUME SecretsInitIInv, InitOutcomes PROVE SecretsInitTypeOK
  OBVIOUS
<1>1. ASSUME nextCall # 0
      PROVE  createdFiles = {Calls[i][2] : i \in 1..nextCall - 1}
  <2> DEFINE opened == {Calls[i][2] : i \in 1..nextCall - 1}
  <2>1. nextCall \in 1..8 /\ \A i \in 1..nextCall - 1 : i \in 1..8
    BY <1>1 DEF SecretsInitIInv, InitProgress
  <2>2. CASE nextCall = 1
    BY <2>2 DEF SecretsInitIInv, InitProgress
  <2>3. CASE nextCall \in 2..4
    <3>1. 1 \in 1..nextCall - 1 /\ \A i \in 1..nextCall - 1 : i \in {1, 2, 3}
      BY <2>3
    <3>2. opened = {"public"}
      BY <2>1, <3>1, CallsOf
    <3>3. createdFiles = {"public"}
      BY <2>3 DEF SecretsInitIInv, InitProgress
    <3> QED
      BY <3>2, <3>3
  <2>4. CASE nextCall \in 5..8
    <3>1. 1 \in 1..nextCall - 1 /\ 4 \in 1..nextCall - 1
      BY <2>4
    <3>2. Calls[1][2] = "public" /\ Calls[4][2] = "env"
      BY CallsOf
    <3>3. opened = File
      BY <2>1, <3>1, <3>2, CallsOf DEF File
    <3>4. createdFiles = File
      BY <2>4 DEF SecretsInitIInv, InitProgress
    <3> QED
      BY <3>3, <3>4
  <2> QED
    BY <2>1, <2>2, <2>3, <2>4
<1>2. nextCall # 0 => cleaning = <<>>
  BY DEF SecretsInitIInv, InitProgress
<1> QED
  BY <1>1, <1>2, CallsOf DEF SecretsInitTypeOK, SecretsInitIInv, InitOutcomes

LEMMA SecretsApplyTyped == SecretsApplyIInv => SecretsApplyTypeOK
<1> SUFFICES ASSUME SecretsApplyIInv PROVE SecretsApplyTypeOK
  OBVIOUS
<1>1. stage # "idle" => envFile # None /\ planPosition \in DOMAIN ApplyPlan(envFile)
  BY SecretsApplyAssumption DEF SecretsApplyIInv, PlanIsFollowed
<1>2. stage = "apply" => \A n \in staleNames : remote[n] # None
  BY DEF SecretsApplyIInv, StaleIsPublished
<1> QED
  BY <1>1, <1>2 DEF SecretsApplyTypeOK, SecretsApplyIInv

(* Every part keeps its variables within their types, for any runs, keys,  *)
(* contracts, env files and any interleaving of what each part does.       *)
THEOREM ReceiptsAlwaysTyped ==
  ReceiptStoreSpec /\ BundleSpec /\ ZipArchiveSpec /\ AcceptanceSpec /\ SecretsInitSpec /\ SecretsApplySpec
    => []ReceiptsTypeOK
<1>1. ReceiptStoreIInv => ReceiptStoreTypeOK
  BY DEF ReceiptStoreIInv
<1>2. BundleIInv => KeysTypeOK /\ BundleTypeOK
  BY BundlesTyped DEF BundleIInv
<1>3. SecretsInitInit => InitOutcomes
  <2>1. 0 \in 0..MaxFaults
    BY SecretsInitAssumption
  <2> QED
    BY <2>1 DEF SecretsInitInit, InitOutcomes
<1>4. ReceiptStoreSpec => []ReceiptStoreIInv
  BY ReceiptStoreInitial, ReceiptStoreStep, PTL DEF ReceiptStoreSpec
<1>5. BundleSpec => []BundleIInv
  BY BundleInitial, BundleStep, PTL DEF BundleSpec
<1>6. ZipArchiveSpec => []ArchiveIInv
  BY ArchiveInitial, ArchiveStep, PTL DEF ZipArchiveSpec
<1>7. SecretsInitSpec => [](SecretsInitIInv /\ InitOutcomes)
  BY <1>3, SecretsInitInitial, SecretsInitStep, InitOutcomesStep, PTL DEF SecretsInitSpec
<1>8. SecretsApplySpec => []SecretsApplyIInv
  BY SecretsApplyInitial, SecretsApplyStep, PTL DEF SecretsApplySpec
<1>9. /\ ReceiptStoreTypeOK /\ KeysTypeOK /\ BundleTypeOK /\ ZipArchiveTypeOK
       /\ AcceptanceTypeOK /\ SecretsInitTypeOK /\ SecretsApplyTypeOK
       => ReceiptsTypeOK
  BY DEF ReceiptsTypeOK
<1> QED
  BY <1>1, <1>2, <1>4, <1>5, <1>6, <1>7, <1>8, <1>9, ArchiveTyped, SecretsInitTyped,
     SecretsApplyTyped, AcceptanceTypeCorrect, PTL
=============================================================================
