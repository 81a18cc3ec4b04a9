------------------------------ MODULE RunStore ------------------------------
(***************************************************************************)
(* The SQLite persistence seam of the API: the run_metadata table (joined  *)
(* with signed_receipts) and the reproducibility_jobs table.               *)
(*                                                                         *)
(* Every method of RunStore is one SQL statement or one BEGIN IMMEDIATE    *)
(* transaction, so it is one atomic change of the table.  It is written    *)
(* here as an operator from a table to a table, guarded by the method's    *)
(* early returns: this module lets any caller invoke any method at any     *)
(* moment, and Orchestration.tla composes the methods the way              *)
(* orchestration.ts calls them.                                            *)
(***************************************************************************)
EXTENDS Schema, Integers, FiniteSets

CONSTANTS
  Run,           \* run ids: randomUUID() draws them, a row is never deleted
  Job,           \* reproducibility job ids
  Key,           \* idempotency keys of callers
  Request,       \* verification requests, told apart by their fingerprint
  Verdict,       \* verdicts a report can carry
  Stage,         \* stages a heartbeat can announce
  Fingerprint,   \* SHA-256 fingerprints of delivered results
  ErrorCode,     \* codes of a system error
  WaitingLimit   \* how many runs may wait (5 in the code)

VARIABLES rows, jobs

storeVars == <<rows, jobs>>

Public == "anonymous"

Terminal == {"COMPLETED", "TIMEOUT", "SYSTEM_ERROR"}

Status == {"ABSENT", "QUEUED", "RUNNING"} \cup Terminal

(* What the properties tell apart of a VerificationReport. *)
Report == [run : Run, request : Request, verdict : Verdict]

(* The UNIQUE pair (idempotency_scope, idempotency_key).                   *)
Owner == ({Public} \cup Job) \X (Key \cup {"baseline", "candidate"})

Row == [status : Status, sequence : Nat, owner : Owner \cup {None},
        request : Request \cup {None}, stage : Stage \cup {"SANDBOX", None},
        report : Report \cup {None}, receipt : Report \cup {None},
        fingerprint : Fingerprint \cup {None}, error : ErrorCode \cup {None}]

JobRow == [key : Key, request : Request, baseline : Run, candidate : Run]

ASSUME StoreAssumption ==
  /\ WaitingLimit \in Nat
  /\ "API_RESTARTED" \in ErrorCode
  /\ Public \notin Job
  /\ None \notin Run \cup Job \cup Request \cup Stage \cup {"SANDBOX"} \cup Fingerprint
                 \cup ErrorCode \cup Report \cup Owner \cup JobRow

NoRow == [status |-> "ABSENT", sequence |-> 0, owner |-> None,
          request |-> None, stage |-> None, report |-> None,
          receipt |-> None, fingerprint |-> None, error |-> None]

-----------------------------------------------------------------------------
(* Queries. *)

Present(db) == {r \in Run : db[r].status # "ABSENT"}
Waiting(db) == {r \in Run : db[r].status = "QUEUED"}
Running(db) == {r \in Run : db[r].status = "RUNNING"}
Sequences(db) == {db[r].sequence : r \in Run}

(* waitingCount *)
WaitingCount(db) == Cardinality(Waiting(db))

(* nextSequence: COALESCE(MAX(queue_sequence), 0) + 1; absent rows hold 0. *)
NextSequence(db) ==
  1 + CHOOSE m \in Sequences(db) : \A n \in Sequences(db) : n <= m

(* queuePosition: how many queued rows have this sequence or a lower one.  *)
QueuePosition(db, r) ==
  Cardinality({w \in Waiting(db) : db[w].sequence <= db[r].sequence})

(* The row an ORDER BY queue_sequence ASC LIMIT 1 returns. *)
FirstInLine(db, r) ==
  /\ r \in Waiting(db)
  /\ \A w \in Waiting(db) : db[r].sequence <= db[w].sequence

(* resultDeliveryOutcome *)
ResultDeliveryOutcome(db, r, print) ==
  CASE db[r].status = "ABSENT"       -> "RUN_NOT_FOUND"
    [] db[r].status # "ABSENT" /\ db[r].fingerprint = None -> "PENDING"
    [] OTHER -> IF db[r].fingerprint = print THEN "ACCEPTED"
                                             ELSE "RESULT_CONFLICT"

-----------------------------------------------------------------------------
(* The methods, as changes of the table. *)

(* insertQueuedRun *)
Inserted(db, r, owner, request, sequence) ==
  [db EXCEPT ![r] = [NoRow EXCEPT !.status = "QUEUED", !.owner = owner,
                                  !.request = request, !.sequence = sequence]]

(* Fault: create() looks only among the rows that have not ended. *)
FaultyKeyTaken(db, k) ==
  \E r \in Waiting(db) \cup Running(db) : db[r].owner = <<Public, k>>

(* The row create() finds for its scope and key, if there is one. *)
KeyTaken(db, k) == \E r \in Present(db) : db[r].owner = <<Public, k>>

(* create() returns "replayed" for this key and request. *)
Replayed(db, k, q) ==
  \E r \in Present(db) : db[r].owner = <<Public, k>> /\ db[r].request = q

(* Fault: claimNext() does not look for a row that is RUNNING. *)
FaultyClaimable(db, r) == FirstInLine(db, r)

(* claimNext() *)
Claimable(db, r) == Running(db) = {} /\ FirstInLine(db, r)

Claimed(db, r) ==
  [db EXCEPT ![r] = [@ EXCEPT !.status = "RUNNING", !.stage = "SANDBOX"]]

(* Faults: requeue() clears the sequence with the other columns; sends the *)
(* run to the back of the line; does not ask for a RUNNING row.            *)
NullingRequeued(db, r) ==
  IF r \in Running(db) THEN [db EXCEPT ![r] = [NoRow EXCEPT
       !.status = "QUEUED", !.owner = db[r].owner, !.request = db[r].request,
       !.sequence = None]] ELSE db

BackOfLineRequeued(db, r) ==
  IF r \in Running(db)
  THEN Inserted(db, r, db[r].owner, db[r].request, NextSequence(db))
  ELSE db

UnguardedRequeued(db, r) ==
  IF r \in Present(db)
  THEN Inserted(db, r, db[r].owner, db[r].request, db[r].sequence)
  ELSE db

(* requeue(): the row returns to its place, queue_sequence is not touched. *)
Requeued(db, r) ==
  IF r \in Running(db)
  THEN [db EXCEPT ![r] = [@ EXCEPT !.status = "QUEUED", !.stage = None,
                                   !.report = None, !.fingerprint = None,
                                   !.error = None]]
  ELSE db

(* heartbeat(): a null stage only checks the row. *)
Heartbeaten(db, r, stage) ==
  IF r \in Running(db) /\ stage # None
  THEN [db EXCEPT ![r].stage = stage]
  ELSE db

(* Fault: complete() does not compare the report with the row. *)
FaultyCompletable(db, r, status, report, receipt) ==
  /\ report.run = r
  /\ status = "TIMEOUT" => report.verdict = "INCONCLUSIVE"
  /\ receipt = report
  /\ r \in Running(db)

(* complete() writes nothing unless report, receipt and row agree. *)
Completable(db, r, status, report, receipt) ==
  /\ report.run = r
  /\ status = "TIMEOUT" => report.verdict = "INCONCLUSIVE"
  /\ receipt = report
  /\ r \in Running(db)
  /\ report.request = db[r].request

(* Fault: the receipt is not saved with the outcome. *)
FaultyCompleted(db, r, status, report, receipt, print) ==
  [db EXCEPT ![r] = [@ EXCEPT !.status = status, !.stage = None,
                              !.report = report, !.fingerprint = print]]

Completed(db, r, status, report, receipt, print) ==
  [db EXCEPT ![r] = [@ EXCEPT !.status = status, !.stage = None,
                              !.report = report, !.receipt = receipt,
                              !.fingerprint = print, !.error = None]]

(* Fault: systemError() without WHERE status = 'RUNNING'. *)
FaultySystemErrored(db, r, code, print) ==
  IF r \in Present(db)
  THEN [db EXCEPT ![r] = [@ EXCEPT !.status = "SYSTEM_ERROR", !.stage = None,
                                   !.report = None, !.fingerprint = print,
                                   !.error = code]]
  ELSE db

(* systemError(); also the row that recoverInterruptedRuns() writes. *)
SystemErrored(db, r, code, print) ==
  IF r \in Running(db)
  THEN [db EXCEPT ![r] = [@ EXCEPT !.status = "SYSTEM_ERROR", !.stage = None,
                                   !.report = None, !.fingerprint = print,
                                   !.error = code]]
  ELSE db

(* recoverInterruptedRuns() *)
Recovered(db) ==
  [r \in Run |-> SystemErrored(db, r, "API_RESTARTED", None)[r]]

-----------------------------------------------------------------------------
StoreInit ==
  /\ rows = [r \in Run |-> NoRow]
  /\ jobs = [j \in Job |-> None]

(* Fault: one run too many is admitted. *)
FaultyCreate(k, q) ==
  /\ ~KeyTaken(rows, k)
  /\ WaitingCount(rows) <= WaitingLimit
  /\ \E r \in Run \ Present(rows) :
       rows' = Inserted(rows, r, <<Public, k>>, q, NextSequence(rows))
  /\ UNCHANGED jobs

(* create() answers "created". *)
Create(k, q) ==
  /\ ~KeyTaken(rows, k)
  /\ WaitingCount(rows) < WaitingLimit
  /\ \E r \in Run \ Present(rows) :
       rows' = Inserted(rows, r, <<Public, k>>, q, NextSequence(rows))
  /\ UNCHANGED jobs

(* createReproducibility() answers "created": both children or neither.    *)
CreateReproducibility(k, q) ==
  /\ \A j \in Job : jobs[j] # None => jobs[j].key # k
  /\ WaitingCount(rows) + 2 <= WaitingLimit
  /\ \E j \in {i \in Job : jobs[i] = None},
        b \in Run \ Present(rows), c \in Run \ Present(rows) :
       LET n == NextSequence(rows)
           baseline == Inserted(rows, b, <<j, "baseline">>, q, n)
       IN  /\ b # c
           /\ rows' = Inserted(baseline, c, <<j, "candidate">>, q, n + 1)
           /\ jobs' = [jobs EXCEPT ![j] = [key |-> k, request |-> q,
                                           baseline |-> b, candidate |-> c]]

ClaimNext(r) ==
  /\ Claimable(rows, r)
  /\ rows' = Claimed(rows, r)
  /\ UNCHANGED jobs

Requeue(r) ==
  /\ rows' = Requeued(rows, r)
  /\ UNCHANGED jobs

Heartbeat(r, stage) ==
  /\ rows' = Heartbeaten(rows, r, stage)
  /\ UNCHANGED jobs

Complete(r, status, report, receipt, print) ==
  /\ Completable(rows, r, status, report, receipt)
  /\ rows' = Completed(rows, r, status, report, receipt, print)
  /\ UNCHANGED jobs

SystemError(r, code, print) ==
  /\ rows' = SystemErrored(rows, r, code, print)
  /\ UNCHANGED jobs

RecoverInterruptedRuns ==
  /\ rows' = Recovered(rows)
  /\ UNCHANGED jobs

StoreNext ==
  \/ \E k \in Key, q \in Request : Create(k, q)
  \/ \E k \in Key, q \in Request : CreateReproducibility(k, q)
  \/ \E r \in Run : ClaimNext(r)
  \/ \E r \in Run : Requeue(r)
  \/ \E r \in Run, stage \in Stage : Heartbeat(r, stage)
  \/ \E r \in Run, status \in {"COMPLETED", "TIMEOUT"}, report \in Report,
        receipt \in Report, print \in Fingerprint :
       Complete(r, status, report, receipt, print)
  \/ \E r \in Run, code \in ErrorCode, print \in Fingerprint \cup {None} :
       SystemError(r, code, print)
  \/ RecoverInterruptedRuns

StoreSpec == StoreInit /\ [][StoreNext]_storeVars

-----------------------------------------------------------------------------
(* Every column holds a value of its type.                                 *)
StoreTypeOK ==
  /\ rows \in [Run -> Row]
  /\ jobs \in [Job -> JobRow \cup {None}]

(* The MVP executes one run: claimNext() never starts a second one.        *)
OneRunning(db) == \A r, s \in Running(db) : r = s

SingleRunning == OneRunning(rows)

(* Queue order survives claims, refusals and recoveries: when a run has    *)
(* left the queue, every run admitted before it has already ended.  A      *)
(* requeued run therefore can never be overtaken, and the candidate of a   *)
(* reproducibility job never starts before its baseline has ended.         *)
InTurn(db) ==
  \A r, s \in Present(db) :
    db[r].sequence < db[s].sequence /\ db[s].status # "QUEUED"
      => db[r].status \in Terminal

NoOvertaking == InTurn(rows)

(* The backlog is bounded, although requeue() does not ask for room: the   *)
(* running run plus the waiting ones never exceed the limit by more than   *)
(* the running one.                                                        *)
Backlog(db) == Waiting(db) \cup Running(db)

BacklogBounded == Cardinality(Backlog(rows)) <= WaitingLimit + 1

(* Idempotency: two rows never share (scope, key) nor queue_sequence, so   *)
(* the UNIQUE constraints of the schema can never make an insert fail.     *)
Distinct(db) ==
  \A r, s \in Present(db) :
    r # s => /\ db[r].owner # db[s].owner
             /\ db[r].sequence # db[s].sequence

UniqueRows == Distinct(rows)

(* The queue as a whole, whatever is called in whatever order: one run     *)
(* at a time, in the order of admission, within the bound, and no insert   *)
(* that violates a constraint.                                             *)
QueueIsSound ==
  /\ SingleRunning
  /\ NoOvertaking
  /\ BacklogBounded
  /\ UniqueRows

(* A reproducibility job owns two rows of its own request, next to each    *)
(* other in the queue, and the candidate only leaves the queue after the   *)
(* baseline has ended.                                                     *)
ChildrenInOrder ==
  \A j \in Job : jobs[j] # None =>
    LET b == jobs[j].baseline
        c == jobs[j].candidate
    IN  /\ rows[b].owner = <<j, "baseline">>
        /\ rows[c].owner = <<j, "candidate">>
        /\ rows[b].request = jobs[j].request
        /\ rows[c].request = jobs[j].request
        /\ rows[c].sequence = rows[b].sequence + 1
        /\ rows[c].status # "QUEUED" => rows[b].status \in Terminal

(* What inflate() relies on: a run that completed or timed out has the     *)
(* report and the receipt of its own request, a timeout is inconclusive,   *)
(* an unfinished run has no result, and a system error has no report.      *)
OutcomeConsistent ==
  \A r \in Run : LET row == rows[r] IN
    /\ row.status \in {"COMPLETED", "TIMEOUT"} =>
         /\ row.report \in Report
         /\ row.report.run = r
         /\ row.report.request = row.request
         /\ row.receipt = row.report
         /\ row.fingerprint # None
         /\ row.error = None
    /\ row.status = "TIMEOUT" => row.report.verdict = "INCONCLUSIVE"
    /\ row.status = "SYSTEM_ERROR" =>
         row.report = None /\ row.receipt = None /\ row.error # None
    /\ row.status \in {"ABSENT", "QUEUED", "RUNNING"} =>
         /\ row.report = None /\ row.receipt = None
         /\ row.fingerprint = None /\ row.error = None
    /\ row.stage # None <=> row.status = "RUNNING"

(* A terminal outcome is final: late failures, late results, requeues and  *)
(* recoveries never rewrite it, and a run never changes its owner, its     *)
(* request or its place in the queue.                                      *)
TerminalIsFinal ==
  [][\A r \in Run :
       /\ rows[r].status \in Terminal => rows'[r] = rows[r]
       /\ rows[r].status # "ABSENT" =>
            /\ rows'[r].owner = rows[r].owner
            /\ rows'[r].request = rows[r].request
            /\ rows'[r].sequence = rows[r].sequence]_storeVars
=============================================================================
