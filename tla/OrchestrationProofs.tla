------------------------- MODULE OrchestrationProofs -------------------------
(***************************************************************************)
(* What the orchestrator and the runner keep true for any number of runs,  *)
(* any lease, and any number of crashes.                                   *)
(***************************************************************************)
EXTENDS Orchestration, RunStoreProofs

(* Every run has a request. *)
Asked(db) == \A r \in Present(db) : db[r].request \in Request

TableOK(db) == QueueOK(db) /\ Asked(db)

(* One method of the store, or none. *)
Turn(db, new) ==
  Appends(db, new) \/ AppendsPair(db, new) \/ Claims(db, new) \/ Settles(db, new)

(* Results on their way are results an execution has produced.             *)
ResultsOK ==
  /\ delivery \in [Run -> Delivery \cup {None}]
  /\ task \in [Run -> {"unknown", "executing", "awaiting", "retrying", "done"}]
  /\ resultMsgs \subseteq Run
  /\ \A r \in resultMsgs : delivery[r] \in Delivery
  /\ \A r \in Run : task[r] \in {"awaiting", "retrying"}
                      => delivery[r] \in Delivery

LEMMA TurnTableOK ==
  ASSUME NEW db, NEW new, TableOK(db), Turn(db, new)
  PROVE  TableOK(new)
<1> db \in [Run -> Row]
  BY DEF TableOK, QueueOK
<1>1. QueueOK(new)
  BY StepQueueOK DEF TableOK, Turn
<1>2. CASE Appends(db, new)
  BY <1>1, <1>2 DEF TableOK, Asked, Appends, Inserted, Present, NoRow
<1>3. CASE AppendsPair(db, new)
  <2>1. PICK b \in Run \ Present(db), c \in Run \ Present(db),
             ob \in Owner, oc \in Owner, q \in Request :
          new = Inserted(Inserted(db, b, ob, q, NextSequence(db)),
                         c, oc, q, NextSequence(db) + 1)
    BY <1>3 DEF AppendsPair
  <2>2. new[b].request = q /\ new[c].request = q
    BY <2>1 DEF Inserted, NoRow
  <2>3. \A r \in Run \ {b, c} : new[r] = db[r]
    BY <2>1 DEF Inserted
  <2> QED
    BY <1>1, <2>2, <2>3 DEF TableOK, Asked, Present
<1>4. CASE Claims(db, new)
  <2>1. SameIdentity(db, new)
    BY <1>4, ClaimedQueueOK DEF Claims, TableOK
  <2> QED
    BY <1>1, <2>1 DEF TableOK, Asked, SameIdentity, Present
<1>5. CASE Settles(db, new)
  BY <1>1, <1>5
     DEF TableOK, Asked, Settles, SettlesRunning, SameIdentity, Present
<1> QED
  BY <1>1, <1>2, <1>3, <1>4, <1>5 DEF TableOK, Turn

LEMMA IdleTurn ==
  ASSUME NEW db, db \in [Run -> Row]
  PROVE  Turn(db, db)
BY DEF Turn, Settles, SettlesRunning, SameIdentity

(* dispatchNext() claims a run of the table it is given, or leaves it.     *)
LEMMA DispatchNextTurn ==
  ASSUME NEW db, db \in [Run -> Row], NEW act, NEW remaining,
         DispatchNext(db, act, remaining)
  PROVE  Turn(db, rows')
<1>1. rows' = db \/ Claims(db, rows')
  BY DEF DispatchNext, Claims
<1> QED
  BY <1>1, IdleTurn DEF Turn

(* What result() writes for a result that is on its way.                   *)
LEMMA SettledTurn ==
  ASSUME TableOK(rows), ResultsOK, NEW r \in resultMsgs, NEW issued \in BOOLEAN
  PROVE  Settles(rows, Settled(r, issued))
<1> DEFINE d == delivery[r]
           report == [run |-> r, request |-> rows[r].request,
                      verdict |-> d.verdict]
<1>1. /\ rows \in [Run -> Row] /\ r \in Run /\ d \in Delivery
      /\ r \in Fingerprint
  BY OrchestrationAssumption DEF TableOK, QueueOK, ResultsOK
<1>2. \A code \in ErrorCode, print \in Fingerprint \cup {None} :
        Settles(rows, SystemErrored(rows, r, code, print))
  BY <1>1, SystemErroredSettles DEF Settles
<1>3. {"RUNNER_FAILURE", "RUNTIME_IMAGE_MISMATCH", "RECEIPT_ISSUANCE_FAILED"}
        \subseteq ErrorCode
  BY OrchestrationAssumption
<1>4. ASSUME d.status \notin {"SYSTEM_ERROR", "WRONG_RUNTIME"},
             Completable(rows, r, d.status, report, report)
      PROVE  Settles(rows, Completed(rows, r, d.status, report, report, r))
  <2>1. d.status \in {"COMPLETED", "TIMEOUT"} /\ d.verdict \in Verdict
    BY <1>1, <1>4, OrchestrationAssumption DEF Delivery
  <2>2. rows[r].request \in Request
    BY <1>1, <1>4 DEF Completable, Running, Present, TableOK, Asked
  <2>3. report \in Report
    BY <1>1, <2>1, <2>2 DEF Report
  <2> QED
    BY <1>1, <1>4, <2>1, <2>3, CompletedSettles DEF Settles
<1>5. CASE d.status = "SYSTEM_ERROR"
  BY <1>1, <1>2, <1>3, <1>5 DEF Settled
<1>6. CASE d.status = "WRONG_RUNTIME"
  BY <1>1, <1>2, <1>3, <1>6 DEF Settled
<1>7. CASE d.status \notin {"SYSTEM_ERROR", "WRONG_RUNTIME"}
  <2>1. Settled(r, issued) =
          IF issued /\ Completable(rows, r, d.status, report, report)
          THEN Completed(rows, r, d.status, report, report, r)
          ELSE SystemErrored(rows, r, "RECEIPT_ISSUANCE_FAILED", None)
    BY <1>7 DEF Settled
  <2> HIDE DEF d, report
  <2> QED
    BY <1>2, <1>3, <1>4, <1>7, <2>1
<1> QED
  BY <1>5, <1>6, <1>7

(* Every step of the system is at most two methods of the store, one after *)
(* the other.                                                              *)
TwoTurns(db, new) == \E mid : Turn(db, mid) /\ Turn(mid, new)

LEMMA SystemStep ==
  ASSUME TableOK(rows), ResultsOK, Next
  PROVE  TwoTurns(rows, rows')
<1>0. rows \in [Run -> Row] /\ Turn(rows, rows)
  BY IdleTurn DEF TableOK, QueueOK
<1>t. ASSUME Turn(rows, rows')
      PROVE  TwoTurns(rows, rows')
  BY <1>0, <1>t DEF TwoTurns
<1>u. ASSUME NEW mid, Turn(rows, mid), NEW act, NEW remaining,
             DispatchNext(mid, act, remaining)
      PROVE  TwoTurns(rows, rows')
  <2>1. mid \in [Run -> Row]
    BY <1>u, TurnTableOK DEF TableOK, QueueOK
  <2>2. Turn(mid, rows')
    BY <1>u, <2>1, DispatchNextTurn
  <2> QED
    BY <1>u, <2>2 DEF TwoTurns
<1>e. ASSUME NEW r \in Run, NEW code \in ErrorCode
      PROVE  Settles(rows, SystemErrored(rows, r, code, None))
  BY <1>0, SystemErroredSettles DEF Settles
<1>1. ASSUME NEW k \in Key, NEW q \in Request, StartVerification(k, q)
      PROVE  TwoTurns(rows, rows')
  <2>1. PICK r \in Run \ Present(rows) :
          DispatchNext(Inserted(rows, r, <<Public, k>>, q, NextSequence(rows)),
                       active, lease)
    BY <1>1 DEF StartVerification
  <2>2. <<Public, k>> \in Owner
    BY DEF Owner
  <2>3. Turn(rows, Inserted(rows, r, <<Public, k>>, q, NextSequence(rows)))
    BY <1>1, <2>1, <2>2 DEF StartVerification, Turn, Appends
  <2> QED
    BY <1>u, <2>1, <2>3
<1>2. ASSUME NEW k \in Key, NEW q \in Request, StartReproducibility(k, q)
      PROVE  TwoTurns(rows, rows')
  <2> DEFINE both(j, b, c) ==
        Inserted(Inserted(rows, b, <<j, "baseline">>, q, NextSequence(rows)),
                 c, <<j, "candidate">>, q, NextSequence(rows) + 1)
  <2>1. PICK j \in Job, b \in Run \ Present(rows), c \in Run \ Present(rows) :
          /\ b # c
          /\ WaitingCount(rows) + 2 <= WaitingLimit
          /\ DispatchNext(both(j, b, c), active, lease)
    BY <1>2 DEF StartReproducibility
  <2>2. <<j, "baseline">> \in Owner /\ <<j, "candidate">> \in Owner
    BY DEF Owner
  <2>3. Turn(rows, both(j, b, c))
    BY <2>1, <2>2 DEF Turn, AppendsPair
  <2> QED
    BY <1>u, <2>1, <2>3
<1>3. CASE ReplayVerification
  BY <1>0, <1>3, <1>u DEF ReplayVerification
<1>4. ASSUME NEW r \in Run, DispatchReturns(r)
      PROVE  TwoTurns(rows, rows')
  BY <1>0, <1>4, <1>t DEF DispatchReturns
<1>5. ASSUME NEW r \in Run, DispatchBusy(r)
      PROVE  TwoTurns(rows, rows')
  BY <1>0, <1>5, <1>t, RequeuedSettles DEF DispatchBusy, Turn, Settles
<1>6. ASSUME NEW r \in Run, DispatchFails(r)
      PROVE  TwoTurns(rows, rows')
  BY <1>6, <1>t, <1>e, OrchestrationAssumption DEF DispatchFails, Turn
<1>7. ASSUME NEW r \in Run, NEW stage \in Stage \cup {None},
             HandleHeartbeat(r, stage)
      PROVE  TwoTurns(rows, rows')
  <2>1. rows' = rows \/ rows' = Heartbeaten(rows, r, stage)
    BY <1>7 DEF HandleHeartbeat
  <2>2. Settles(rows, Heartbeaten(rows, r, stage))
    BY <1>0, HeartbeatenSettles DEF Settles
  <2> QED
    BY <1>0, <1>t, <2>1, <2>2 DEF Turn
<1>8. ASSUME NEW r \in Run, NEW issued \in BOOLEAN, HandleResult(r, issued)
      PROVE  TwoTurns(rows, rows')
  <2>1. r \in resultMsgs
    BY <1>8 DEF HandleResult
  <2>2. Turn(rows, Settled(r, issued))
    BY <2>1, SettledTurn DEF Turn
  <2>3. rows' = rows \/ DispatchNext(Settled(r, issued), None, 0)
    BY <1>8 DEF HandleResult, leaseVars
  <2> QED
    BY <1>0, <1>t, <1>u, <2>2, <2>3
<1>9. CASE ExpireLease
  BY <1>0, <1>9, <1>t DEF ExpireLease
<1>10. ASSUME NEW r \in Run, FinishExpiry(r)
       PROVE  TwoTurns(rows, rows')
  <2>1. Turn(rows, SystemErrored(rows, r, "LEASE_EXPIRED", None))
    BY <1>e, OrchestrationAssumption DEF Turn
  <2> QED
    BY <1>10, <1>u, <2>1 DEF FinishExpiry
<1>11. CASE TimerFires
  BY <1>0, <1>11, <1>u DEF TimerFires
<1>12. CASE ApiCrash
  BY <1>0, <1>12, <1>t DEF ApiCrash
<1>13. CASE ApiStart
  <2>1. CASE Running(rows) = {}
    BY <1>0, <1>13, <1>u, <2>1 DEF ApiStart
  <2>2. CASE Running(rows) # {}
    BY <1>0, <1>13, <1>t, <2>2, RecoveredSettles DEF ApiStart, Turn, Settles
  <2> QED
    BY <2>1, <2>2
<1>14. CASE RunnerNext \/ Tick
  <2>1. rows' = rows
    BY <1>14 DEF RunnerNext, HandleDispatch, HandleCancel, SendHeartbeat,
       ReceiveHeartbeat, FinishExecution, DeliveryFails, RetryDelivery,
       ReceiveReply, RunnerRestart, Tick
  <2> QED
    BY <1>0, <1>t, <2>1
<1> QED
  BY <1>1, <1>2, <1>3, <1>4, <1>5, <1>6, <1>7, <1>8, <1>9, <1>10, <1>11,
     <1>12, <1>13, <1>14 DEF Next, ApiNext

(* A row is never deleted. *)
LEMMA TurnKeepsPresent ==
  ASSUME NEW db, db \in [Run -> Row], NEW new, Turn(db, new),
         NEW r \in Run, db[r].status # "ABSENT"
  PROVE  new[r].status # "ABSENT"
<1>1. CASE Appends(db, new)
  BY <1>1 DEF Appends, Inserted, Present
<1>2. CASE AppendsPair(db, new)
  BY <1>2 DEF AppendsPair, Inserted, Present
<1>3. CASE Claims(db, new)
  BY <1>3 DEF Claims, Claimed
<1>4. CASE Settles(db, new)
  BY <1>4 DEF Settles, SettlesRunning, SameIdentity
<1> QED
  BY <1>1, <1>2, <1>3, <1>4 DEF Turn

(* No step loses or alters the result of an execution. *)
LEMMA StepResultsOK ==
  ASSUME ResultsOK, Next
  PROVE  ResultsOK'
<1> DEFINE kept == UNCHANGED <<delivery, task, resultMsgs>>
<1>0. CASE kept
  BY <1>0 DEF ResultsOK
<1>1. ASSUME ApiNext
      PROVE  /\ UNCHANGED <<delivery, task>>
             /\ resultMsgs' \subseteq resultMsgs
  <2>1. CASE \E r \in Run, issued \in BOOLEAN : HandleResult(r, issued)
    BY <2>1 DEF HandleResult, taskVars
  <2>2. CASE ~ \E r \in Run, issued \in BOOLEAN : HandleResult(r, issued)
    BY <1>1, <2>2 DEF ApiNext, StartVerification, StartReproducibility,
       ReplayVerification, DispatchReturns, DispatchBusy, DispatchFails,
       HandleHeartbeat, ExpireLease, FinishExpiry, TimerFires, ApiCrash,
       ApiStart, taskVars, resultVars
  <2> QED
    BY <2>1, <2>2
<1>2. CASE ApiNext
  BY <1>1, <1>2 DEF ResultsOK
<1>3. ASSUME NEW r \in Run, Deliver(r), delivery' \in [Run -> Delivery \cup {None}],
             delivery'[r] \in Delivery,
             \A s \in Run : delivery[s] \in Delivery => delivery'[s] \in Delivery
      PROVE  ResultsOK'
  <2>1. /\ \A s \in Run \ {r} : task'[s] = task[s]
        /\ task' \in [Run -> {"unknown", "executing", "awaiting", "retrying", "done"}]
    BY <1>3 DEF Deliver, ResultsOK
  <2>2. resultMsgs' \subseteq resultMsgs \cup {r}
    BY <1>3 DEF Deliver
  <2> QED
    BY <1>3, <2>1, <2>2 DEF ResultsOK
<1>4. ASSUME NEW r \in Run, NEW d \in Delivery, FinishExecution(r, d)
      PROVE  ResultsOK'
  BY <1>3, <1>4 DEF FinishExecution, ResultsOK
<1>5. ASSUME NEW r \in Run, RetryDelivery(r)
      PROVE  ResultsOK'
  BY <1>3, <1>5 DEF RetryDelivery, ResultsOK
<1>6. ASSUME NEW r \in Run, HandleDispatch(r) \/ DeliveryFails(r) \/ ReceiveReply(r)
      PROVE  ResultsOK'
  <2>1. UNCHANGED <<delivery, resultMsgs>>
    BY <1>6 DEF HandleDispatch, DeliveryFails, ReceiveReply, resultVars
  <2>2. \/ task' = task
        \/ \E t \in {"executing", "done"} : task' = [task EXCEPT ![r] = t]
        \/ /\ task[r] = "awaiting"
           /\ task' = [task EXCEPT ![r] = "retrying"]
    BY <1>6 DEF HandleDispatch, DeliveryFails, ReceiveReply
  <2> QED
    BY <2>1, <2>2 DEF ResultsOK
<1>7. CASE RunnerRestart
  BY <1>7 DEF RunnerRestart, ResultsOK
<1>8. ASSUME NEW r \in Run, HandleCancel(r) \/ SendHeartbeat(r) \/ ReceiveHeartbeat(r)
      PROVE  kept
  BY <1>8 DEF HandleCancel, SendHeartbeat, ReceiveHeartbeat, taskVars, resultVars
<1>9. CASE Tick
  BY <1>0, <1>9 DEF Tick, resultVars
<1> QED
  BY <1>0, <1>2, <1>4, <1>5, <1>6, <1>7, <1>8, <1>9 DEF Next, RunnerNext

-----------------------------------------------------------------------------
TableInv == TableOK(rows) /\ ResultsOK

LEMMA NextTableInv == TableInv /\ [Next]_vars => TableInv'
<1> SUFFICES ASSUME TableInv, [Next]_vars
             PROVE  TableInv'
  OBVIOUS
<1>1. CASE Next
  <2>1. TwoTurns(rows, rows')
    BY <1>1, SystemStep DEF TableInv
  <2>2. TableOK(rows')
    BY <2>1, TurnTableOK DEF TwoTurns, TableInv
  <2> QED
    BY <1>1, <2>2, StepResultsOK DEF TableInv
<1>2. CASE UNCHANGED vars
  BY <1>2 DEF vars, TableInv, ResultsOK
<1> QED
  BY <1>1, <1>2

LEMMA InitTableInv == Init => TableInv
<1> SUFFICES ASSUME Init PROVE TableInv
  OBVIOUS
<1>1. QueueOK(rows)
  BY InitQueueOK DEF Init
<1>2. Asked(rows)
  BY DEF Init, StoreInit, Asked, Present, NoRow
<1>3. ResultsOK
  BY DEF Init, ResultsOK
<1> QED
  BY <1>1, <1>2, <1>3 DEF TableInv, TableOK

LEMMA TableAlways == Spec => []TableInv
BY InitTableInv, NextTableInv, PTL DEF Spec

(* However the API, the runner and the network behave, the service never   *)
(* has two RUNNING rows.                                                   *)
THEOREM SystemSingleRunning == Spec => []SingleRunning
<1>1. TableInv => SingleRunning
  BY DEF TableInv, TableOK, QueueOK, SingleRunning
<1> QED
  BY <1>1, TableAlways, PTL

(* ... no run overtakes one that was admitted before it, refusals and      *)
(* restarts included.                                                      *)
THEOREM SystemNoOvertaking == Spec => []NoOvertaking
<1>1. TableInv => NoOvertaking
  BY DEF TableInv, TableOK, QueueOK, NoOvertaking
<1> QED
  BY <1>1, TableAlways, PTL

(* ... and no late result, timeout, retry or recovery rewrites an outcome. *)
THEOREM SystemTerminalIsFinal == Spec => TerminalIsFinal
<1> DEFINE Final ==
      \A r \in Run :
        /\ rows[r].status \in Terminal => rows'[r] = rows[r]
        /\ rows[r].status # "ABSENT" =>
             /\ rows'[r].owner = rows[r].owner
             /\ rows'[r].request = rows[r].request
             /\ rows'[r].sequence = rows[r].sequence
<1>1. TableInv /\ [Next]_vars => [Final]_storeVars
  <2>1. ASSUME TableInv, Next, NEW r \in Run
        PROVE  /\ rows[r].status \in Terminal => rows'[r] = rows[r]
               /\ rows[r].status # "ABSENT" =>
                    /\ rows'[r].owner = rows[r].owner
                    /\ rows'[r].request = rows[r].request
                    /\ rows'[r].sequence = rows[r].sequence
    <3>1. PICK mid : Turn(rows, mid) /\ Turn(mid, rows')
      BY <2>1, SystemStep DEF TableInv, TwoTurns
    <3>2. TableOK(mid) /\ TableOK(rows')
      BY <2>1, <3>1, TurnTableOK DEF TableInv
    <3>3. /\ rows[r].status \in Terminal => mid[r] = rows[r]
          /\ rows[r].status # "ABSENT" => /\ mid[r].owner = rows[r].owner
                                          /\ mid[r].request = rows[r].request
                                          /\ mid[r].sequence = rows[r].sequence
      BY <2>1, <3>1, StepIsFinal DEF TableInv, TableOK, Turn
    <3>4. /\ mid[r].status \in Terminal => rows'[r] = mid[r]
          /\ mid[r].status # "ABSENT" => /\ rows'[r].owner = mid[r].owner
                                         /\ rows'[r].request = mid[r].request
                                         /\ rows'[r].sequence = mid[r].sequence
      BY <3>1, <3>2, StepIsFinal DEF TableOK, Turn
    <3>5. rows[r].status # "ABSENT" => mid[r].status # "ABSENT"
      BY <2>1, <3>1, TurnKeepsPresent DEF TableInv, TableOK, QueueOK
    <3> QED
      BY <3>3, <3>4, <3>5
  <2>2. UNCHANGED vars => UNCHANGED storeVars
    BY DEF vars, storeVars
  <2> QED
    BY <2>1, <2>2
<1>2. Spec => [][Final]_storeVars
  BY <1>1, TableAlways, PTL DEF Spec
<1> QED
  BY <1>2 DEF TerminalIsFinal

(* ... and requeues never overfill the queue by more than the running run. *)
THEOREM SystemBacklogBounded == Spec => []BacklogBounded
<1>1. Init => BacklogOK(rows)
  <2> SUFFICES ASSUME Init PROVE BacklogOK(rows)
    OBVIOUS
  <2>1. Backlog(rows) = {}
    BY DEF Init, StoreInit, NoRow, Backlog, Waiting, Running
  <2> QED
    BY <2>1, FS_EmptySet, StoreAssumption DEF BacklogOK
<1>2. TableInv /\ BacklogOK(rows) /\ [Next]_vars => BacklogOK(rows)'
  <2> SUFFICES ASSUME TableInv, BacklogOK(rows), [Next]_vars
               PROVE  BacklogOK(rows')
    OBVIOUS
  <2>1. CASE Next
    <3>1. PICK mid : Turn(rows, mid) /\ Turn(mid, rows')
      BY <2>1, SystemStep DEF TableInv, TwoTurns
    <3>2. TableOK(mid)
      BY <3>1, TurnTableOK DEF TableInv
    <3>3. BacklogOK(mid)
      BY <3>1, StepBacklogOK DEF TableInv, TableOK, Turn
    <3> QED
      BY <3>1, <3>2, <3>3, StepBacklogOK DEF TableOK, Turn
  <2>2. CASE UNCHANGED vars
    BY <2>2 DEF vars
  <2> QED
    BY <2>1, <2>2
<1>3. BacklogOK(rows) => BacklogBounded
  BY DEF BacklogOK, BacklogBounded
<1> QED
  BY <1>1, <1>2, <1>3, TableAlways, PTL DEF Spec

-----------------------------------------------------------------------------
(* Ownership.  The lease cannot expire while the dispatch call of its run  *)
(* is awaited, because the call times out before; and a call that fails    *)
(* finds its own run, or none, in this.active.                             *)

(* Who owns a RUNNING row, given the table, this.active and the runs whose *)
(* expireLease() awaits: an owner's row is RUNNING, and every RUNNING row  *)
(* has an owner unless a late failure has cleared this.active.             *)
Owns(db, act, exp) ==
  /\ act \in Run \cup {None}
  /\ exp \subseteq Run
  /\ act \notin exp
  /\ ({act} \ {None}) \cup exp \subseteq Running(db)
  /\ LostReplies \/ Running(db) \subseteq {act} \cup exp

(* What is left of the leases of the runs whose dispatch is awaited. *)
CallsOK(act, remaining, exp, cs, gr) ==
  /\ remaining \in 0..LeaseDuration
  /\ gr \in [Run -> 0..LeaseDuration]
  /\ cs \subseteq Run \ exp
  /\ \A r \in cs : /\ gr[r] >= LeaseDuration - DispatchTimeout
                   /\ act = r => remaining >= gr[r]

Stopped == active = None /\ expiring = {} /\ calls = {} /\ timer = Off

OwnershipOK ==
  /\ apiUp \in BOOLEAN
  /\ CallsOK(active, lease, expiring, calls, grant)
  /\ apiUp => Owns(rows, active, expiring)
  /\ ~apiUp => Stopped

LEMMA DispatchNextOwned ==
  ASSUME NEW db, NEW act, NEW remaining, NEW exp,
         db \in [Run -> Row],
         Owns(db, act, exp), CallsOK(act, remaining, exp, calls, grant),
         DispatchNext(db, act, remaining)
  PROVE  /\ Owns(rows', active', exp)
         /\ CallsOK(active', lease', exp, calls', grant')
<1> DEFINE free == act = None /\ blocked = 0 /\ \E r \in Run : Claimable(db, r)
<1>1. CASE ~free
  BY <1>1 DEF DispatchNext
<1>2. CASE free
  <2>1. PICK r \in Run :
          /\ Claimable(db, r)
          /\ rows' = Claimed(db, r)
          /\ active' = r
          /\ lease' = LeaseDuration
          /\ calls' = calls \cup {r}
          /\ grant' = [grant EXCEPT ![r] = LeaseDuration]
    BY <1>2 DEF DispatchNext
  <2>2. Running(db) = {} /\ exp = {}
    BY <2>1 DEF Claimable, Owns
  <2>3. Running(rows') = {r}
    BY <2>1, <2>2 DEF Claimed, Running
  <2>4. r # None
    BY StoreAssumption
  <2>5. Owns(rows', active', exp)
    BY <2>1, <2>2, <2>3, <2>4 DEF Owns
  <2>6. CallsOK(active', lease', exp, calls', grant')
    BY <2>1, <2>2, OrchestrationAssumption DEF CallsOK
  <2> QED
    BY <2>5, <2>6
<1> QED
  BY <1>1, <1>2

(* A run that is failed or put back is not RUNNING any more.               *)
LEMMA ErroredRunning ==
  ASSUME NEW db, db \in [Run -> Row], NEW r \in Run, NEW code, NEW print
  PROVE  /\ Running(SystemErrored(db, r, code, print)) = Running(db) \ {r}
         /\ Running(Requeued(db, r)) = Running(db) \ {r}
BY DEF Running, SystemErrored, Requeued

LEMMA HeartbeatenRunning ==
  ASSUME NEW db, db \in [Run -> Row], NEW r \in Run, NEW stage
  PROVE  Running(Heartbeaten(db, r, stage)) = Running(db)
BY DEF Running, Heartbeaten

LEMMA RecoveredRunning ==
  ASSUME NEW db, db \in [Run -> Row]
  PROVE  Running(Recovered(db)) = {}
<1>1. ASSUME NEW r \in Run
      PROVE  Recovered(db)[r].status # "RUNNING"
  <2>1. Recovered(db)[r] = SystemErrored(db, r, "API_RESTARTED", None)[r]
    BY DEF Recovered
  <2>2. r \notin Running(SystemErrored(db, r, "API_RESTARTED", None))
    BY ErroredRunning
  <2> QED
    BY <2>1, <2>2 DEF Running
<1> QED
  BY <1>1 DEF Running

LEMMA InsertedRunning ==
  ASSUME NEW db, NEW r \in Run \ Present(db), NEW owner, NEW q, NEW n,
         db \in [Run -> Row]
  PROVE  Running(Inserted(db, r, owner, q, n)) = Running(db)
BY DEF Running, Inserted, NoRow, Present

LEMMA SettledNotRunning ==
  ASSUME TableInv, NEW r \in resultMsgs, NEW issued \in BOOLEAN
  PROVE  /\ Settled(r, issued) \in [Run -> Row]
         /\ Running(Settled(r, issued)) = Running(rows) \ {r}
<1> DEFINE d == delivery[r]
           report == [run |-> r, request |-> rows[r].request,
                      verdict |-> d.verdict]
<1>1. Settled(r, issued) \in [Run -> Row]
  BY SettledTurn DEF TableInv, Settles
<1>2. rows \in [Run -> Row] /\ r \in Run
  BY DEF TableInv, TableOK, QueueOK, ResultsOK
<1>3. \A code, print :
        Running(SystemErrored(rows, r, code, print)) = Running(rows) \ {r}
  BY <1>2, ErroredRunning
<1>4. ASSUME d.status \notin {"SYSTEM_ERROR", "WRONG_RUNTIME"}
      PROVE  Running(Completed(rows, r, d.status, report, report, r))
               = Running(rows) \ {r}
  <2>1. d.status \in {"COMPLETED", "TIMEOUT"}
    BY <1>4, OrchestrationAssumption DEF TableInv, ResultsOK, Delivery
  <2> HIDE DEF d, report
  <2> QED
    BY <1>2, <2>1 DEF Running, Completed
<1>5. CASE d.status = "SYSTEM_ERROR"
  BY <1>1, <1>3, <1>5 DEF Settled
<1>6. CASE d.status = "WRONG_RUNTIME"
  BY <1>1, <1>3, <1>6 DEF Settled
<1>7. CASE d.status \notin {"SYSTEM_ERROR", "WRONG_RUNTIME"}
  <2>1. Settled(r, issued) =
          IF issued /\ Completable(rows, r, d.status, report, report)
          THEN Completed(rows, r, d.status, report, report, r)
          ELSE SystemErrored(rows, r, "RECEIPT_ISSUANCE_FAILED", None)
    BY <1>7 DEF Settled
  <2> HIDE DEF d, report
  <2> QED
    BY <1>1, <1>3, <1>4, <1>7, <2>1
<1> QED
  BY <1>1, <1>5, <1>6, <1>7

-----------------------------------------------------------------------------
(* Ownership, action by action. *)

(* A turn of the API that settles what it has to and then lets             *)
(* dispatchNext() look for work.                                           *)
LEMMA TurnOwned ==
  ASSUME NEW db, NEW act, NEW remaining,
         apiUp' = TRUE, db \in [Run -> Row],
         Owns(db, act, expiring'),
         CallsOK(act, remaining, expiring', calls, grant),
         DispatchNext(db, act, remaining)
  PROVE  OwnershipOK'
<1>1. /\ Owns(rows', active', expiring')
      /\ CallsOK(active', lease', expiring', calls', grant')
  BY DispatchNextOwned
<1> QED
  BY <1>1 DEF OwnershipOK

LEMMA StartOwned ==
  ASSUME TableInv, OwnershipOK, NEW k \in Key, NEW q \in Request,
         StartVerification(k, q) \/ StartReproducibility(k, q)
  PROVE  OwnershipOK'
<1>1. rows \in [Run -> Row] /\ QueueOK(rows)
  BY DEF TableInv, TableOK, QueueOK
<1>2. CASE StartVerification(k, q)
  <2>1. PICK r \in Run \ Present(rows) :
          DispatchNext(Inserted(rows, r, <<Public, k>>, q, NextSequence(rows)),
                       active, lease)
    BY <1>2 DEF StartVerification
  <2> DEFINE db == Inserted(rows, r, <<Public, k>>, q, NextSequence(rows))
  <2>2. WaitingCount(rows) < WaitingLimit /\ <<Public, k>> \in Owner
    BY <1>2 DEF StartVerification, Owner
  <2>3. TableOK(db)
    BY <2>2, TurnTableOK DEF TableInv, Turn, Appends
  <2>4. db \in [Run -> Row]
    BY <2>3 DEF TableOK, QueueOK
  <2>5. Running(db) = Running(rows)
    BY <1>1, InsertedRunning
  <2>6. apiUp /\ apiUp' = apiUp /\ expiring' = expiring
    BY <1>2 DEF StartVerification
  <2>7. Owns(db, active, expiring)
    BY <2>5, <2>6 DEF OwnershipOK, Owns
  <2> HIDE DEF db
  <2> QED
    BY <2>1, <2>4, <2>6, <2>7, TurnOwned DEF OwnershipOK, db
<1>3. CASE StartReproducibility(k, q)
  <2> DEFINE half(j, b) ==
               Inserted(rows, b, <<j, "baseline">>, q, NextSequence(rows))
             both(j, b, c) ==
               Inserted(half(j, b), c, <<j, "candidate">>, q,
                        NextSequence(rows) + 1)
  <2>1. PICK j \in Job, b \in Run \ Present(rows), c \in Run \ Present(rows) :
          /\ b # c
          /\ WaitingCount(rows) + 2 <= WaitingLimit
          /\ DispatchNext(both(j, b, c), active, lease)
    BY <1>3 DEF StartReproducibility
  <2> DEFINE db == both(j, b, c)
  <2>2. TableOK(db)
    <3>1. <<j, "baseline">> \in Owner /\ <<j, "candidate">> \in Owner
      BY DEF Owner
    <3> QED
      BY <2>1, <3>1, TurnTableOK DEF TableInv, Turn, AppendsPair
  <2>3. db \in [Run -> Row]
    BY <2>2 DEF TableOK, QueueOK
  <2>4. Running(db) = Running(rows)
    <3>1. \A r \in Run : r \notin {b, c} => db[r] = rows[r]
      BY <1>1 DEF Inserted
    <3>2. db[b].status = "QUEUED" /\ db[c].status = "QUEUED"
      BY <1>1, <2>1 DEF Inserted, NoRow
    <3>3. b \notin Running(rows) /\ c \notin Running(rows)
      BY <2>1 DEF Running, Present
    <3> HIDE DEF db
    <3> QED
      BY <3>1, <3>2, <3>3 DEF Running
  <2>5. apiUp /\ apiUp' = apiUp /\ expiring' = expiring
    BY <1>3 DEF StartReproducibility
  <2>6. Owns(db, active, expiring)
    BY <2>4, <2>5 DEF OwnershipOK, Owns
  <2> HIDE DEF db
  <2> QED
    BY <2>1, <2>3, <2>5, <2>6, TurnOwned DEF OwnershipOK, db
<1> QED
  BY <1>2, <1>3

LEMMA ReplayOwned ==
  ASSUME TableInv, OwnershipOK, ReplayVerification
  PROVE  OwnershipOK'
<1>1. rows \in [Run -> Row]
  BY DEF TableInv, TableOK, QueueOK
<1>2. apiUp' = TRUE /\ Owns(rows, active, expiring') /\ expiring' = expiring
  BY DEF ReplayVerification, OwnershipOK
<1>3. DispatchNext(rows, active, lease)
  BY DEF ReplayVerification
<1> QED
  BY <1>1, <1>2, <1>3, TurnOwned DEF OwnershipOK

LEMMA TimerOwned ==
  ASSUME TableInv, OwnershipOK, TimerFires
  PROVE  OwnershipOK'
<1>1. rows \in [Run -> Row]
  BY DEF TableInv, TableOK, QueueOK
<1>2. apiUp
  BY DEF TimerFires, OwnershipOK, Stopped, Off
<1>3. apiUp' = TRUE /\ Owns(rows, active, expiring') /\ expiring' = expiring
  BY <1>2 DEF TimerFires, OwnershipOK
<1>4. DispatchNext(rows, active, lease)
  BY DEF TimerFires
<1> QED
  BY <1>1, <1>3, <1>4, TurnOwned DEF OwnershipOK

LEMMA HangUpCalls ==
  ASSUME NEW act, NEW remaining, NEW exp, NEW rs,
         CallsOK(act, remaining, exp, calls, grant), HangUp(rs)
  PROVE  CallsOK(act, remaining, exp, calls', grant')
<1>1. calls' = calls \ rs
  BY DEF HangUp
<1>2. grant' = [r \in Run |-> IF r \in {s \in rs : dispatchMsg[s] # "request"}
                              THEN 0 ELSE grant[r]]
  BY DEF HangUp
<1>3. grant' \in [Run -> 0..LeaseDuration]
  BY <1>2, OrchestrationAssumption DEF CallsOK
<1>4. \A r \in calls' : r \in calls /\ grant'[r] = grant[r]
  BY <1>1, <1>2 DEF CallsOK
<1> QED
  BY <1>1, <1>3, <1>4 DEF CallsOK

(* The end of a dispatch call. *)
LEMMA DispatchEndsOwned ==
  ASSUME TableInv, OwnershipOK, NEW r \in Run,
         DispatchReturns(r) \/ DispatchBusy(r) \/ DispatchFails(r)
  PROVE  OwnershipOK'
<1>1. /\ r \in calls /\ apiUp /\ apiUp' = apiUp /\ expiring' = expiring
      /\ r \notin expiring /\ rows \in [Run -> Row]
      /\ Owns(rows, active, expiring)
      /\ HangUp({r})
  BY DEF DispatchReturns, DispatchBusy, DispatchFails, OwnershipOK, Stopped,
     CallsOK, TableInv, TableOK, QueueOK
<1>2. CallsOK(active, lease, expiring, calls', grant') /\ r \notin calls'
  BY <1>1, HangUpCalls DEF OwnershipOK, HangUp
<1>3. CASE DispatchReturns(r)
  BY <1>1, <1>2, <1>3 DEF DispatchReturns, OwnershipOK
<1>4. CASE DispatchBusy(r) \/ DispatchFails(r)
  <2>1. active' = None /\ lease' = 0
    BY <1>4 DEF DispatchBusy, DispatchFails
  <2>2. LostReplies \/ active \in {r, None}
    BY <1>1, <1>4 DEF DispatchBusy, DispatchFails, Owns
  <2>3. Running(rows') = Running(rows) \ {r}
    BY <1>1, <1>4, ErroredRunning DEF DispatchBusy, DispatchFails
  <2>4. Owns(rows', active', expiring)
    BY <1>1, <2>1, <2>2, <2>3, StoreAssumption DEF Owns
  <2>5. CallsOK(active', lease', expiring, calls', grant')
    BY <1>2, <2>1, StoreAssumption, OrchestrationAssumption DEF CallsOK
  <2> QED
    BY <1>1, <2>4, <2>5 DEF OwnershipOK
<1> QED
  BY <1>3, <1>4

LEMMA HeartbeatOwned ==
  ASSUME TableInv, OwnershipOK, NEW r \in Run, NEW stage \in Stage \cup {None},
         HandleHeartbeat(r, stage)
  PROVE  OwnershipOK'
<1>1. /\ UNCHANGED <<apiUp, active, expiring, calls, grant>>
      /\ apiUp /\ rows \in [Run -> Row]
  BY DEF HandleHeartbeat, TableInv, TableOK, QueueOK
<1>2. Running(rows') = Running(rows)
  BY <1>1, HeartbeatenRunning DEF HandleHeartbeat
<1>3. lease' = lease \/ lease' = LeaseDuration
  BY DEF HandleHeartbeat
<1>4. CallsOK(active, lease', expiring, calls, grant)
  BY <1>3, OrchestrationAssumption DEF OwnershipOK, CallsOK
<1> QED
  BY <1>1, <1>2, <1>4 DEF OwnershipOK, Owns

LEMMA ResultOwned ==
  ASSUME TableInv, OwnershipOK, NEW r \in Run, NEW issued \in BOOLEAN,
         HandleResult(r, issued)
  PROVE  OwnershipOK'
<1> DEFINE settling == /\ ResultDeliveryOutcome(rows, r, r) = "PENDING"
                       /\ ActiveLease(r)
<1>1. /\ apiUp /\ apiUp' = apiUp /\ expiring' = expiring /\ r \in resultMsgs
      /\ Owns(rows, active, expiring)
  BY DEF HandleResult, OwnershipOK
<1>2. CASE settling
  <2>1. DispatchNext(Settled(r, issued), None, 0)
    BY <1>2 DEF HandleResult
  <2>2. active = r
    BY <1>2 DEF ActiveLease
  <2>3. /\ Settled(r, issued) \in [Run -> Row]
        /\ Running(Settled(r, issued)) = Running(rows) \ {r}
    BY <1>1, SettledNotRunning
  <2>4. Owns(Settled(r, issued), None, expiring)
    BY <1>1, <2>2, <2>3, StoreAssumption DEF Owns
  <2>5. CallsOK(None, 0, expiring, calls, grant)
    BY StoreAssumption, OrchestrationAssumption DEF OwnershipOK, CallsOK
  <2> QED
    BY <1>1, <2>1, <2>3, <2>4, <2>5, TurnOwned
<1>3. CASE ~settling
  <2>1. UNCHANGED leaseVars
    BY <1>3 DEF HandleResult
  <2> QED
    BY <1>1, <2>1 DEF leaseVars, OwnershipOK
<1> QED
  BY <1>2, <1>3

LEMMA ExpiryOwned ==
  ASSUME TableInv, OwnershipOK,
         ExpireLease \/ \E r \in Run : FinishExpiry(r)
  PROVE  OwnershipOK'
<1>0. rows \in [Run -> Row]
  BY DEF TableInv, TableOK, QueueOK
<1>1. CASE ExpireLease
  <2>1. /\ active # None /\ lease = 0
        /\ expiring' = expiring \cup {active} /\ active' = None
        /\ UNCHANGED <<rows, apiUp, lease, calls, grant>>
    BY <1>1 DEF ExpireLease
  <2>2. apiUp /\ Owns(rows, active, expiring)
    BY <2>1 DEF OwnershipOK, Stopped
  <2>3. active \notin calls
    BY <2>1, OrchestrationAssumption DEF OwnershipOK, CallsOK
  <2>4. Owns(rows, None, expiring')
    BY <2>1, <2>2, StoreAssumption DEF Owns
  <2>5. CallsOK(None, lease, expiring', calls, grant)
    BY <2>1, <2>3, StoreAssumption DEF OwnershipOK, CallsOK
  <2> QED
    BY <2>1, <2>2, <2>4, <2>5 DEF OwnershipOK
<1>2. ASSUME NEW r \in Run, FinishExpiry(r)
      PROVE  OwnershipOK'
  <2> DEFINE db == SystemErrored(rows, r, "LEASE_EXPIRED", None)
  <2>1. /\ r \in expiring /\ expiring' = expiring \ {r}
        /\ DispatchNext(db, active, lease)
        /\ apiUp' = apiUp
    BY <1>2 DEF FinishExpiry
  <2>2. apiUp /\ Owns(rows, active, expiring)
    BY <2>1 DEF OwnershipOK, Stopped
  <2>3. db \in [Run -> Row]
    BY <1>0, SystemErroredSettles, OrchestrationAssumption
  <2>4. Running(db) = Running(rows) \ {r}
    BY <1>0, ErroredRunning
  <2> HIDE DEF db
  <2>5. Owns(db, active, expiring')
    BY <2>1, <2>2, <2>4 DEF Owns
  <2>6. CallsOK(active, lease, expiring', calls, grant)
    BY <2>1 DEF OwnershipOK, CallsOK
  <2> QED
    BY <2>1, <2>2, <2>3, <2>5, <2>6, TurnOwned
<1> QED
  BY <1>1, <1>2

LEMMA RestartOwned ==
  ASSUME TableInv, OwnershipOK, ApiCrash \/ ApiStart
  PROVE  OwnershipOK'
<1>0. rows \in [Run -> Row]
  BY DEF TableInv, TableOK, QueueOK
<1>1. CASE ApiCrash
  <2>1. /\ apiUp' = FALSE /\ active' = None /\ lease' = 0 /\ expiring' = {}
        /\ timer' = Off /\ HangUp(calls)
    BY <1>1 DEF ApiCrash
  <2>2. calls' = {}
    BY <2>1 DEF HangUp
  <2>3. grant' \in [Run -> 0..LeaseDuration]
    BY <2>1, OrchestrationAssumption DEF HangUp, OwnershipOK, CallsOK
  <2>4. CallsOK(active', lease', expiring', calls', grant')
    BY <2>1, <2>2, <2>3, OrchestrationAssumption DEF CallsOK
  <2> QED
    BY <2>1, <2>2, <2>4 DEF OwnershipOK, Stopped
<1>2. CASE ApiStart
  <2>1. Stopped /\ apiUp' = TRUE /\ expiring' = {}
    BY <1>2 DEF ApiStart, OwnershipOK, Stopped
  <2>2. CASE Running(rows) = {}
    <3>1. DispatchNext(rows, active, lease)
      BY <1>2, <2>2 DEF ApiStart
    <3>2. Owns(rows, active, expiring')
      BY <2>1, <2>2 DEF Owns, Stopped
    <3>3. CallsOK(active, lease, expiring', calls, grant)
      BY <2>1 DEF OwnershipOK, Stopped
    <3> QED
      BY <1>0, <2>1, <3>1, <3>2, <3>3, TurnOwned
  <2>3. CASE Running(rows) # {}
    <3>1. rows' = Recovered(rows) /\ UNCHANGED <<active, lease, calls, grant>>
      BY <1>2, <2>3 DEF ApiStart
    <3>2. Running(rows') = {}
      BY <1>0, <3>1, RecoveredRunning
    <3> QED
      BY <2>1, <3>1, <3>2 DEF OwnershipOK, Owns, Stopped
  <2> QED
    BY <2>2, <2>3
<1> QED
  BY <1>1, <1>2

(* The runner does not touch what the API owns: it only consumes requests  *)
(* whose caller has hung up.                                               *)
LEMMA RunnerOwned ==
  ASSUME OwnershipOK, RunnerNext
  PROVE  OwnershipOK'
<1>1. UNCHANGED <<rows, apiUp, active, lease, expiring, timer, calls>>
  BY DEF RunnerNext, HandleDispatch, HandleCancel, SendHeartbeat,
     ReceiveHeartbeat, FinishExecution, DeliveryFails, RetryDelivery,
     ReceiveReply, RunnerRestart, apiVars
<1>2. grant' = grant \/ \E r \in Run \ calls : grant' = [grant EXCEPT ![r] = 0]
  BY DEF RunnerNext, HandleDispatch, HandleCancel, SendHeartbeat,
     ReceiveHeartbeat, FinishExecution, DeliveryFails, RetryDelivery,
     ReceiveReply, RunnerRestart
<1>3. CallsOK(active, lease, expiring, calls, grant')
  BY <1>2, OrchestrationAssumption DEF OwnershipOK, CallsOK
<1> QED
  BY <1>1, <1>3 DEF OwnershipOK, Stopped

LEMMA TickOwned ==
  ASSUME OwnershipOK, Tick
  PROVE  OwnershipOK'
<1>1. /\ UNCHANGED <<rows, apiUp, active, expiring, calls>>
      /\ lease' = Ticked(lease) /\ timer' = Ticked(timer)
      /\ grant' = [r \in Run |-> Ticked(grant[r])]
      /\ \A r \in calls : grant[r] > LeaseDuration - DispatchTimeout
  BY DEF Tick
<1>2. CallsOK(active, lease', expiring, calls, grant')
  BY <1>1, OrchestrationAssumption DEF OwnershipOK, CallsOK, Ticked
<1>3. timer = Off => timer' = Off
  BY <1>1 DEF Ticked, Off
<1> QED
  BY <1>1, <1>2, <1>3 DEF OwnershipOK, Stopped

LEMMA NextOwned ==
  ASSUME TableInv, OwnershipOK, Next
  PROVE  OwnershipOK'
BY StartOwned, ReplayOwned, TimerOwned, DispatchEndsOwned, HeartbeatOwned,
   ResultOwned, ExpiryOwned, RestartOwned, RunnerOwned, TickOwned
   DEF Next, ApiNext

OwnedInv == TableInv /\ OwnershipOK

LEMMA InitOwnedInv == Init => OwnedInv
<1> SUFFICES ASSUME Init PROVE OwnershipOK
  BY InitTableInv DEF OwnedInv
<1>1. Running(rows) = {}
  BY DEF Init, StoreInit, Running, NoRow
<1> QED
  BY <1>1, OrchestrationAssumption DEF Init, OwnershipOK, Owns, CallsOK

LEMMA NextOwnedInv == OwnedInv /\ [Next]_vars => OwnedInv'
<1> SUFFICES ASSUME OwnedInv, [Next]_vars
             PROVE  OwnershipOK'
  BY NextTableInv DEF OwnedInv
<1>1. CASE UNCHANGED vars
  BY <1>1 DEF vars, OwnedInv, OwnershipOK, Owns, CallsOK, Stopped, Running
<1> QED
  BY <1>1, NextOwned DEF OwnedInv

LEMMA OwnedAlways == Spec => []OwnedInv
BY InitOwnedInv, NextOwnedInv, PTL DEF Spec

(* As long as no dispatch call fails after another run has been started,   *)
(* every RUNNING row belongs to somebody who will settle it, so that no    *)
(* run can block the queue for ever, across any number of restarts.        *)
THEOREM RunningIsOwnedAlways ==
  ASSUME ~LostReplies
  PROVE  Spec => []RunningIsOwned
<1>1. OwnedInv => RunningIsOwned
  BY StoreAssumption DEF OwnedInv, OwnershipOK, Owns, RunningIsOwned, Running
<1> QED
  BY <1>1, OwnedAlways, PTL

-----------------------------------------------------------------------------
(* Outcomes: what the orchestrator writes is what inflate() can read.      *)

LEMMA DispatchNextConsistent ==
  ASSUME NEW db \in [Run -> Row], AllConsistent(db), NEW act, NEW remaining,
         DispatchNext(db, act, remaining)
  PROVE  AllConsistent(rows')
<1>1. rows' = db \/ \E r \in Run : Claimable(db, r) /\ rows' = Claimed(db, r)
  BY DEF DispatchNext
<1> QED
  BY <1>1, ClaimedConsistent

LEMMA SettledConsistent ==
  ASSUME TableInv, AllConsistent(rows), NEW r \in resultMsgs,
         NEW issued \in BOOLEAN
  PROVE  AllConsistent(Settled(r, issued))
<1> DEFINE d == delivery[r]
           report == [run |-> r, request |-> rows[r].request,
                      verdict |-> d.verdict]
<1>1. /\ rows \in [Run -> Row] /\ r \in Run /\ d \in Delivery
      /\ r \in Fingerprint
  BY OrchestrationAssumption DEF TableInv, TableOK, QueueOK, ResultsOK
<1>2. \A code \in ErrorCode : \A print :
        AllConsistent(SystemErrored(rows, r, code, print))
  BY <1>1, SystemErroredConsistent
<1>3. {"RUNNER_FAILURE", "RUNTIME_IMAGE_MISMATCH", "RECEIPT_ISSUANCE_FAILED"}
        \subseteq ErrorCode
  BY OrchestrationAssumption
<1>4. ASSUME d.status \notin {"SYSTEM_ERROR", "WRONG_RUNTIME"},
             Completable(rows, r, d.status, report, report)
      PROVE  AllConsistent(Completed(rows, r, d.status, report, report, r))
  <2>1. d.status \in {"COMPLETED", "TIMEOUT"} /\ d.verdict \in Verdict
    BY <1>1, <1>4, OrchestrationAssumption DEF Delivery
  <2>2. rows[r].request \in Request
    BY <1>1, <1>4
       DEF Completable, Running, Present, TableInv, TableOK, Asked
  <2>3. report \in Report
    BY <1>1, <2>1, <2>2 DEF Report
  <2> QED
    BY <1>1, <1>4, <2>1, <2>3, CompletedConsistent
<1>5. CASE d.status = "SYSTEM_ERROR"
  BY <1>2, <1>3, <1>5 DEF Settled
<1>6. CASE d.status = "WRONG_RUNTIME"
  BY <1>2, <1>3, <1>6 DEF Settled
<1>7. CASE d.status \notin {"SYSTEM_ERROR", "WRONG_RUNTIME"}
  <2>1. Settled(r, issued) =
          IF issued /\ Completable(rows, r, d.status, report, report)
          THEN Completed(rows, r, d.status, report, report, r)
          ELSE SystemErrored(rows, r, "RECEIPT_ISSUANCE_FAILED", None)
    BY <1>7 DEF Settled
  <2> HIDE DEF d, report
  <2> QED
    BY <1>2, <1>3, <1>4, <1>7, <2>1
<1> QED
  BY <1>5, <1>6, <1>7

LEMMA StartConsistent ==
  ASSUME TableInv, AllConsistent(rows), NEW k \in Key, NEW q \in Request,
         StartVerification(k, q) \/ StartReproducibility(k, q)
  PROVE  AllConsistent(rows')
<1> DEFINE n == NextSequence(rows)
<1>0. rows \in [Run -> Row] /\ QueueOK(rows)
  BY DEF TableInv, TableOK, QueueOK
<1>1. CASE StartVerification(k, q)
  <2> DEFINE db(r) == Inserted(rows, r, <<Public, k>>, q, n)
  <2>1. PICK r \in Run \ Present(rows) : DispatchNext(db(r), active, lease)
    BY <1>1 DEF StartVerification
  <2>2. db(r) \in [Run -> Row]
    <3>1. WaitingCount(rows) < WaitingLimit /\ <<Public, k>> \in Owner
      BY <1>1 DEF StartVerification, Owner
    <3> QED
      BY <3>1, TurnTableOK DEF TableInv, Turn, Appends, TableOK, QueueOK
  <2>3. AllConsistent(db(r))
    BY <1>0, InsertedConsistent
  <2> HIDE DEF db
  <2> QED
    BY <2>1, <2>2, <2>3, DispatchNextConsistent
<1>2. CASE StartReproducibility(k, q)
  <2> DEFINE half(j, b) == Inserted(rows, b, <<j, "baseline">>, q, n)
             db(j, b, c) ==
               Inserted(half(j, b), c, <<j, "candidate">>, q, n + 1)
  <2>1. PICK j \in Job, b \in Run \ Present(rows), c \in Run \ Present(rows) :
          /\ b # c
          /\ WaitingCount(rows) + 2 <= WaitingLimit
          /\ DispatchNext(db(j, b, c), active, lease)
    BY <1>2 DEF StartReproducibility
  <2>2. db(j, b, c) \in [Run -> Row]
    <3>1. <<j, "baseline">> \in Owner /\ <<j, "candidate">> \in Owner
      BY DEF Owner
    <3> QED
      BY <2>1, <3>1, TurnTableOK
         DEF TableInv, Turn, AppendsPair, TableOK, QueueOK
  <2>3. AllConsistent(half(j, b))
    BY <1>0, InsertedConsistent
  <2>4. AllConsistent(db(j, b, c))
    <3>1. \A r \in Run : r # c => db(j, b, c)[r] = half(j, b)[r]
      BY <1>0 DEF Inserted
    <3>2. Consistent(db(j, b, c)[c], c)
      BY <1>0 DEF Inserted, Consistent, NoRow
    <3> HIDE DEF db, half
    <3> QED
      BY <2>3, <3>1, <3>2 DEF AllConsistent
  <2> HIDE DEF db, half
  <2> QED
    BY <2>1, <2>2, <2>4, DispatchNextConsistent
<1> QED
  BY <1>1, <1>2

LEMMA NextConsistent ==
  ASSUME TableInv, AllConsistent(rows), Next
  PROVE  AllConsistent(rows')
<1>0. rows \in [Run -> Row]
  BY DEF TableInv, TableOK, QueueOK
<1>e. ASSUME NEW r \in Run, NEW code \in ErrorCode
      PROVE  /\ SystemErrored(rows, r, code, None) \in [Run -> Row]
             /\ AllConsistent(SystemErrored(rows, r, code, None))
  BY <1>0, SystemErroredSettles, SystemErroredConsistent
<1>1. ASSUME NEW k \in Key, NEW q \in Request,
             StartVerification(k, q) \/ StartReproducibility(k, q)
      PROVE  AllConsistent(rows')
  BY <1>1, StartConsistent
<1>2. CASE ReplayVerification \/ TimerFires
  BY <1>0, <1>2, DispatchNextConsistent DEF ReplayVerification, TimerFires
<1>3. ASSUME NEW r \in Run,
             DispatchReturns(r) \/ DispatchBusy(r) \/ DispatchFails(r)
      PROVE  AllConsistent(rows')
  <2>1. CASE DispatchReturns(r)
    BY <2>1 DEF DispatchReturns
  <2>2. CASE DispatchBusy(r)
    BY <1>0, <2>2, RequeuedConsistent DEF DispatchBusy
  <2>3. CASE DispatchFails(r)
    BY <1>e, <2>3, OrchestrationAssumption DEF DispatchFails
  <2> QED
    BY <1>3, <2>1, <2>2, <2>3
<1>4. ASSUME NEW r \in Run, NEW stage \in Stage \cup {None},
             HandleHeartbeat(r, stage)
      PROVE  AllConsistent(rows')
  <2>1. rows' = rows \/ rows' = Heartbeaten(rows, r, stage)
    BY <1>4 DEF HandleHeartbeat
  <2>2. CASE stage = None
    BY <2>1, <2>2 DEF Heartbeaten
  <2>3. CASE stage \in Stage
    BY <1>0, <2>1, <2>3, HeartbeatenConsistent
  <2> QED
    BY <2>2, <2>3
<1>5. ASSUME NEW r \in Run, NEW issued \in BOOLEAN, HandleResult(r, issued)
      PROVE  AllConsistent(rows')
  <2>1. r \in resultMsgs
    BY <1>5 DEF HandleResult
  <2>2. Settled(r, issued) \in [Run -> Row] /\ AllConsistent(Settled(r, issued))
    BY <2>1, SettledNotRunning, SettledConsistent
  <2>3. rows' = rows \/ DispatchNext(Settled(r, issued), None, 0)
    BY <1>5 DEF HandleResult, leaseVars
  <2> QED
    BY <2>2, <2>3, DispatchNextConsistent
<1>6. ASSUME NEW r \in Run, FinishExpiry(r)
      PROVE  AllConsistent(rows')
  BY <1>e, <1>6, DispatchNextConsistent, OrchestrationAssumption
     DEF FinishExpiry
<1>7. CASE ApiStart
  <2>1. rows' = Recovered(rows) \/ DispatchNext(rows, active, lease)
    BY <1>7 DEF ApiStart
  <2> QED
    BY <1>0, <2>1, RecoveredConsistent, DispatchNextConsistent
<1>8. CASE ExpireLease \/ ApiCrash \/ RunnerNext \/ Tick
  <2>1. rows' = rows
    BY <1>8 DEF ExpireLease, ApiCrash, RunnerNext, HandleDispatch, HandleCancel,
       SendHeartbeat, ReceiveHeartbeat, FinishExecution, DeliveryFails,
       RetryDelivery, ReceiveReply, RunnerRestart, Tick
  <2> QED
    BY <2>1
<1> QED
  BY <1>1, <1>2, <1>3, <1>4, <1>5, <1>6, <1>7, <1>8 DEF Next, ApiNext

-----------------------------------------------------------------------------
(* Traces: what a run may have left in the processes and on the network,   *)
(* given its row.                                                          *)

(* A run that has not been claimed, or only by leases that were refused.   *)
Unseen(r) ==
  /\ r \notin executed \cup calls \cup expiring \cup cancels
  /\ active # r
  /\ dispatchMsg[r] = "none"

(* A run no runner has ever executed. *)
Untouched(r) ==
  /\ task[r] = "unknown"
  /\ heartbeatMsg[r] = "none"
  /\ r \notin resultMsgs \cup cancelled

TraceOK(r) ==
  /\ rows[r].status \in {"ABSENT", "QUEUED"} => Unseen(r)
  /\ r \notin executed => Untouched(r)
  /\ r \in executed => dispatchMsg[r] \notin {"request", "busy"}
  /\ r \in cancels => active # r /\ r \notin calls
  /\ r \in cancelled => active # r /\ rows[r].report = None
  /\ r \in resultMsgs \/ rows[r].report # None
       => r \in executed /\ task[r] # "executing"
  /\ reply[r] # "none" =>
       /\ r \notin resultMsgs
       /\ task[r] \in {"awaiting", "done"}
       /\ reply[r] = "accepted" <=> rows[r].fingerprint = r

MessagesOK ==
  /\ dispatchMsg \in [Run -> {"none", "request", "accepted", "busy", "refused"}]
  /\ heartbeatMsg \in [Run -> {"none", "request", "granted"}]
  /\ reply \in [Run -> {"none", "accepted", "rejected"}]
  /\ executed \subseteq Run /\ cancels \subseteq Run /\ cancelled \subseteq Run

TracesOK == MessagesOK /\ \A r \in Run : TraceOK(r)

TraceInv == OwnedInv /\ AllConsistent(rows) /\ TracesOK

(* What dispatchNext() does to a run: claims it, or leaves it alone.       *)
ClaimsRun(db, act, r) ==
  /\ act = None /\ blocked = 0 /\ Running(db) = {}
  /\ db[r].status = "QUEUED" /\ rows'[r].status = "RUNNING"
  /\ rows'[r].report = db[r].report
  /\ rows'[r].fingerprint = db[r].fingerprint
  /\ active' = r /\ dispatchMsg'[r] = "request"

LeavesRun(db, act, r) ==
  /\ rows'[r] = db[r]
  /\ r \in calls' => r \in calls
  /\ dispatchMsg'[r] = dispatchMsg[r]
  /\ active' = r => act = r

LEMMA DispatchNextRun ==
  ASSUME NEW db \in [Run -> Row], NEW act, NEW remaining, MessagesOK,
         DispatchNext(db, act, remaining)
  PROVE  /\ \A r \in Run : ClaimsRun(db, act, r) \/ LeavesRun(db, act, r)
         /\ dispatchMsg' \in
              [Run -> {"none", "request", "accepted", "busy", "refused"}]
<1> DEFINE free == act = None /\ blocked = 0 /\ \E r \in Run : Claimable(db, r)
<1>1. CASE ~free
  BY <1>1 DEF DispatchNext, LeavesRun, MessagesOK
<1>2. CASE free
  <2>1. PICK c \in Run :
          /\ Claimable(db, c)
          /\ rows' = Claimed(db, c)
          /\ active' = c
          /\ calls' = calls \cup {c}
          /\ dispatchMsg' = [dispatchMsg EXCEPT ![c] = "request"]
    BY <1>2 DEF DispatchNext
  <2>2. ClaimsRun(db, act, c)
    BY <1>2, <2>1
       DEF ClaimsRun, Claimable, Claimed, FirstInLine, Waiting, MessagesOK, Row
  <2>3. \A r \in Run \ {c} : LeavesRun(db, act, r)
    BY <2>1 DEF LeavesRun, Claimed, MessagesOK
  <2> QED
    BY <2>1, <2>2, <2>3 DEF MessagesOK
<1> QED
  BY <1>1, <1>2

(* A row the API has inserted, settled without a result, or left alone.    *)
Touched(row, new) ==
  \/ new = row
  \/ /\ row.status = "ABSENT" /\ new.status = "QUEUED"
     /\ new.report = None /\ new.fingerprint = None
  \/ /\ row.status = "RUNNING" /\ new.status \in Terminal
     /\ new.report = None /\ new.fingerprint = None

(* A turn of the API that changes rows in one of these ways and then lets  *)
(* dispatchNext() look for work.                                           *)
LEMMA LookTraces ==
  ASSUME TraceInv, NEW db \in [Run -> Row], NEW act, NEW remaining,
         DispatchNext(db, act, remaining), act = active,
         \A r \in Run : Touched(rows[r], db[r]),
         expiring' \subseteq expiring,
         UNCHANGED <<cancels, heartbeatVars, resultVars, taskVars>>
  PROVE  TracesOK'
<1> USE DEF heartbeatVars, resultVars, taskVars
<1>1. MessagesOK'
  BY DispatchNextRun DEF TraceInv, TracesOK, MessagesOK
<1>2. ASSUME NEW r \in Run
      PROVE  TraceOK(r)'
  <2>1. TraceOK(r) /\ Consistent(rows[r], r) /\ r # None
    BY StoreAssumption DEF TraceInv, TracesOK, AllConsistent
  <2>2. CASE ClaimsRun(db, act, r)
    <3>1. rows[r].status \in {"ABSENT", "QUEUED"}
      BY <2>2 DEF ClaimsRun, Touched, Terminal
    <3>2. Unseen(r) /\ Untouched(r)
      BY <2>1, <3>1 DEF TraceOK, Unseen
    <3>3. rows'[r].report = None /\ rows'[r].fingerprint = None
      BY <2>1, <2>2, <3>1 DEF ClaimsRun, Touched, Terminal, Consistent
    <3>4. reply[r] = "none"
      BY <2>1, <3>2 DEF TraceOK, Untouched
    <3> QED
      BY <2>2, <3>2, <3>3, <3>4 DEF ClaimsRun, TraceOK, Unseen, Untouched
  <2>3. CASE LeavesRun(db, act, r)
    <3>1. Touched(rows[r], rows'[r])
      BY <2>3 DEF LeavesRun
    <3>2. rows[r].status = "ABSENT" => reply[r] = "none"
      BY <2>1 DEF TraceOK, Unseen, Untouched
    <3>3. rows[r].status = "RUNNING" => rows[r].fingerprint = None
      BY <2>1 DEF Consistent
    <3> QED
      BY <2>1, <2>3, <3>1, <3>2, <3>3
         DEF LeavesRun, Touched, TraceOK, Unseen, Untouched, Terminal
  <2> QED
    BY <2>2, <2>3, DispatchNextRun DEF TraceInv, TracesOK
<1> QED
  BY <1>1, <1>2 DEF TracesOK

(* A row that is settled without a result. *)
LEMMA ErroredTouched ==
  ASSUME NEW db \in [Run -> Row], NEW r \in Run, NEW code \in ErrorCode,
         NEW s \in Run
  PROVE  Touched(db[s], SystemErrored(db, r, code, None)[s])
BY DEF Touched, SystemErrored, Running, Terminal, Row

LEMMA StartTraces ==
  ASSUME TraceInv, NEW k \in Key, NEW q \in Request,
         StartVerification(k, q) \/ StartReproducibility(k, q)
  PROVE  TracesOK'
<1> DEFINE n == NextSequence(rows)
<1>0. rows \in [Run -> Row] /\ TableOK(rows)
  BY DEF TraceInv, OwnedInv, TableInv, TableOK, QueueOK
<1>1. CASE StartVerification(k, q)
  <2> DEFINE db(r) == Inserted(rows, r, <<Public, k>>, q, n)
  <2>1. PICK r \in Run \ Present(rows) : DispatchNext(db(r), active, lease)
    BY <1>1 DEF StartVerification
  <2>2. db(r) \in [Run -> Row]
    <3>1. WaitingCount(rows) < WaitingLimit /\ <<Public, k>> \in Owner
      BY <1>1 DEF StartVerification, Owner
    <3> QED
      BY <1>0, <3>1, TurnTableOK DEF Turn, Appends, TableOK, QueueOK
  <2>3. \A s \in Run : Touched(rows[s], db(r)[s])
    BY <1>0 DEF Touched, Inserted, NoRow, Present
  <2>4. /\ expiring' = expiring
        /\ UNCHANGED <<cancels, heartbeatVars, resultVars, taskVars>>
    BY <1>1 DEF StartVerification
  <2> HIDE DEF db
  <2> QED
    BY <2>1, <2>2, <2>3, <2>4, LookTraces
<1>2. CASE StartReproducibility(k, q)
  <2> DEFINE half(j, b) == Inserted(rows, b, <<j, "baseline">>, q, n)
             db(j, b, c) ==
               Inserted(half(j, b), c, <<j, "candidate">>, q, n + 1)
  <2>1. PICK j \in Job, b \in Run \ Present(rows), c \in Run \ Present(rows) :
          /\ b # c
          /\ WaitingCount(rows) + 2 <= WaitingLimit
          /\ DispatchNext(db(j, b, c), active, lease)
    BY <1>2 DEF StartReproducibility
  <2>2. db(j, b, c) \in [Run -> Row]
    <3>1. <<j, "baseline">> \in Owner /\ <<j, "candidate">> \in Owner
      BY DEF Owner
    <3> QED
      BY <1>0, <2>1, <3>1, TurnTableOK DEF Turn, AppendsPair, TableOK, QueueOK
  <2>3. \A s \in Run : Touched(rows[s], db(j, b, c)[s])
    BY <1>0 DEF Touched, Inserted, NoRow, Present
  <2>4. /\ expiring' = expiring
        /\ UNCHANGED <<cancels, heartbeatVars, resultVars, taskVars>>
    BY <1>2 DEF StartReproducibility
  <2> HIDE DEF db
  <2> QED
    BY <2>1, <2>2, <2>3, <2>4, LookTraces
<1> QED
  BY <1>1, <1>2

LEMMA IdleTraces ==
  ASSUME TraceInv,
         \/ ReplayVerification \/ TimerFires
         \/ \E r \in Run : FinishExpiry(r)
  PROVE  TracesOK'
<1>0. rows \in [Run -> Row]
  BY DEF TraceInv, OwnedInv, TableInv, TableOK, QueueOK
<1>1. CASE ReplayVerification \/ TimerFires
  <2>1. /\ DispatchNext(rows, active, lease)
        /\ expiring' = expiring
        /\ UNCHANGED <<cancels, heartbeatVars, resultVars, taskVars>>
    BY <1>1 DEF ReplayVerification, TimerFires
  <2>2. \A s \in Run : Touched(rows[s], rows[s])
    BY DEF Touched
  <2> QED
    BY <1>0, <2>1, <2>2, LookTraces
<1>2. ASSUME NEW r \in Run, FinishExpiry(r)
      PROVE  TracesOK'
  <2> DEFINE db == SystemErrored(rows, r, "LEASE_EXPIRED", None)
  <2>1. /\ DispatchNext(db, active, lease)
        /\ expiring' \subseteq expiring
        /\ UNCHANGED <<cancels, heartbeatVars, resultVars, taskVars>>
    BY <1>2 DEF FinishExpiry
  <2>2. db \in [Run -> Row] /\ \A s \in Run : Touched(rows[s], db[s])
    BY <1>0, SystemErroredSettles, ErroredTouched, OrchestrationAssumption
  <2> HIDE DEF db
  <2> QED
    BY <2>1, <2>2, LookTraces
<1> QED
  BY <1>1, <1>2

(* The end of a dispatch call: a run that goes back into the queue was     *)
(* refused by a runner that had never taken it.                            *)
LEMMA DispatchEndsTraces ==
  ASSUME TraceInv, NEW r \in Run,
         DispatchReturns(r) \/ DispatchBusy(r) \/ DispatchFails(r)
  PROVE  TracesOK'
<1> USE DEF heartbeatVars, resultVars, taskVars
<1>0. /\ rows \in [Run -> Row] /\ r \in calls
      /\ calls \subseteq Run \ expiring /\ calls' = calls \ {r}
      /\ dispatchMsg' = [s \in Run |-> IF s = r /\ dispatchMsg[s] # "request"
                                       THEN "none" ELSE dispatchMsg[s]]
      /\ UNCHANGED <<expiring, heartbeatVars, resultVars, taskVars>>
  BY DEF TraceInv, OwnedInv, TableInv, TableOK, QueueOK, OwnershipOK, CallsOK,
     DispatchReturns, DispatchBusy, DispatchFails, HangUp
<1>1. active' \in {active, None} /\ cancels' \in {cancels, cancels \cup {r}}
  BY DEF DispatchReturns, DispatchBusy, DispatchFails
<1>2. MessagesOK'
  BY <1>0, <1>1 DEF TraceInv, TracesOK, MessagesOK
<1>3. ASSUME NEW s \in Run \ {r}
      PROVE  TraceOK(s)'
  <2>1. rows'[s] = rows[s]
    BY <1>0 DEF DispatchReturns, DispatchBusy, DispatchFails, Requeued,
       SystemErrored
  <2>2. TraceOK(s) /\ s # None
    BY StoreAssumption DEF TraceInv, TracesOK
  <2> QED
    BY <1>0, <1>1, <2>1, <2>2 DEF TraceOK, Unseen, Untouched
<1>4. TraceOK(r) /\ r # None /\ Consistent(rows[r], r)
  BY StoreAssumption DEF TraceInv, TracesOK, AllConsistent
<1>5. rows[r].status \notin {"ABSENT", "QUEUED"}
  BY <1>0, <1>4 DEF TraceOK, Unseen
<1>6. CASE DispatchReturns(r)
  <2>1. UNCHANGED <<rows, active, cancels>>
    BY <1>6 DEF DispatchReturns
  <2> QED
    BY <1>0, <1>2, <1>3, <1>4, <1>5, <2>1
       DEF TracesOK, TraceOK, Unseen, Untouched
<1>7. CASE DispatchBusy(r)
  <2>1. /\ dispatchMsg[r] = "busy" /\ active' = None /\ cancels' = cancels
        /\ rows'[r].report = None /\ rows'[r].fingerprint = None
    BY <1>0, <1>7 DEF DispatchBusy, Requeued, Row
  <2>2. r \notin executed /\ Untouched(r) /\ r \notin cancels
    BY <1>0, <1>4, <2>1 DEF TraceOK
  <2>3. dispatchMsg'[r] = "none" /\ reply[r] = "none"
    BY <1>0, <1>4, <2>1, <2>2 DEF TraceOK, Untouched
  <2>4. TraceOK(r)'
    BY <1>0, <1>4, <2>1, <2>2, <2>3 DEF TraceOK, Unseen, Untouched
  <2> QED
    BY <1>2, <1>3, <2>4 DEF TracesOK
<1>8. CASE DispatchFails(r)
  <2>1. /\ active' = None /\ cancels' = cancels \cup {r}
        /\ rows' = SystemErrored(rows, r, "RUNNER_UNAVAILABLE", None)
    BY <1>8 DEF DispatchFails
  <2>2. \/ rows'[r] = rows[r]
        \/ /\ rows[r].status = "RUNNING" /\ rows'[r].status = "SYSTEM_ERROR"
           /\ rows'[r].report = None /\ rows'[r].fingerprint = None
    BY <1>0, <2>1 DEF SystemErrored, Running, Row
  <2>3. rows[r].status = "RUNNING" => rows[r].fingerprint = None
    BY <1>4 DEF Consistent
  <2>4. TraceOK(r)'
    BY <1>0, <1>4, <1>5, <2>1, <2>2, <2>3 DEF TraceOK, Unseen, Untouched
  <2> QED
    BY <1>2, <1>3, <2>4 DEF TracesOK
<1> QED
  BY <1>6, <1>7, <1>8

LEMMA HeartbeatTraces ==
  ASSUME TraceInv, NEW r \in Run, NEW stage \in Stage \cup {None},
         HandleHeartbeat(r, stage)
  PROVE  TracesOK'
<1> USE DEF resultVars, taskVars
<1>1. /\ heartbeatMsg[r] = "request"
      /\ \E m \in {"granted", "none"} :
           heartbeatMsg' = [heartbeatMsg EXCEPT ![r] = m]
      /\ UNCHANGED <<active, expiring, calls, dispatchMsg, cancels, resultVars,
                     taskVars>>
  BY DEF HandleHeartbeat
<1>2. MessagesOK'
  BY <1>1 DEF TraceInv, TracesOK, MessagesOK
<1>3. ASSUME NEW s \in Run
      PROVE  TraceOK(s)'
  <2>1. TraceOK(s) /\ TraceOK(r)
    BY DEF TraceInv, TracesOK
  <2>2. r \in executed
    BY <1>1, <2>1 DEF TraceOK, Untouched
  <2>3. /\ rows'[s].status = rows[s].status /\ rows'[s].report = rows[s].report
        /\ rows'[s].fingerprint = rows[s].fingerprint
    <3>1. rows \in [Run -> Row]
      BY DEF TraceInv, OwnedInv, TableInv, TableOK, QueueOK
    <3>2. rows' = rows \/ rows' = Heartbeaten(rows, r, stage)
      BY DEF HandleHeartbeat
    <3> QED
      BY <3>1, <3>2 DEF Heartbeaten, Row
  <2>4. s # r => heartbeatMsg'[s] = heartbeatMsg[s]
    BY <1>1 DEF TraceInv, TracesOK, MessagesOK
  <2> QED
    BY <1>1, <2>1, <2>2, <2>3, <2>4 DEF TraceOK, Unseen, Untouched
<1> QED
  BY <1>2, <1>3 DEF TracesOK

(* What result() makes of the rows: no other run's, and the run's own only *)
(* with its own fingerprint or with none.                                  *)
LEMMA SettledRow ==
  ASSUME TableInv, NEW r \in resultMsgs, NEW issued \in BOOLEAN,
         r \in Running(rows)
  PROVE  /\ \A s \in Run \ {r} : Settled(r, issued)[s] = rows[s]
         /\ Settled(r, issued)[r].status \in Terminal
<1> DEFINE d == delivery[r]
           report == [run |-> r, request |-> rows[r].request,
                      verdict |-> d.verdict]
<1>1. rows \in [Run -> Row] /\ r \in Run /\ d \in Delivery
  BY DEF TableInv, TableOK, QueueOK, ResultsOK
<1>2. \A code, print :
        /\ \A s \in Run \ {r} : SystemErrored(rows, r, code, print)[s] = rows[s]
        /\ SystemErrored(rows, r, code, print)[r].status \in Terminal
  BY <1>1 DEF SystemErrored, Terminal, Row
<1>3. ASSUME d.status \notin {"SYSTEM_ERROR", "WRONG_RUNTIME"}
      PROVE  /\ \A s \in Run \ {r} :
                  Completed(rows, r, d.status, report, report, r)[s] = rows[s]
             /\ Completed(rows, r, d.status, report, report, r)[r].status
                  \in Terminal
  <2>1. d.status \in {"COMPLETED", "TIMEOUT"}
    BY <1>1, <1>3, OrchestrationAssumption DEF Delivery
  <2> HIDE DEF d, report
  <2> QED
    BY <1>1, <2>1 DEF Completed, Terminal, Row
<1>4. CASE d.status \in {"SYSTEM_ERROR", "WRONG_RUNTIME"}
  BY <1>2, <1>4 DEF Settled
<1>5. CASE d.status \notin {"SYSTEM_ERROR", "WRONG_RUNTIME"}
  <2>1. Settled(r, issued) =
          IF issued /\ Completable(rows, r, d.status, report, report)
          THEN Completed(rows, r, d.status, report, report, r)
          ELSE SystemErrored(rows, r, "RECEIPT_ISSUANCE_FAILED", None)
    BY <1>5 DEF Settled
  <2> HIDE DEF d, report
  <2> QED
    BY <1>2, <1>3, <1>5, <2>1
<1> QED
  BY <1>4, <1>5

(* The answer to a result says what the table holds, and no copy of that   *)
(* result is left to change it.                                            *)
LEMMA ResultTraces ==
  ASSUME TraceInv, NEW r \in Run, NEW issued \in BOOLEAN,
         HandleResult(r, issued)
  PROVE  TracesOK'
<1> USE DEF heartbeatVars, taskVars
<1> DEFINE known == ResultDeliveryOutcome(rows, r, r)
           settling == known = "PENDING" /\ ActiveLease(r)
<1>0. /\ rows \in [Run -> Row] /\ r \in resultMsgs
      /\ resultMsgs' = resultMsgs \ {r}
      /\ UNCHANGED <<expiring, cancels, heartbeatVars, taskVars>>
  BY DEF HandleResult, TraceInv, OwnedInv, TableInv, TableOK, QueueOK
<1>1. TraceOK(r) /\ r # None /\ Consistent(rows[r], r) /\ reply[r] = "none"
  BY <1>0, StoreAssumption DEF TraceInv, TracesOK, AllConsistent, TraceOK
<1>2. r \in executed /\ task[r] # "executing"
  BY <1>0, <1>1 DEF TraceOK
<1>a. ASSUME NEW accepted \in BOOLEAN, Answer(r, accepted)
      PROVE  /\ reply' \in [Run -> {"none", "accepted", "rejected"}]
             /\ \A s \in Run \ {r} : reply'[s] = reply[s]
             /\ reply'[r] # "none" =>
                  task[r] = "awaiting" /\ (reply'[r] = "accepted" <=> accepted)
  <2>1. reply \in [Run -> {"none", "accepted", "rejected"}]
    BY DEF TraceInv, TracesOK, MessagesOK
  <2>2. CASE task[r] # "awaiting"
    BY <1>1, <1>a, <2>1, <2>2 DEF Answer
  <2>3. CASE task[r] = "awaiting" /\ accepted = TRUE
    BY <1>a, <2>1, <2>3 DEF Answer
  <2>4. CASE task[r] = "awaiting" /\ accepted = FALSE
    BY <1>a, <2>1, <2>4 DEF Answer
  <2> QED
    BY <2>2, <2>3, <2>4
<1>3. CASE ~settling
  <2>1. Answer(r, known = "ACCEPTED") /\ UNCHANGED leaseVars
    BY <1>3 DEF HandleResult
  <2>2. known = "ACCEPTED" <=> rows[r].fingerprint = r
    BY <1>1 DEF ResultDeliveryOutcome, Consistent
  <2>3. MessagesOK'
    BY <1>0, <1>a, <2>1 DEF TraceInv, TracesOK, MessagesOK, leaseVars
  <2>4. ASSUME NEW s \in Run \ {r}
        PROVE  TraceOK(s)'
    <3>1. reply'[s] = reply[s] /\ TraceOK(s)
      BY <1>a, <2>1 DEF TraceInv, TracesOK
    <3> QED
      BY <1>0, <2>1, <3>1 DEF TraceOK, Unseen, Untouched, leaseVars
  <2>5. TraceOK(r)'
    <3>1. reply'[r] # "none" => task[r] = "awaiting"
                         /\ (reply'[r] = "accepted" <=> rows[r].fingerprint = r)
      BY <1>a, <2>1, <2>2
    <3> HIDE DEF known
    <3> QED
      BY <1>0, <1>1, <1>2, <2>1, <3>1 DEF TraceOK, Unseen, Untouched, leaseVars
  <2> QED
    BY <2>3, <2>4, <2>5 DEF TracesOK
<1>4. CASE settling
  <2> DEFINE db == Settled(r, issued)
  <2>1. DispatchNext(db, None, 0) /\ Answer(r, db[r].fingerprint = r)
    BY <1>4 DEF HandleResult
  <2>2. active = r /\ r \in Running(rows)
    BY <1>1, <1>4 DEF ActiveLease, HandleResult, TraceInv, OwnedInv, OwnershipOK, Owns
  <2>3. /\ db \in [Run -> Row] /\ db[r].status \in Terminal
        /\ \A s \in Run \ {r} : db[s] = rows[s]
    BY <1>0, <2>2, SettledNotRunning, SettledRow DEF TraceInv, OwnedInv
  <2> HIDE DEF db
  <2>4. /\ \A s \in Run : ClaimsRun(db, None, s) \/ LeavesRun(db, None, s)
        /\ dispatchMsg' \in
             [Run -> {"none", "request", "accepted", "busy", "refused"}]
    BY <2>1, <2>3, DispatchNextRun DEF TraceInv, TracesOK
  <2>5. MessagesOK'
    BY <1>0, <1>a, <2>1, <2>4 DEF TraceInv, TracesOK, MessagesOK
  <2>6. ASSUME NEW s \in Run \ {r}
        PROVE  TraceOK(s)'
    <3>1. /\ reply'[s] = reply[s] /\ TraceOK(s) /\ db[s] = rows[s]
          /\ Consistent(rows[s], s) /\ s # None
      BY <1>a, <2>1, <2>3, StoreAssumption
         DEF TraceInv, TracesOK, AllConsistent
    <3>2. CASE ClaimsRun(db, None, s)
      <4>1. Unseen(s) /\ Untouched(s) /\ rows'[s].report = None
        BY <3>1, <3>2 DEF ClaimsRun, TraceOK, Unseen, Consistent
      <4>2. reply[s] = "none"
        BY <3>1, <4>1 DEF TraceOK, Untouched
      <4> QED
        BY <1>0, <3>1, <3>2, <4>1, <4>2 DEF ClaimsRun, TraceOK, Unseen, Untouched
    <3>3. CASE LeavesRun(db, None, s)
      BY <1>0, <3>1, <3>3 DEF LeavesRun, TraceOK, Unseen, Untouched
    <3> QED
      BY <2>4, <3>2, <3>3
  <2>7. TraceOK(r)'
    <3>1. LeavesRun(db, None, r)
      BY <2>3, <2>4 DEF ClaimsRun, Terminal
    <3>2. reply'[r] # "none" => task[r] = "awaiting"
                         /\ (reply'[r] = "accepted" <=> rows'[r].fingerprint = r)
      BY <1>a, <2>1, <3>1 DEF LeavesRun
    <3>3. r \notin cancels /\ r \notin cancelled /\ active' # r
      BY <1>1, <2>2, <3>1 DEF TraceOK, LeavesRun
    <3> QED
      BY <1>0, <1>1, <1>2, <2>3, <3>1, <3>2, <3>3
         DEF LeavesRun, TraceOK, Unseen, Untouched, Terminal
  <2> QED
    BY <2>5, <2>6, <2>7 DEF TracesOK
<1> QED
  BY <1>3, <1>4

LEMMA ExpireTraces ==
  ASSUME TraceInv, ExpireLease
  PROVE  TracesOK'
<1> USE DEF heartbeatVars, resultVars, taskVars
<1>1. /\ active # None /\ lease = 0 /\ active' = None
      /\ expiring' = expiring \cup {active} /\ cancels' = cancels \cup {active}
      /\ UNCHANGED <<rows, calls, dispatchMsg, heartbeatVars, resultVars,
                     taskVars>>
  BY DEF ExpireLease
<1>2. active \in Run /\ active \notin calls
  BY <1>1, OrchestrationAssumption
     DEF TraceInv, OwnedInv, OwnershipOK, Owns, Stopped, CallsOK
<1>3. MessagesOK'
  BY <1>1, <1>2 DEF TraceInv, TracesOK, MessagesOK
<1>4. ASSUME NEW s \in Run
      PROVE  TraceOK(s)'
  <2>1. TraceOK(s) /\ s # None
    BY StoreAssumption DEF TraceInv, TracesOK
  <2> QED
    BY <1>1, <1>2, <2>1 DEF TraceOK, Unseen, Untouched
<1> QED
  BY <1>3, <1>4 DEF TracesOK

LEMMA RestartTraces ==
  ASSUME TraceInv, ApiCrash \/ ApiStart
  PROVE  TracesOK'
<1> USE DEF heartbeatVars, resultVars, taskVars
<1>0. rows \in [Run -> Row]
  BY DEF TraceInv, OwnedInv, TableInv, TableOK, QueueOK
<1>1. CASE ApiCrash
  <2>1. /\ active' = None /\ expiring' = {} /\ calls' = {}
        /\ dispatchMsg' = [s \in Run |->
             IF s \in calls /\ dispatchMsg[s] # "request" THEN "none"
                                                      ELSE dispatchMsg[s]]
        /\ UNCHANGED <<rows, cancels, heartbeatVars, resultVars, taskVars>>
    BY <1>1 DEF ApiCrash, HangUp
  <2>2. MessagesOK'
    BY <2>1 DEF TraceInv, TracesOK, MessagesOK
  <2>3. ASSUME NEW s \in Run
        PROVE  TraceOK(s)'
    <3>1. TraceOK(s) /\ s # None
      BY StoreAssumption DEF TraceInv, TracesOK
    <3> QED
      BY <2>1, <3>1 DEF TraceOK, Unseen, Untouched
  <2> QED
    BY <2>2, <2>3 DEF TracesOK
<1>2. CASE ApiStart /\ Running(rows) = {}
  <2>1. /\ DispatchNext(rows, active, lease)
        /\ expiring' = expiring
        /\ UNCHANGED <<cancels, heartbeatVars, resultVars, taskVars>>
    BY <1>2 DEF ApiStart
  <2>2. \A s \in Run : Touched(rows[s], rows[s])
    BY DEF Touched
  <2> QED
    BY <1>0, <2>1, <2>2, LookTraces
<1>3. CASE ApiStart /\ Running(rows) # {}
  <2>1. /\ rows' = Recovered(rows) /\ cancels' = cancels \cup Running(rows)
        /\ UNCHANGED <<active, expiring, calls, dispatchMsg, heartbeatVars,
                       resultVars, taskVars>>
    BY <1>3 DEF ApiStart
  <2>2. active = None /\ calls = {}
    BY <1>3 DEF ApiStart, TraceInv, OwnedInv, OwnershipOK, Stopped
  <2>3. MessagesOK'
    BY <2>1 DEF TraceInv, TracesOK, MessagesOK, Running
  <2>4. ASSUME NEW s \in Run
        PROVE  TraceOK(s)'
    <3>1. TraceOK(s) /\ Consistent(rows[s], s) /\ s # None
      BY StoreAssumption DEF TraceInv, TracesOK, AllConsistent
    <3>2. \/ rows'[s] = rows[s] /\ s \notin Running(rows)
          \/ /\ s \in Running(rows) /\ rows'[s].status = "SYSTEM_ERROR"
             /\ rows'[s].report = None /\ rows'[s].fingerprint = None
      BY <1>0, <2>1 DEF Recovered, SystemErrored, Running, Row
    <3>3. s \in Running(rows) =>
            rows[s].status = "RUNNING" /\ rows[s].fingerprint = None
      BY <3>1 DEF Running, Consistent
    <3> QED
      BY <2>1, <2>2, <3>1, <3>2, <3>3 DEF TraceOK, Unseen, Untouched
  <2> QED
    BY <2>3, <2>4 DEF TracesOK
<1> QED
  BY <1>1, <1>2, <1>3

(* The runner: it executes only what it is asked to, and the request is    *)
(* gone once it has.                                                       *)
LEMMA DispatchTraces ==
  ASSUME TraceInv, NEW r \in Run, HandleDispatch(r)
  PROVE  TracesOK'
<1> USE DEF apiVars, heartbeatVars, resultVars
<1>0. /\ dispatchMsg[r] = "request" /\ TraceOK(r) /\ MessagesOK
      /\ UNCHANGED <<rows, active, expiring, calls, cancels, heartbeatVars,
                     resultVars, cancelled, delivery>>
  BY DEF HandleDispatch, TraceInv, TracesOK
<1>1. /\ r \notin executed /\ Untouched(r)
      /\ rows[r].status \notin {"ABSENT", "QUEUED"}
      /\ reply[r] = "none" /\ rows[r].report = None
  BY <1>0 DEF TraceOK, Unseen, Untouched
<1>2. PICK m \in {"none", "accepted", "busy", "refused"} :
        /\ dispatchMsg' = [dispatchMsg EXCEPT ![r] = m]
        /\ \/ /\ m \in {"none", "accepted"}
              /\ task' = [task EXCEPT ![r] = "executing"]
              /\ executed' = executed \cup {r}
           \/ UNCHANGED <<task, executed>>
  BY DEF HandleDispatch
<1>3. task \in [Run -> {"unknown", "executing", "awaiting", "retrying", "done"}]
  BY DEF TraceInv, OwnedInv, TableInv, ResultsOK
<1>4. MessagesOK'
  BY <1>0, <1>2 DEF MessagesOK
<1>5. ASSUME NEW s \in Run
      PROVE  TraceOK(s)'
  <2>1. TraceOK(s)
    BY DEF TraceInv, TracesOK
  <2>2. CASE s = r
    BY <1>0, <1>1, <1>2, <1>3, <2>2 DEF TraceOK, Unseen, Untouched, MessagesOK
  <2>3. CASE s # r
    <3>1. /\ dispatchMsg'[s] = dispatchMsg[s] /\ task'[s] = task[s]
          /\ s \in executed' <=> s \in executed
      BY <1>0, <1>2, <1>3, <2>3 DEF MessagesOK
    <3> QED
      BY <1>0, <2>1, <3>1 DEF TraceOK, Unseen, Untouched
  <2> QED
    BY <2>2, <2>3
<1> QED
  BY <1>4, <1>5 DEF TracesOK

(* One execution of a run: heartbeats, the cancellation, the delivery of   *)
(* the result and its retries.                                             *)
LEMMA ExecutionTraces ==
  ASSUME TraceInv, NEW r \in Run,
         \/ HandleCancel(r) \/ SendHeartbeat(r) \/ ReceiveHeartbeat(r)
         \/ \E d \in Delivery : FinishExecution(r, d)
         \/ DeliveryFails(r) \/ RetryDelivery(r) \/ ReceiveReply(r)
  PROVE  TracesOK'
<1> USE DEF apiVars, heartbeatVars, resultVars, taskVars
<1>0. /\ UNCHANGED <<rows, active, expiring, calls, dispatchMsg, executed>>
      /\ MessagesOK /\ TraceOK(r)
      /\ task \in [Run -> {"unknown", "executing", "awaiting", "retrying", "done"}]
  BY DEF HandleCancel, SendHeartbeat, ReceiveHeartbeat, FinishExecution,
     DeliveryFails, RetryDelivery, ReceiveReply, TraceInv, TracesOK, OwnedInv,
     TableInv, ResultsOK
<1>1. task[r] # "unknown" \/ heartbeatMsg[r] # "none" => r \in executed
  BY <1>0 DEF TraceOK, Untouched
<1>2. ASSUME MessagesOK', TraceOK(r)',
             \A s \in Run \ {r} :
               /\ task'[s] = task[s] /\ heartbeatMsg'[s] = heartbeatMsg[s]
               /\ reply'[s] = reply[s]
               /\ s \in resultMsgs' <=> s \in resultMsgs
               /\ s \in cancels' <=> s \in cancels
               /\ s \in cancelled' <=> s \in cancelled
      PROVE  TracesOK'
  <2>1. ASSUME NEW s \in Run \ {r}
        PROVE  TraceOK(s)'
    <3>1. TraceOK(s)
      BY DEF TraceInv, TracesOK
    <3> QED
      BY <1>0, <1>2, <3>1 DEF TraceOK, Unseen, Untouched
  <2> QED
    BY <1>2, <2>1 DEF TracesOK
<1>3. CASE HandleCancel(r)
  <2>1. /\ r \in cancels /\ cancels' = cancels \ {r}
        /\ cancelled' \in {cancelled, cancelled \cup {r}}
        /\ r \in cancelled' \ cancelled => task[r] = "executing"
        /\ UNCHANGED <<heartbeatVars, resultVars, task>>
    BY <1>3 DEF HandleCancel, Executing
  <2>2. MessagesOK'
    BY <1>0, <2>1 DEF MessagesOK
  <2>3. TraceOK(r)'
    BY <1>0, <1>1, <2>1 DEF TraceOK, Unseen, Untouched
  <2> QED
    BY <1>2, <2>1, <2>2, <2>3
<1>4. CASE SendHeartbeat(r)
  <2>1. /\ task[r] = "executing"
        /\ heartbeatMsg' = [heartbeatMsg EXCEPT ![r] = "request"]
        /\ UNCHANGED <<cancels, resultVars, task, cancelled>>
    BY <1>4 DEF SendHeartbeat
  <2>2. MessagesOK'
    BY <1>0, <2>1 DEF MessagesOK
  <2>3. TraceOK(r)'
    BY <1>0, <1>1, <2>1 DEF TraceOK, Unseen, Untouched
  <2> QED
    BY <1>0, <1>2, <2>1, <2>2, <2>3 DEF MessagesOK
<1>5. CASE ReceiveHeartbeat(r)
  <2>1. /\ heartbeatMsg[r] = "granted"
        /\ heartbeatMsg' = [heartbeatMsg EXCEPT ![r] = "none"]
        /\ UNCHANGED <<cancels, resultVars, task, cancelled>>
    BY <1>5 DEF ReceiveHeartbeat
  <2>2. MessagesOK'
    BY <1>0, <2>1 DEF MessagesOK
  <2>3. TraceOK(r)'
    BY <1>0, <1>1, <2>1 DEF TraceOK, Unseen, Untouched
  <2> QED
    BY <1>0, <1>2, <2>1, <2>2, <2>3 DEF MessagesOK
<1>6. ASSUME task[r] \in {"executing", "retrying"}, Deliver(r),
             UNCHANGED <<heartbeatVars, cancels, reply, cancelled>>
      PROVE  TracesOK'
  <2>1. \E t \in {"awaiting", "done"} : task' = [task EXCEPT ![r] = t]
    BY <1>6 DEF Deliver
  <2>2. resultMsgs' \in {resultMsgs, resultMsgs \cup {r}}
    BY <1>6 DEF Deliver
  <2>3. reply[r] = "none"
    BY <1>0, <1>6 DEF TraceOK
  <2>4. MessagesOK'
    BY <1>0, <1>6 DEF MessagesOK
  <2>5. TraceOK(r)'
    BY <1>0, <1>1, <1>6, <2>1, <2>2, <2>3 DEF TraceOK, Unseen, Untouched
  <2> QED
    BY <1>0, <1>2, <1>6, <2>1, <2>2, <2>4, <2>5
<1>7. ASSUME NEW d \in Delivery, FinishExecution(r, d)
      PROVE  TracesOK'
  BY <1>6, <1>7 DEF FinishExecution
<1>8. CASE RetryDelivery(r)
  BY <1>6, <1>8 DEF RetryDelivery
<1>9. CASE DeliveryFails(r)
  <2>1. /\ task[r] = "awaiting"
        /\ \E t \in {"retrying", "done"} : task' = [task EXCEPT ![r] = t]
        /\ reply' = [reply EXCEPT ![r] = "none"]
        /\ UNCHANGED <<heartbeatVars, cancels, resultMsgs, cancelled>>
    BY <1>9 DEF DeliveryFails
  <2>2. MessagesOK'
    BY <1>0, <2>1 DEF MessagesOK
  <2>3. TraceOK(r)'
    BY <1>0, <1>1, <2>1 DEF TraceOK, Unseen, Untouched, MessagesOK
  <2> QED
    BY <1>0, <1>2, <2>1, <2>2, <2>3 DEF MessagesOK
<1>10. CASE ReceiveReply(r)
  <2>1. /\ task[r] = "awaiting" /\ task' = [task EXCEPT ![r] = "done"]
        /\ UNCHANGED <<heartbeatVars, cancels, resultVars, cancelled>>
    BY <1>10 DEF ReceiveReply
  <2>2. MessagesOK'
    BY <1>0, <2>1 DEF MessagesOK
  <2>3. TraceOK(r)'
    BY <1>0, <1>1, <2>1 DEF TraceOK, Unseen, Untouched
  <2> QED
    BY <1>0, <1>2, <2>1, <2>2, <2>3
<1> QED
  BY <1>3, <1>4, <1>5, <1>7, <1>8, <1>9, <1>10

LEMMA RunnerRestartTraces ==
  ASSUME TraceInv, RunnerRestart
  PROVE  TracesOK'
<1>1. /\ UNCHANGED <<rows, active, expiring, calls, dispatchMsg, cancels,
                     executed, resultMsgs>>
      /\ task' = [s \in Run |-> "unknown"] /\ reply' = [s \in Run |-> "none"]
      /\ cancelled' = {}
      /\ heartbeatMsg' = [s \in Run |-> IF heartbeatMsg[s] = "granted"
                                        THEN "none" ELSE heartbeatMsg[s]]
  BY DEF RunnerRestart, apiVars
<1>2. MessagesOK'
  BY <1>1 DEF TraceInv, TracesOK, MessagesOK
<1>3. ASSUME NEW s \in Run
      PROVE  TraceOK(s)'
  <2>1. TraceOK(s)
    BY DEF TraceInv, TracesOK
  <2> QED
    BY <1>1, <2>1 DEF TraceOK, Unseen, Untouched
<1> QED
  BY <1>2, <1>3 DEF TracesOK

LEMMA NextTraces ==
  ASSUME TraceInv, [Next]_vars
  PROVE  TracesOK'
<1>1. CASE Tick \/ UNCHANGED vars
  <2>1. UNCHANGED <<rows, active, expiring, calls, dispatchMsg, heartbeatMsg,
                    cancels, resultMsgs, reply, task, cancelled, executed>>
    BY <1>1 DEF Tick, vars, resultVars
  <2> QED
    BY <2>1
       DEF TraceInv, TracesOK, MessagesOK, TraceOK, Unseen, Untouched
<1> QED
  BY <1>1, StartTraces, IdleTraces, DispatchEndsTraces, HeartbeatTraces,
     ResultTraces, ExpireTraces, RestartTraces, DispatchTraces,
     ExecutionTraces, RunnerRestartTraces
     DEF Next, ApiNext, RunnerNext

LEMMA TraceAlways == Spec => []TraceInv
<1>1. Init => TraceInv
  <2> SUFFICES ASSUME Init PROVE TraceInv
    OBVIOUS
  <2>1. AllConsistent(rows)
    BY DEF Init, StoreInit, AllConsistent, Consistent, NoRow
  <2>2. TracesOK
    BY StoreAssumption
       DEF Init, StoreInit, NoRow, TracesOK, MessagesOK, TraceOK, Unseen, Untouched
  <2> QED
    BY <2>1, <2>2, InitOwnedInv DEF TraceInv
<1>2. TraceInv /\ [Next]_vars => TraceInv'
  <2> SUFFICES ASSUME TraceInv, [Next]_vars PROVE TraceInv'
    OBVIOUS
  <2>1. AllConsistent(rows')
    BY NextConsistent DEF TraceInv, OwnedInv, vars
  <2> QED
    BY <2>1, NextOwnedInv, NextTraces DEF TraceInv
<1> QED
  BY <1>1, <1>2, PTL DEF Spec

(* Whatever is lost, refused or restarted, a run in the queue has left no  *)
(* trace in either process or on the network, so that a later lease of it  *)
(* cannot meet the messages of an earlier one.                             *)
THEOREM SystemQueuedUnseen == Spec => []QueuedUnseen
<1>1. TraceInv => QueuedUnseen
  <2> SUFFICES ASSUME TraceInv, NEW r \in Waiting(rows)
               PROVE  /\ r \notin executed \cup calls \cup expiring \cup cancels
                                   \cup resultMsgs
                      /\ dispatchMsg[r] = "none" /\ heartbeatMsg[r] = "none"
                      /\ task[r] = "unknown"
    BY DEF QueuedUnseen
  <2>1. TraceOK(r) /\ rows[r].status = "QUEUED"
    BY DEF TraceInv, TracesOK, Waiting
  <2> QED
    BY <2>1 DEF TraceOK, Unseen, Untouched
<1> QED
  BY <1>1, TraceAlways, PTL

(* ... the runner's answer to a delivery says what the table holds, for as *)
(* long as the answer is on its way, ...                                   *)
THEOREM SystemReplyMatchesStore == Spec => []ReplyMatchesStore
<1>1. TraceInv => ReplyMatchesStore
  BY DEF TraceInv, TracesOK, TraceOK, ReplyMatchesStore
<1> QED
  BY <1>1, TraceAlways, PTL

(* ... an execution the API has cancelled never becomes a verdict, ...     *)
THEOREM SystemCancelledHasNoVerdict == Spec => []CancelledHasNoVerdict
<1>1. TraceInv => CancelledHasNoVerdict
  BY DEF TraceInv, TracesOK, MessagesOK, TraceOK, CancelledHasNoVerdict
<1> QED
  BY <1>1, TraceAlways, PTL

(* ... what the API stores of an ended run is what its readers rely on ... *)
THEOREM SystemOutcomeConsistent == Spec => []OutcomeConsistent
<1>1. TraceInv => OutcomeConsistent
  BY DEF TraceInv, AllConsistent, Consistent, OutcomeConsistent
<1> QED
  BY <1>1, TraceAlways, PTL

(* ... and no run is executed a second time, not even by a runner that has *)
(* forgotten, in a restart, that it has executed it.                       *)
THEOREM SystemAtMostOnce == Spec => AtMostOnce
<1> DEFINE Once == \A r \in executed :
                     task'[r] = "executing" => task[r] = "executing"
<1>1. TraceInv /\ [Next]_vars => [Once]_vars
  <2> SUFFICES ASSUME TraceInv, Next, NEW r \in executed,
                      task'[r] = "executing", task[r] # "executing"
               PROVE  FALSE
    OBVIOUS
  <2>1. /\ r \in Run /\ TraceOK(r)
        /\ task \in [Run -> {"unknown", "executing", "awaiting", "retrying", "done"}]
    BY DEF TraceInv, TracesOK, MessagesOK, OwnedInv, TableInv, ResultsOK
  <2>2. UNCHANGED task \/ RunnerNext
    BY DEF Next, ApiNext, StartVerification, StartReproducibility,
       ReplayVerification, DispatchReturns, DispatchBusy, DispatchFails,
       HandleHeartbeat, HandleResult, ExpireLease, FinishExpiry, TimerFires,
       ApiCrash, ApiStart, Tick, taskVars
  <2>3. ASSUME NEW s \in Run, HandleDispatch(s)
        PROVE  s = r
    <3>1. task' = task \/ task' = [task EXCEPT ![s] = "executing"]
      BY <2>3 DEF HandleDispatch
    <3> QED
      BY <2>1, <3>1
  <2>4. ASSUME NEW s \in Run,
               \/ HandleCancel(s) \/ SendHeartbeat(s) \/ ReceiveHeartbeat(s)
               \/ \E d \in Delivery : FinishExecution(s, d)
               \/ DeliveryFails(s) \/ RetryDelivery(s) \/ ReceiveReply(s)
        PROVE  FALSE
    <3>1. \/ task' = task
          \/ \E t \in {"awaiting", "retrying", "done"} :
               task' = [task EXCEPT ![s] = t]
      BY <2>4 DEF HandleCancel, SendHeartbeat, ReceiveHeartbeat, FinishExecution,
         Deliver, DeliveryFails, RetryDelivery, ReceiveReply, taskVars
    <3> QED
      BY <2>1, <3>1
  <2>5. ~RunnerRestart
    BY <2>1 DEF RunnerRestart
  <2>6. HandleDispatch(r)
    BY <2>2, <2>3, <2>4, <2>5 DEF RunnerNext
  <2> QED
    BY <2>1, <2>6 DEF HandleDispatch, TraceOK
<1>2. Spec => [][Once]_vars
  BY <1>1, TraceAlways, PTL DEF Spec
<1> QED
  BY <1>2 DEF AtMostOnce

-----------------------------------------------------------------------------
(* Exclusion: whoever may still execute is bounded by the lease of the     *)
(* active run, or by the quarantine that follows an ambiguous failure.     *)

(* Nothing lets r execute for longer than n. *)
Within(r, n) ==
  /\ dispatchMsg[r] = "request" => grant[r] <= n
  /\ task[r] = "executing" => runnerLease[r] <= n
  /\ task[r] = "executing" /\ heartbeatMsg[r] = "granted"
       => heartbeatGrant[r] <= n

Contained(r, act, remaining) ==
  \/ Within(r, 0)
  \/ act = r /\ Within(r, remaining)
  \/ act = None /\ Within(r, blocked)

TimesOK ==
  /\ lease \in 0..LeaseDuration /\ blocked \in Nat
  /\ grant \in [Run -> 0..LeaseDuration]
  /\ runnerLease \in [Run -> 0..LeaseDuration]
  /\ heartbeatGrant \in [Run -> 0..LeaseDuration]
  /\ apiCrashes \in Nat

(* The quarantine is kept in memory only, so that it holds until the API   *)
(* crashes for the first time.                                             *)
ExclusionOK ==
  /\ TimesOK
  /\ apiCrashes = 0 => apiUp /\ \A r \in Run : Contained(r, active, lease)

ExclusionInv == TraceInv /\ ExclusionOK

LEMMA NextTimes ==
  ASSUME TraceInv, TimesOK, [Next]_vars
  PROVE  TimesOK'
<1>1. lease' \in 0..LeaseDuration /\ grant' \in [Run -> 0..LeaseDuration]
  BY NextOwnedInv DEF TraceInv, OwnedInv, OwnershipOK, CallsOK
<1>2. blocked' \in Nat
  <2>1. ASSUME NEW n \in Nat, DeferDispatch(n)
        PROVE  blocked' \in Nat
    BY <2>1 DEF DeferDispatch, Larger, TimesOK
  <2>2. ASSUME NEW r \in Run, DispatchFails(r)
        PROVE  blocked' \in Nat
    <3>1. lease \in Nat /\ grant[r] \in Nat
      BY OrchestrationAssumption DEF TimesOK
    <3> QED
      BY <2>1, <2>2, <3>1 DEF DispatchFails
  <2>3. ASSUME NEW r \in Run, DispatchBusy(r)
        PROVE  blocked' \in Nat
    BY <2>1, <2>3, OrchestrationAssumption DEF DispatchBusy
  <2>4. CASE ApiStart
    BY <2>1, <2>4, OrchestrationAssumption DEF ApiStart, deferVars, TimesOK
  <2>5. CASE /\ ~ApiStart
             /\ ~ \E r \in Run : DispatchFails(r) \/ DispatchBusy(r)
    <3>1. blocked' \in {blocked, 0, Ticked(blocked)}
      BY <2>5
         DEF Next, ApiNext, StartVerification, StartReproducibility,
         ReplayVerification, DispatchReturns, HandleHeartbeat, HandleResult,
         ExpireLease, FinishExpiry, TimerFires, ApiCrash, RunnerNext,
         HandleDispatch, HandleCancel, SendHeartbeat, ReceiveHeartbeat,
         FinishExecution, DeliveryFails, RetryDelivery, ReceiveReply,
         RunnerRestart, Tick, vars, apiVars, deferVars
    <3> QED
      BY <3>1 DEF TimesOK, Ticked
  <2> QED
    BY <2>2, <2>3, <2>4, <2>5
<1>3. /\ runnerLease' \in [Run -> 0..LeaseDuration]
      /\ heartbeatGrant' \in [Run -> 0..LeaseDuration]
  <2>1. CASE ApiNext \/ UNCHANGED vars
    <3>1. /\ runnerLease' = runnerLease
          /\ \/ heartbeatGrant' = heartbeatGrant
             \/ \E r \in Run : heartbeatGrant' =
                               [heartbeatGrant EXCEPT ![r] = LeaseDuration]
      BY <2>1
         DEF ApiNext, StartVerification, StartReproducibility,
         ReplayVerification, DispatchReturns, DispatchBusy, DispatchFails,
         HandleHeartbeat, HandleResult, ExpireLease, FinishExpiry, TimerFires,
         ApiCrash, ApiStart, vars, heartbeatVars, taskVars
    <3> QED
      BY <3>1, OrchestrationAssumption DEF TimesOK
  <2>2. CASE RunnerNext
    <3>1. \/ runnerLease' = runnerLease
          \/ runnerLease' = [r \in Run |-> 0]
          \/ \E r \in Run, n \in 0..LeaseDuration :
               runnerLease' = [runnerLease EXCEPT ![r] = n]
      BY <2>2, OrchestrationAssumption
         DEF RunnerNext, HandleDispatch, HandleCancel, SendHeartbeat,
         ReceiveHeartbeat, FinishExecution, DeliveryFails, RetryDelivery,
         ReceiveReply, RunnerRestart, taskVars, TimesOK
    <3>2. \/ heartbeatGrant' = heartbeatGrant
          \/ heartbeatGrant' = [r \in Run |-> 0]
          \/ \E r \in Run : heartbeatGrant' = [heartbeatGrant EXCEPT ![r] = 0]
      BY <2>2
         DEF RunnerNext, HandleDispatch, HandleCancel, SendHeartbeat,
         ReceiveHeartbeat, FinishExecution, DeliveryFails, RetryDelivery,
         ReceiveReply, RunnerRestart, heartbeatVars
    <3> QED
      BY <3>1, <3>2, OrchestrationAssumption DEF TimesOK
  <2>3. CASE Tick
    BY <2>3, OrchestrationAssumption DEF Tick, Ticked, TimesOK
  <2> QED
    BY <2>1, <2>2, <2>3 DEF Next
<1>4. apiCrashes' \in Nat
  <2>1. apiCrashes' \in {apiCrashes, apiCrashes + 1}
    BY DEF Next, ApiNext, StartVerification, StartReproducibility,
       ReplayVerification, DispatchReturns, DispatchBusy, DispatchFails,
       HandleHeartbeat, HandleResult, ExpireLease, FinishExpiry, TimerFires,
       ApiCrash, ApiStart, RunnerNext, HandleDispatch, HandleCancel,
       SendHeartbeat, ReceiveHeartbeat, FinishExecution, DeliveryFails,
       RetryDelivery, ReceiveReply, RunnerRestart, Tick, vars, crashVars
  <2> QED
    BY <2>1 DEF TimesOK
<1> QED
  BY <1>1, <1>2, <1>3, <1>4 DEF TimesOK

(* dispatchNext() only starts a run when nobody else may execute. *)
LEMMA LookContained ==
  ASSUME TraceInv, TimesOK, NEW db \in [Run -> Row], NEW act, NEW remaining,
         DispatchNext(db, act, remaining),
         \A r \in Run : db[r].status = "QUEUED"
                         => rows[r].status \in {"ABSENT", "QUEUED"},
         \A r \in Run : Contained(r, act, remaining),
         UNCHANGED <<blocked, heartbeatVars, task, runnerLease>>
  PROVE  \A r \in Run : Contained(r, active, lease)'
<1> DEFINE free == act = None /\ blocked = 0 /\ \E r \in Run : Claimable(db, r)
<1>1. CASE ~free
  <2>1. UNCHANGED <<dispatchMsg, grant>> /\ active' = act /\ lease' = remaining
    BY <1>1 DEF DispatchNext
  <2> QED
    BY <2>1 DEF Contained, Within, heartbeatVars
<1>2. CASE free
  <2>1. PICK c \in Run :
          /\ Claimable(db, c)
          /\ active' = c /\ lease' = LeaseDuration
          /\ dispatchMsg' = [dispatchMsg EXCEPT ![c] = "request"]
          /\ grant' = [grant EXCEPT ![c] = LeaseDuration]
    BY <1>2 DEF DispatchNext
  <2>2. ASSUME NEW r \in Run \ {c}
        PROVE  Within(r, 0)'
    <3>1. Within(r, 0)
      BY <1>2, StoreAssumption DEF Contained
    <3>2. dispatchMsg'[r] = dispatchMsg[r] /\ grant'[r] = grant[r]
      BY <2>1 DEF TraceInv, TracesOK, MessagesOK, TimesOK
    <3> QED
      BY <3>1, <3>2 DEF Within, heartbeatVars
  <2>3. Within(c, lease)'
    <3>1. rows[c].status \in {"ABSENT", "QUEUED"}
      BY <2>1 DEF Claimable, FirstInLine, Waiting
    <3>2. task[c] = "unknown"
      BY <3>1 DEF TraceInv, TracesOK, TraceOK, Unseen, Untouched
    <3> QED
      BY <2>1, <3>2, OrchestrationAssumption DEF Within, TimesOK
  <2> QED
    BY <2>1, <2>2, <2>3 DEF Contained
<1> QED
  BY <1>1, <1>2

(* A step that does not hand out time. *)
Calm(r) ==
  /\ dispatchMsg'[r] = "request" =>
       dispatchMsg[r] = "request" /\ grant'[r] = grant[r]
  /\ task'[r] = "executing" =>
       task[r] = "executing" /\ runnerLease'[r] = runnerLease[r]
  /\ heartbeatMsg'[r] = "granted" =>
       heartbeatMsg[r] = "granted" /\ heartbeatGrant'[r] = heartbeatGrant[r]

LEMMA CalmWithin ==
  ASSUME TimesOK, NEW r \in Run, Calm(r), NEW m \in Nat, NEW n \in Nat,
         m <= n, Within(r, m)
  PROVE  Within(r, n)'
<1>1. /\ grant[r] \in Nat /\ runnerLease[r] \in Nat
      /\ heartbeatGrant[r] \in Nat
  BY OrchestrationAssumption DEF TimesOK
<1>2. dispatchMsg'[r] = "request" => grant'[r] <= n
  BY <1>1 DEF Within, Calm
<1>3. task'[r] = "executing" => runnerLease'[r] <= n
  BY <1>1 DEF Within, Calm
<1>4. task'[r] = "executing" /\ heartbeatMsg'[r] = "granted"
        => heartbeatGrant'[r] <= n
  BY <1>1 DEF Within, Calm
<1> QED
  BY <1>2, <1>3, <1>4 DEF Within

(* ... nor shortens the lease or the quarantine. *)
LEMMA CalmContained ==
  ASSUME TimesOK, TimesOK', active' = active, lease' = lease,
         blocked' >= blocked, NEW r \in Run, Calm(r),
         Contained(r, active, lease)
  PROVE  Contained(r, active, lease)'
<1>1. /\ lease \in Nat /\ blocked \in Nat /\ blocked' \in Nat
      /\ lease <= lease /\ 0 <= 0
  BY OrchestrationAssumption DEF TimesOK
<1>2. CASE Within(r, 0)
  BY <1>1, <1>2, CalmWithin DEF Contained
<1>3. CASE active = r /\ Within(r, lease)
  BY <1>1, <1>3, CalmWithin DEF Contained
<1>4. CASE active = None /\ Within(r, blocked)
  BY <1>1, <1>4, CalmWithin DEF Contained
<1> QED
  BY <1>2, <1>3, <1>4 DEF Contained

LEMMA StartContained ==
  ASSUME TraceInv, TimesOK, \A r \in Run : Contained(r, active, lease),
         NEW k \in Key, NEW q \in Request,
         StartVerification(k, q) \/ StartReproducibility(k, q)
  PROVE  \A r \in Run : Contained(r, active, lease)'
<1> DEFINE n == NextSequence(rows)
<1>0. /\ rows \in [Run -> Row] /\ TableOK(rows)
      /\ UNCHANGED <<blocked, heartbeatVars, task, runnerLease>>
  BY DEF TraceInv, OwnedInv, TableInv, TableOK, QueueOK, StartVerification,
     StartReproducibility, deferVars, taskVars
<1>1. CASE StartVerification(k, q)
  <2> DEFINE db(r) == Inserted(rows, r, <<Public, k>>, q, n)
  <2>1. PICK r \in Run \ Present(rows) : DispatchNext(db(r), active, lease)
    BY <1>1 DEF StartVerification
  <2>2. db(r) \in [Run -> Row]
    <3>1. WaitingCount(rows) < WaitingLimit /\ <<Public, k>> \in Owner
      BY <1>1 DEF StartVerification, Owner
    <3> QED
      BY <1>0, <3>1, TurnTableOK DEF Turn, Appends, TableOK, QueueOK
  <2>3. \A s \in Run : db(r)[s].status = "QUEUED"
                        => rows[s].status \in {"ABSENT", "QUEUED"}
    BY <1>0 DEF Inserted, Present
  <2> HIDE DEF db
  <2> QED
    BY <1>0, <2>1, <2>2, <2>3, LookContained
<1>2. CASE StartReproducibility(k, q)
  <2> DEFINE half(j, b) == Inserted(rows, b, <<j, "baseline">>, q, n)
             db(j, b, c) ==
               Inserted(half(j, b), c, <<j, "candidate">>, q, n + 1)
  <2>1. PICK j \in Job, b \in Run \ Present(rows), c \in Run \ Present(rows) :
          /\ b # c
          /\ WaitingCount(rows) + 2 <= WaitingLimit
          /\ DispatchNext(db(j, b, c), active, lease)
    BY <1>2 DEF StartReproducibility
  <2>2. db(j, b, c) \in [Run -> Row]
    <3>1. <<j, "baseline">> \in Owner /\ <<j, "candidate">> \in Owner
      BY DEF Owner
    <3> QED
      BY <1>0, <2>1, <3>1, TurnTableOK DEF Turn, AppendsPair, TableOK, QueueOK
  <2>3. \A s \in Run : db(j, b, c)[s].status = "QUEUED"
                        => rows[s].status \in {"ABSENT", "QUEUED"}
    BY <1>0 DEF Inserted, Present
  <2> HIDE DEF db
  <2> QED
    BY <1>0, <2>1, <2>2, <2>3, LookContained
<1> QED
  BY <1>1, <1>2

LEMMA IdleContained ==
  ASSUME TraceInv, TimesOK, \A r \in Run : Contained(r, active, lease),
         \/ ReplayVerification \/ TimerFires
         \/ \E r \in Run : FinishExpiry(r)
  PROVE  \A r \in Run : Contained(r, active, lease)'
<1>0. /\ rows \in [Run -> Row]
      /\ UNCHANGED <<blocked, heartbeatVars, task, runnerLease>>
  BY DEF TraceInv, OwnedInv, TableInv, TableOK, QueueOK, ReplayVerification,
     TimerFires, FinishExpiry, deferVars, taskVars
<1>1. CASE ReplayVerification \/ TimerFires
  BY <1>0, <1>1, LookContained DEF ReplayVerification, TimerFires
<1>2. ASSUME NEW r \in Run, FinishExpiry(r)
      PROVE  \A s \in Run : Contained(s, active, lease)'
  <2> DEFINE db == SystemErrored(rows, r, "LEASE_EXPIRED", None)
  <2>1. DispatchNext(db, active, lease)
    BY <1>2 DEF FinishExpiry
  <2>2. db \in [Run -> Row]
    BY <1>0, SystemErroredSettles, OrchestrationAssumption
  <2>3. \A s \in Run : db[s].status = "QUEUED" => rows[s].status = "QUEUED"
    BY <1>0 DEF SystemErrored
  <2> HIDE DEF db
  <2> QED
    BY <1>0, <2>1, <2>2, <2>3, LookContained
<1> QED
  BY <1>1, <1>2

(* An ambiguous failure leaves the run no more time than the quarantine;   *)
(* a refused run has none.                                                 *)
LEMMA DispatchEndsContained ==
  ASSUME ~LostReplies, TraceInv, TimesOK, TimesOK',
         \A r \in Run : Contained(r, active, lease), NEW r \in Run,
         DispatchReturns(r) \/ DispatchBusy(r) \/ DispatchFails(r)
  PROVE  \A s \in Run : Contained(s, active, lease)'
<1>0. /\ r \in calls
      /\ dispatchMsg' = [s \in Run |-> IF s = r /\ dispatchMsg[s] # "request"
                                       THEN "none" ELSE dispatchMsg[s]]
      /\ grant' = [s \in Run |-> IF s = r /\ dispatchMsg[s] # "request"
                                 THEN 0 ELSE grant[s]]
      /\ UNCHANGED <<heartbeatVars, task, runnerLease>>
  BY DEF DispatchReturns, DispatchBusy, DispatchFails, HangUp, taskVars
<1>1. /\ \A s \in Run : Calm(s)
      /\ \A s \in Run : task'[s] = "executing" => task[s] = "executing"
  BY <1>0 DEF Calm, heartbeatVars
<1>2. lease \in Nat /\ blocked \in Nat /\ blocked' \in Nat /\ grant[r] \in Nat
  BY OrchestrationAssumption DEF TimesOK
<1>3. CASE DispatchReturns(r)
  <2>1. UNCHANGED <<active, lease, blocked>>
    BY <1>3 DEF DispatchReturns, deferVars
  <2>2. active' = active /\ lease' = lease /\ blocked' >= blocked
    BY <1>2, <2>1
  <2> QED
    BY <1>1, <2>2, CalmContained
<1>4. CASE DispatchBusy(r) \/ DispatchFails(r)
  <2>1. active \in {r, None} /\ active' = None
    BY <1>0, <1>4 DEF DispatchBusy, DispatchFails, TraceInv, OwnedInv, OwnershipOK,
       Owns, CallsOK, Stopped
  <2>2. blocked' >= blocked
    BY <1>2, <1>4, OrchestrationAssumption
       DEF DispatchBusy, DispatchFails, DeferDispatch, Larger
  <2>3. ASSUME NEW s \in Run, s # active
        PROVE  Contained(s, active, lease)'
    <3>1. CASE Within(s, 0)
      BY <1>1, <2>1, <3>1, CalmWithin DEF Contained
    <3>2. CASE active = None /\ Within(s, blocked)
      BY <1>1, <1>2, <2>1, <2>2, <3>2, CalmWithin DEF Contained
    <3> QED
      BY <2>3, <3>1, <3>2 DEF Contained
  <2>4. ASSUME active = r
        PROVE  Contained(r, active, lease)'
    <3>1. CASE DispatchBusy(r)
      <4>1. dispatchMsg[r] = "busy"
        BY <3>1 DEF DispatchBusy
      <4>2. task[r] = "unknown"
        BY <4>1 DEF TraceInv, TracesOK, TraceOK, Untouched
      <4> QED
        BY <1>0, <4>1, <4>2 DEF Contained, Within
    <3>2. CASE DispatchFails(r)
      <4>1. blocked' >= lease
        BY <1>2, <2>4, <3>2 DEF DispatchFails, DeferDispatch, Larger
      <4>2. CASE Within(r, 0)
        BY <1>1, <4>2, CalmWithin DEF Contained
      <4>3. CASE Within(r, lease)
        BY <1>1, <1>2, <2>1, <4>1, <4>3, CalmWithin DEF Contained
      <4> QED
        BY <2>4, <4>2, <4>3, StoreAssumption DEF Contained
    <3> QED
      BY <1>4, <3>1, <3>2
  <2> QED
    BY <2>1, <2>3, <2>4, StoreAssumption
<1> QED
  BY <1>3, <1>4

(* A heartbeat hands out no more time than the lease it extends. *)
LEMMA HeartbeatContained ==
  ASSUME TraceInv, TimesOK, TimesOK',
         \A r \in Run : Contained(r, active, lease), NEW r \in Run,
         NEW stage \in Stage \cup {None}, HandleHeartbeat(r, stage)
  PROVE  \A s \in Run : Contained(s, active, lease)'
<1>0. /\ UNCHANGED <<active, dispatchMsg, grant, blocked, task, runnerLease>>
      /\ heartbeatMsg \in [Run -> {"none", "request", "granted"}]
  BY DEF HandleHeartbeat, taskVars, deferVars, TraceInv, TracesOK, MessagesOK
<1>1. CASE ActiveLease(r) /\ r \in Running(rows)
  <2>1. /\ active = r /\ lease' = LeaseDuration
        /\ heartbeatMsg' = [heartbeatMsg EXCEPT ![r] = "granted"]
        /\ heartbeatGrant' = [heartbeatGrant EXCEPT ![r] = LeaseDuration]
    BY <1>1 DEF HandleHeartbeat, ActiveLease
  <2>2. ASSUME NEW s \in Run \ {r}
        PROVE  Contained(s, active, lease)'
    <3>1. Within(s, 0)
      BY <2>1, StoreAssumption DEF Contained
    <3>2. Calm(s)
      BY <1>0, <2>1 DEF Calm, TimesOK
    <3> QED
      BY <3>1, <3>2, CalmWithin DEF Contained
  <2>3. Within(r, lease)'
    BY <1>0, <2>1, OrchestrationAssumption DEF Within, TimesOK
  <2> QED
    BY <1>0, <2>1, <2>2, <2>3 DEF Contained
<1>2. CASE ~(ActiveLease(r) /\ r \in Running(rows))
  <2>1. /\ UNCHANGED <<lease, heartbeatGrant>>
        /\ heartbeatMsg' = [heartbeatMsg EXCEPT ![r] = "none"]
    BY <1>2 DEF HandleHeartbeat
  <2>2. \A s \in Run : Calm(s)
    BY <1>0, <2>1 DEF Calm
  <2>3. blocked' >= blocked
    BY <1>0 DEF TimesOK
  <2> QED
    BY <1>0, <2>1, <2>2, <2>3, CalmContained
<1> QED
  BY <1>1, <1>2

(* A result means that the execution is over. *)
LEMMA ResultContained ==
  ASSUME TraceInv, TimesOK, TimesOK',
         \A r \in Run : Contained(r, active, lease), NEW r \in Run,
         NEW issued \in BOOLEAN, HandleResult(r, issued)
  PROVE  \A s \in Run : Contained(s, active, lease)'
<1> DEFINE known == ResultDeliveryOutcome(rows, r, r)
           settling == known = "PENDING" /\ ActiveLease(r)
<1>0. r \in resultMsgs /\ UNCHANGED <<blocked, heartbeatVars, task, runnerLease>>
  BY DEF HandleResult, deferVars, taskVars
<1>1. CASE ~settling
  <2>1. UNCHANGED leaseVars
    BY <1>1 DEF HandleResult
  <2>2. \A s \in Run : Calm(s)
    BY <1>0, <2>1 DEF Calm, leaseVars, heartbeatVars
  <2>3. blocked' >= blocked
    BY <1>0 DEF TimesOK
  <2> QED
    BY <1>0, <2>1, <2>2, <2>3, CalmContained DEF leaseVars
<1>2. CASE settling
  <2> DEFINE db == Settled(r, issued)
  <2>1. DispatchNext(db, None, 0) /\ active = r
    BY <1>2 DEF HandleResult, ActiveLease
  <2>2. TraceOK(r) /\ r \in Running(rows)
    BY <1>2, <2>1, StoreAssumption
       DEF TraceInv, TracesOK, OwnedInv, OwnershipOK, Owns, HandleResult
  <2>3. Within(r, 0)
    BY <1>0, <2>2 DEF TraceOK, Within
  <2>4. \A s \in Run : Contained(s, None, 0)
    BY <2>1, <2>3, StoreAssumption DEF Contained
  <2>5. /\ db \in [Run -> Row] /\ db[r].status \in Terminal
        /\ \A s \in Run \ {r} : db[s] = rows[s]
    BY <1>0, <2>2, SettledNotRunning, SettledRow DEF TraceInv, OwnedInv
  <2> HIDE DEF db
  <2>6. \A s \in Run : db[s].status = "QUEUED" => rows[s].status = "QUEUED"
    BY <2>5 DEF Terminal
  <2> QED
    BY <1>0, <2>1, <2>4, <2>5, <2>6, LookContained
<1> QED
  BY <1>1, <1>2

LEMMA ExpireContained ==
  ASSUME TimesOK, TimesOK', \A r \in Run : Contained(r, active, lease),
         ExpireLease
  PROVE  \A r \in Run : Contained(r, active, lease)'
<1>1. /\ active # None /\ lease = 0 /\ active' = None
      /\ UNCHANGED <<dispatchMsg, grant, heartbeatVars, task, runnerLease>>
  BY DEF ExpireLease, taskVars
<1>2. ASSUME NEW r \in Run
      PROVE  Contained(r, active, lease)'
  <2>1. Within(r, 0)
    BY <1>1 DEF Contained
  <2>2. Calm(r)
    BY <1>1 DEF Calm, heartbeatVars
  <2> QED
    BY <2>1, <2>2, CalmWithin DEF Contained
<1> QED
  BY <1>2

(* The runner never executes for longer than the API has granted. *)
LEMMA RunnerContained ==
  ASSUME TraceInv, TimesOK, TimesOK',
         \A r \in Run : Contained(r, active, lease), RunnerNext
  PROVE  \A r \in Run : Contained(r, active, lease)'
<1>0. UNCHANGED <<active, lease, blocked>> /\ blocked' >= blocked
  BY DEF RunnerNext, HandleDispatch, HandleCancel, SendHeartbeat,
     ReceiveHeartbeat, FinishExecution, DeliveryFails, RetryDelivery,
     ReceiveReply, RunnerRestart, apiVars, TimesOK
<1>1. /\ dispatchMsg \in [Run -> {"none", "request", "accepted", "busy", "refused"}]
      /\ heartbeatMsg \in [Run -> {"none", "request", "granted"}]
      /\ task \in [Run -> {"unknown", "executing", "awaiting", "retrying", "done"}]
      /\ \A r \in Run : TraceOK(r)
  BY DEF TraceInv, TracesOK, MessagesOK, OwnedInv, TableInv, ResultsOK
<1>2. ASSUME NEW r \in Run, HandleDispatch(r)
      PROVE  \A s \in Run : Contained(s, active, lease)'
  <2>1. ASSUME NEW s \in Run \ {r}
        PROVE  Calm(s)
    BY <1>1, <1>2 DEF HandleDispatch, Calm, heartbeatVars, TimesOK
  <2>2. ASSUME NEW n, Within(r, n)
        PROVE  Within(r, n)'
    <3>1. task[r] = "unknown" /\ heartbeatMsg[r] = "none"
      BY <1>1, <1>2 DEF HandleDispatch, TraceOK, Untouched
    <3>2. dispatchMsg[r] = "request" /\ dispatchMsg'[r] # "request"
      BY <1>1, <1>2 DEF HandleDispatch
    <3>3. task'[r] = "executing" => runnerLease'[r] = grant[r]
      BY <1>1, <1>2, <3>1 DEF HandleDispatch, TimesOK
    <3>4. heartbeatMsg'[r] = "none"
      BY <1>2, <3>1 DEF HandleDispatch, heartbeatVars
    <3> QED
      BY <2>2, <3>2, <3>3, <3>4 DEF Within
  <2>3. Contained(r, active, lease)'
    BY <1>0, <2>2 DEF Contained
  <2> QED
    BY <1>0, <2>1, <2>3, CalmContained
<1>3. ASSUME NEW r \in Run, ReceiveHeartbeat(r)
      PROVE  \A s \in Run : Contained(s, active, lease)'
  <2>1. ASSUME NEW s \in Run \ {r}
        PROVE  Calm(s)
    BY <1>1, <1>3 DEF ReceiveHeartbeat, Calm, TimesOK
  <2>2. ASSUME NEW n, Within(r, n)
        PROVE  Within(r, n)'
    <3>1. /\ dispatchMsg'[r] = dispatchMsg[r] /\ grant'[r] = grant[r]
          /\ task'[r] = task[r] /\ heartbeatMsg[r] = "granted"
          /\ heartbeatMsg'[r] = "none"
          /\ task[r] = "executing" => runnerLease'[r] = heartbeatGrant[r]
      BY <1>1, <1>3 DEF ReceiveHeartbeat, TimesOK
    <3> QED
      BY <2>2, <3>1 DEF Within
  <2>3. Contained(r, active, lease)'
    BY <1>0, <2>2 DEF Contained
  <2> QED
    BY <1>0, <2>1, <2>3, CalmContained
<1>4. ASSUME NEW r \in Run, HandleCancel(r) \/ SendHeartbeat(r)
      PROVE  \A s \in Run : Calm(s)
  BY <1>1, <1>4
     DEF HandleCancel, SendHeartbeat, Calm, heartbeatVars, taskVars, TimesOK
<1>5. ASSUME NEW r \in Run,
             \/ \E d \in Delivery : FinishExecution(r, d)
             \/ DeliveryFails(r) \/ RetryDelivery(r) \/ ReceiveReply(r)
      PROVE  \A s \in Run : Calm(s)
  <2>1. /\ UNCHANGED <<dispatchMsg, grant, heartbeatVars>>
        /\ \E t \in {"awaiting", "retrying", "done"} :
             task' = [task EXCEPT ![r] = t]
        /\ runnerLease' \in {runnerLease, [runnerLease EXCEPT ![r] = 0]}
    BY <1>5
       DEF FinishExecution, Deliver, DeliveryFails, RetryDelivery, ReceiveReply
  <2> QED
    BY <1>1, <2>1 DEF Calm, heartbeatVars, TimesOK
<1>6. CASE RunnerRestart
  <2>1. \A s \in Run : Calm(s)
    BY <1>6 DEF RunnerRestart, Calm
  <2> QED
    BY <1>0, <2>1, CalmContained
<1> QED
  BY <1>0, <1>2, <1>3, <1>4, <1>5, <1>6, CalmContained DEF RunnerNext

(* All countdowns run together. *)
LEMMA TickContained ==
  ASSUME TimesOK, \A r \in Run : Contained(r, active, lease), Tick
  PROVE  \A r \in Run : Contained(r, active, lease)'
<1>1. /\ UNCHANGED <<active, dispatchMsg, heartbeatMsg, task>>
      /\ lease' = Ticked(lease) /\ blocked' = Ticked(blocked)
      /\ grant' = [r \in Run |-> Ticked(grant[r])]
      /\ heartbeatGrant' = [r \in Run |-> Ticked(heartbeatGrant[r])]
      /\ runnerLease' = [r \in Run |-> Ticked(runnerLease[r])]
  BY DEF Tick
<1>2. \A m, n \in Nat : m <= n => Ticked(m) <= Ticked(n)
  BY DEF Ticked
<1>3. Ticked(0) = 0
  BY DEF Ticked
<1>4. lease \in Nat /\ blocked \in Nat
  BY OrchestrationAssumption DEF TimesOK
<1>5. ASSUME NEW r \in Run, NEW n \in Nat, Within(r, n)
      PROVE  Within(r, Ticked(n))'
  <2>1. grant[r] \in Nat /\ runnerLease[r] \in Nat /\ heartbeatGrant[r] \in Nat
    BY OrchestrationAssumption DEF TimesOK
  <2>2. dispatchMsg'[r] = "request" => grant'[r] <= Ticked(n)
    BY <1>1, <1>2, <1>5, <2>1 DEF Within
  <2>3. task'[r] = "executing" => runnerLease'[r] <= Ticked(n)
    BY <1>1, <1>2, <1>5, <2>1 DEF Within
  <2>4. task'[r] = "executing" /\ heartbeatMsg'[r] = "granted"
          => heartbeatGrant'[r] <= Ticked(n)
    BY <1>1, <1>2, <1>5, <2>1 DEF Within
  <2> QED
    BY <2>2, <2>3, <2>4 DEF Within
<1>6. ASSUME NEW r \in Run
      PROVE  Contained(r, active, lease)'
  <2>1. CASE Within(r, 0)
    BY <1>3, <1>5, <2>1 DEF Contained
  <2>2. CASE active = r /\ Within(r, lease)
    BY <1>1, <1>4, <1>5, <2>2 DEF Contained
  <2>3. CASE active = None /\ Within(r, blocked)
    BY <1>1, <1>4, <1>5, <2>3 DEF Contained
  <2> QED
    BY <2>1, <2>2, <2>3 DEF Contained
<1> QED
  BY <1>6

LEMMA NextExclusion ==
  ASSUME ~LostReplies, TraceInv, ExclusionOK, [Next]_vars
  PROVE  ExclusionOK'
<1>1. TimesOK'
  BY NextTimes DEF ExclusionOK
<1>2. SUFFICES ASSUME apiCrashes' = 0
               PROVE  apiUp' /\ \A r \in Run : Contained(r, active, lease)'
  BY <1>1 DEF ExclusionOK
<1>3. apiCrashes = 0 /\ ~ApiCrash
  <2>1. ApiCrash => apiCrashes' = apiCrashes + 1
    BY DEF ApiCrash
  <2>2. ~ApiCrash => apiCrashes' = apiCrashes
    BY DEF Next, ApiNext, StartVerification, StartReproducibility,
       ReplayVerification, DispatchReturns, DispatchBusy, DispatchFails,
       HandleHeartbeat, HandleResult, ExpireLease, FinishExpiry, TimerFires,
       ApiStart, RunnerNext, HandleDispatch, HandleCancel, SendHeartbeat,
       ReceiveHeartbeat, FinishExecution, DeliveryFails, RetryDelivery,
       ReceiveReply, RunnerRestart, Tick, vars, crashVars
  <2> QED
    BY <1>2, <2>1, <2>2 DEF ExclusionOK, TimesOK
<1>4. /\ TimesOK /\ apiUp = TRUE
      /\ \A r \in Run : Contained(r, active, lease)
  BY <1>3 DEF ExclusionOK, TraceInv, OwnedInv, OwnershipOK
<1>5. ~ApiStart
  BY <1>4 DEF ApiStart
<1>6. apiUp'
  BY <1>3, <1>4, <1>5
     DEF Next, ApiNext, StartVerification, StartReproducibility,
     ReplayVerification, DispatchReturns, DispatchBusy, DispatchFails,
     HandleHeartbeat, HandleResult, ExpireLease, FinishExpiry, TimerFires,
     RunnerNext, HandleDispatch, HandleCancel, SendHeartbeat,
     ReceiveHeartbeat, FinishExecution, DeliveryFails, RetryDelivery,
     ReceiveReply, RunnerRestart, Tick, vars, apiVars
<1>7. \A r \in Run : Contained(r, active, lease)'
  <2>1. CASE UNCHANGED vars
    BY <1>4, <2>1 DEF vars, Contained, Within
  <2> QED
    BY <1>1, <1>3, <1>4, <1>5, <2>1, StartContained, IdleContained,
       DispatchEndsContained, HeartbeatContained, ResultContained,
       ExpireContained, RunnerContained, TickContained
       DEF Next, ApiNext
<1> QED
  BY <1>6, <1>7

LEMMA ExclusionAlways ==
  ASSUME ~LostReplies
  PROVE  Spec => []ExclusionInv
<1>1. Init => ExclusionOK
  BY OrchestrationAssumption DEF Init, ExclusionOK, TimesOK, Contained, Within
<1>2. TraceInv /\ ExclusionOK /\ [Next]_vars => ExclusionOK'
  BY NextExclusion
<1>3. TraceInv /\ ExclusionOK => ExclusionInv
  BY DEF ExclusionInv
<1> QED
  BY <1>1, <1>2, <1>3, TraceAlways, PTL DEF Spec

LEMMA ExclusionHolds ==
  ASSUME ExclusionInv, apiCrashes = 0
  PROVE  LeaseExclusion
<1> SUFFICES ASSUME active # None, NEW r \in Run \ {active}
             PROVE  ~MayExecute(r)
  BY DEF LeaseExclusion
<1>1. Within(r, 0)
  BY DEF ExclusionInv, ExclusionOK, Contained
<1>2. grant[r] \in Nat /\ runnerLease[r] \in Nat /\ heartbeatGrant[r] \in Nat
  BY OrchestrationAssumption DEF ExclusionInv, ExclusionOK, TimesOK
<1> QED
  BY <1>1, <1>2 DEF Within, MayExecute

(* Until the API crashes for the first time, nobody can execute beside the *)
(* run that holds the lease, for any duration of leases and timeouts and   *)
(* any number of runner restarts.                                          *)
THEOREM LeaseExclusionUntilCrash ==
  ASSUME ~LostReplies
  PROVE  Spec => [](apiCrashes = 0 => LeaseExclusion)
<1>1. ExclusionInv => (apiCrashes = 0 => LeaseExclusion)
  BY ExclusionHolds
<1> QED
  BY <1>1, ExclusionAlways, PTL

(* An API that never crashes excludes them for ever. *)
THEOREM LeaseExclusionAlways ==
  ASSUME ~LostReplies, MaxApiCrashes = 0
  PROVE  Spec => []LeaseExclusion
<1>1. Init => apiCrashes = 0
  BY DEF Init
<1>2. apiCrashes = 0 /\ [Next]_vars => (apiCrashes = 0)'
  <2> SUFFICES ASSUME apiCrashes = 0, [Next]_vars
               PROVE  apiCrashes' = 0
    OBVIOUS
  <2>1. \/ apiCrashes' = apiCrashes
        \/ apiCrashes < MaxApiCrashes
    BY DEF Next, ApiNext, StartVerification, StartReproducibility,
       ReplayVerification, DispatchReturns, DispatchBusy, DispatchFails,
       HandleHeartbeat, HandleResult, ExpireLease, FinishExpiry, TimerFires,
       ApiCrash, ApiStart, RunnerNext, HandleDispatch, HandleCancel,
       SendHeartbeat, ReceiveHeartbeat, FinishExecution, DeliveryFails,
       RetryDelivery, ReceiveReply, RunnerRestart, Tick, vars, crashVars
  <2> QED
    BY <2>1
<1> QED
  BY <1>1, <1>2, LeaseExclusionUntilCrash, PTL DEF Spec
=============================================================================
