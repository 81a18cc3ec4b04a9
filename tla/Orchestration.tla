---------------------------- MODULE Orchestration ----------------------------
(***************************************************************************)
(* The API's Orchestrator and the runner's RunnerService, joined by the    *)
(* HTTP calls they make to each other, on top of the table of RunStore.    *)
(*                                                                         *)
(* Every JavaScript turn is one action: a handler runs to its next await   *)
(* and cannot be interrupted, so the actions split exactly at the awaits.  *)
(* SQLite is durable; everything else the API or the runner knows is lost  *)
(* when its process restarts.  A request or a response that is never       *)
(* handled is a lost message, and every caller may give up at any moment.  *)
(*                                                                         *)
(* Time is a set of countdowns that Tick lowers together.                  *)
(***************************************************************************)
EXTENDS RunStore

CONSTANTS
  LeaseDuration,     \* leaseDurationMs
  DispatchTimeout,   \* AbortSignal.timeout of the dispatch call
  RetryDelay,        \* deferral after a busy runner
  ResultStatus,      \* statuses of the results the runner delivers
  LostReplies,       \* may a dispatch fail after its run has been settled
                     \* and the next run has been started?
  MaxApiCrashes,
  MaxRunnerCrashes

ASSUME OrchestrationAssumption ==
  /\ DispatchTimeout \in Nat \ {0}
  /\ LeaseDuration \in Nat /\ LeaseDuration > DispatchTimeout
  /\ RetryDelay \in 1..LeaseDuration
  /\ ResultStatus \subseteq {"COMPLETED", "TIMEOUT", "SYSTEM_ERROR",
                             "WRONG_RUNTIME"}
  /\ LostReplies \in BOOLEAN
  /\ MaxApiCrashes \in Nat /\ MaxRunnerCrashes \in Nat
  /\ Run \subseteq Fingerprint   \* a result's fingerprint covers its lease id
  /\ "INCONCLUSIVE" \in Verdict
  /\ {"RUNNER_UNAVAILABLE", "RUNNER_FAILURE", "RUNTIME_IMAGE_MISMATCH",
      "RECEIPT_ISSUANCE_FAILED", "LEASE_EXPIRED"} \subseteq ErrorCode

VARIABLES
  (* The Orchestrator. *)
  apiUp,
  active,         \* this.active: the run that holds the lease
  lease,          \* time left of this.active.expiresAt
  expiring,       \* runs whose expireLease() awaits runner.cancel()
  blocked,        \* time left of dispatchBlockedUntil
  timer,          \* time left of dispatchTimer, or Off
  calls,          \* runs whose runner.dispatch() is awaited
  (* Requests and responses on the way, one of a kind per run: the later   *)
  (* copy of a repeated request stands for both.                           *)
  dispatchMsg,
  grant,          \* time left of the expiry the dispatch request carries
  heartbeatMsg,
  heartbeatGrant, \* time left of the expiry the heartbeat response carries
  cancels,
  resultMsgs,
  reply,          \* response to the delivered result
  (* The RunnerService. *)
  task,           \* what the runner knows of a run
  runnerLease,    \* time left of its leaseExpiresAt
  cancelled,      \* executions that runner.cancel() reached
  delivery,       \* the immutable result of an execution
  (* Histories. *)
  executed,       \* runs whose execution has ever started
  apiCrashes, runnerCrashes

apiVars == <<apiUp, active, lease, expiring, blocked, timer, calls>>
leaseVars == <<rows, active, lease, calls, dispatchMsg, grant>>
deferVars == <<blocked, timer>>
heartbeatVars == <<heartbeatMsg, heartbeatGrant>>
resultVars == <<resultMsgs, reply>>
taskVars == <<task, runnerLease, cancelled, delivery, executed>>
crashVars == <<apiCrashes, runnerCrashes>>
vars == <<rows, jobs, apiUp, active, lease, expiring, blocked, timer, calls,
          dispatchMsg, grant, heartbeatMsg, heartbeatGrant, cancels,
          resultMsgs, reply, task, runnerLease, cancelled, delivery, executed,
          apiCrashes, runnerCrashes>>

Off == -1

(* Results a runner delivers; WRONG_RUNTIME is a RUNTIME_IMAGE_MISMATCH.   *)
Delivery ==
  [status : ResultStatus \cap {"COMPLETED"}, verdict : Verdict]
    \cup [status : ResultStatus \cap {"TIMEOUT"}, verdict : {"INCONCLUSIVE"}]
    \cup [status : ResultStatus \ {"COMPLETED", "TIMEOUT"}, verdict : {None}]

Larger(m, n) == IF m > n THEN m ELSE n

Ticked(n) == IF n > 0 THEN n - 1 ELSE n

(* Fault: a RUNNING row is taken for an active lease. *)
FaultyActiveLease(r) == r \in Running(rows)

(* isActiveLease() *)
ActiveLease(r) == active = r /\ lease > 0

Executing == {r \in Run : task[r] = "executing"}

(* The dispatch calls of rs are over: their responses reach nobody, and    *)
(* the expiry they granted only lives on in a request still on its way.    *)
HangUp(rs) ==
  LET over == {r \in rs : dispatchMsg[r] # "request"}
  IN  /\ calls' = calls \ rs
      /\ dispatchMsg' = [r \in Run |-> IF r \in over THEN "none"
                                       ELSE dispatchMsg[r]]
      /\ grant' = [r \in Run |-> IF r \in over THEN 0 ELSE grant[r]]

-----------------------------------------------------------------------------
Init ==
  /\ StoreInit
  /\ apiUp = TRUE /\ active = None /\ lease = 0 /\ expiring = {}
  /\ blocked = 0 /\ timer = Off /\ calls = {}
  /\ dispatchMsg = [r \in Run |-> "none"] /\ grant = [r \in Run |-> 0]
  /\ heartbeatMsg = [r \in Run |-> "none"]
  /\ heartbeatGrant = [r \in Run |-> 0]
  /\ cancels = {} /\ resultMsgs = {} /\ reply = [r \in Run |-> "none"]
  /\ task = [r \in Run |-> "unknown"] /\ runnerLease = [r \in Run |-> 0]
  /\ cancelled = {} /\ delivery = [r \in Run |-> None]
  /\ executed = {} /\ apiCrashes = 0 /\ runnerCrashes = 0

-----------------------------------------------------------------------------
(* The Orchestrator. *)

(* dispatchNext() up to its await, in a turn that has changed the table to *)
(* db and this.active to act, with remaining of its lease.                 *)
DispatchNext(db, act, remaining) ==
  IF act = None /\ blocked = 0 /\ \E r \in Run : Claimable(db, r)
  THEN \E r \in Run :
         /\ Claimable(db, r)
         /\ rows' = Claimed(db, r)
         /\ active' = r
         /\ lease' = LeaseDuration
         /\ calls' = calls \cup {r}
         /\ dispatchMsg' = [dispatchMsg EXCEPT ![r] = "request"]
         /\ grant' = [grant EXCEPT ![r] = LeaseDuration]
  ELSE /\ rows' = db
       /\ active' = act
       /\ lease' = remaining
       /\ UNCHANGED <<calls, dispatchMsg, grant>>

(* deferDispatch() *)
DeferDispatch(delay) ==
  /\ blocked' = Larger(blocked, delay)
  /\ timer' = IF timer = Off THEN delay ELSE timer

(* startVerification() with a new run. *)
StartVerification(k, q) ==
  /\ apiUp
  /\ ~KeyTaken(rows, k)
  /\ WaitingCount(rows) < WaitingLimit
  /\ \E r \in Run \ Present(rows) :
       DispatchNext(
         Inserted(rows, r, <<Public, k>>, q, NextSequence(rows)), active, lease)
  /\ UNCHANGED <<jobs, apiUp, expiring, cancels, deferVars, heartbeatVars,
                 resultVars, taskVars, crashVars>>

(* startVerification() or startReproducibility() replayed: nothing is      *)
(* inserted, but dispatchNext() is called all the same.                    *)
ReplayVerification ==
  /\ apiUp
  /\ \/ \E k \in Key, q \in Request : Replayed(rows, k, q)
     \/ \E j \in Job : jobs[j] # None
  /\ DispatchNext(rows, active, lease)
  /\ UNCHANGED <<jobs, apiUp, expiring, cancels, deferVars, heartbeatVars,
                 resultVars, taskVars, crashVars>>

(* startReproducibility() with a new job. *)
StartReproducibility(k, q) ==
  /\ apiUp
  /\ \A j \in Job : jobs[j] # None => jobs[j].key # k
  /\ WaitingCount(rows) + 2 <= WaitingLimit
  /\ \E j \in {i \in Job : jobs[i] = None},
        b \in Run \ Present(rows), c \in Run \ Present(rows) :
       LET n == NextSequence(rows)
           baseline == Inserted(rows, b, <<j, "baseline">>, q, n)
       IN  /\ b # c
           /\ jobs' = [jobs EXCEPT ![j] = [key |-> k, request |-> q,
                                           baseline |-> b, candidate |-> c]]
           /\ DispatchNext(Inserted(baseline, c, <<j, "candidate">>, q, n + 1),
                           active, lease)
  /\ UNCHANGED <<apiUp, expiring, cancels, deferVars, heartbeatVars,
                 resultVars, taskVars, crashVars>>

(* runner.dispatch() resolves. *)
DispatchReturns(r) ==
  /\ r \in calls /\ dispatchMsg[r] = "accepted"
  /\ HangUp({r})
  /\ UNCHANGED <<rows, jobs, apiUp, active, lease, expiring, cancels,
                 deferVars, heartbeatVars, resultVars, taskVars, crashVars>>

(* Fault: nothing wakes the queue up after a busy runner. *)
ForgetfulDispatchBusy(r) ==
  /\ r \in calls /\ dispatchMsg[r] = "busy" /\ r \in Running(rows)
  /\ HangUp({r})
  /\ active' = None /\ lease' = 0
  /\ rows' = Requeued(rows, r)
  /\ UNCHANGED <<jobs, apiUp, expiring, cancels, deferVars, heartbeatVars,
                 resultVars, taskVars, crashVars>>

(* runner.dispatch() rejects with RUNNER_UNAVAILABLE and requeue() works.  *)
DispatchBusy(r) ==
  /\ r \in calls /\ dispatchMsg[r] = "busy" /\ r \in Running(rows)
  /\ HangUp({r})
  /\ active' = None /\ lease' = 0
  /\ rows' = Requeued(rows, r)
  /\ DeferDispatch(RetryDelay)
  /\ UNCHANGED <<jobs, apiUp, expiring, cancels, heartbeatVars, resultVars,
                 taskVars, crashVars>>

(* Faults: an ambiguous failure puts the run back into the queue; the      *)
(* quarantine ignores the heartbeats that have extended the lease.         *)
RequeuingDispatchFails(r) ==
  /\ r \in calls
  /\ LostReplies \/ active \in {r, None}
  /\ HangUp({r})
  /\ active' = None /\ lease' = 0
  /\ rows' = Requeued(rows, r)
  /\ cancels' = cancels \cup {r}
  /\ DeferDispatch(IF active = r THEN lease ELSE grant[r])
  /\ UNCHANGED <<jobs, apiUp, expiring, heartbeatVars, resultVars, taskVars,
                 crashVars>>

HastyDispatchFails(r) ==
  /\ r \in calls
  /\ LostReplies \/ active \in {r, None}
  /\ HangUp({r})
  /\ active' = None /\ lease' = 0
  /\ rows' = SystemErrored(rows, r, "RUNNER_UNAVAILABLE", None)
  /\ cancels' = cancels \cup {r}
  /\ DeferDispatch(grant[r])
  /\ UNCHANGED <<jobs, apiUp, expiring, heartbeatVars, resultVars, taskVars,
                 crashVars>>

(* runner.dispatch() rejects for any other reason.                         *)
DispatchFails(r) ==
  /\ r \in calls
  /\ LostReplies \/ active \in {r, None}
  /\ HangUp({r})
  /\ active' = None /\ lease' = 0
  /\ rows' = SystemErrored(rows, r, "RUNNER_UNAVAILABLE", None)
  /\ cancels' = cancels \cup {r}
  /\ DeferDispatch(IF active = r THEN lease ELSE grant[r])
  /\ UNCHANGED <<jobs, apiUp, expiring, heartbeatVars, resultVars, taskVars,
                 crashVars>>

(* heartbeat() *)
HandleHeartbeat(r, stage) ==
  /\ apiUp /\ heartbeatMsg[r] = "request"
  /\ IF ActiveLease(r) /\ r \in Running(rows)
     THEN /\ rows' = Heartbeaten(rows, r, stage)
          /\ lease' = LeaseDuration
          /\ heartbeatMsg' = [heartbeatMsg EXCEPT ![r] = "granted"]
          /\ heartbeatGrant' = [heartbeatGrant EXCEPT ![r] = LeaseDuration]
     ELSE /\ heartbeatMsg' = [heartbeatMsg EXCEPT ![r] = "none"]
          /\ UNCHANGED <<rows, lease, heartbeatGrant>>
  /\ UNCHANGED <<jobs, apiUp, active, expiring, calls, dispatchMsg, grant,
                 cancels, deferVars, resultVars, taskVars, crashVars>>

(* What result() makes of the table; issued says whether the receipt could *)
(* be issued and saved.                                                    *)
Settled(r, issued) ==
  LET d == delivery[r]
      report == [run |-> r, request |-> rows[r].request, verdict |-> d.verdict]
  IN  CASE d.status = "SYSTEM_ERROR" ->
             SystemErrored(rows, r, "RUNNER_FAILURE", r)
        [] d.status = "WRONG_RUNTIME" ->
             SystemErrored(rows, r, "RUNTIME_IMAGE_MISMATCH", r)
        [] OTHER ->
             IF issued /\ Completable(rows, r, d.status, report, report)
             THEN Completed(rows, r, d.status, report, report, r)
             ELSE SystemErrored(rows, r, "RECEIPT_ISSUANCE_FAILED", None)

Answer(r, accepted) ==
  reply' = [reply EXCEPT ![r] =
    CASE task[r] # "awaiting" -> @
      [] task[r] = "awaiting" /\ accepted -> "accepted"
      [] OTHER -> "rejected"]

(* Fault: a result whose receipt could not be issued is acknowledged.      *)
PoliteHandleResult(r, issued) ==
  /\ apiUp /\ r \in resultMsgs
  /\ resultMsgs' = resultMsgs \ {r}
  /\ LET known == ResultDeliveryOutcome(rows, r, r)
     IN  IF known = "PENDING" /\ ActiveLease(r)
         THEN DispatchNext(Settled(r, issued), None, 0) /\ Answer(r, TRUE)
         ELSE Answer(r, known = "ACCEPTED") /\ UNCHANGED leaseVars
  /\ UNCHANGED <<jobs, apiUp, expiring, cancels, deferVars, heartbeatVars,
                 taskVars, crashVars>>

(* result(): the active run is RUNNING (RunningIsOwned), so the branches   *)
(* that handle a row that is not are left out.  The response leaves after  *)
(* the dispatch of the next run has settled; here it may leave earlier.    *)
HandleResult(r, issued) ==
  /\ apiUp /\ r \in resultMsgs
  /\ resultMsgs' = resultMsgs \ {r}
  /\ LET known == ResultDeliveryOutcome(rows, r, r)
         settled == Settled(r, issued)
     IN  IF known = "PENDING" /\ ActiveLease(r)
         THEN /\ DispatchNext(settled, None, 0)
              /\ Answer(r, settled[r].fingerprint = r)
         ELSE /\ Answer(r, known = "ACCEPTED")
              /\ UNCHANGED leaseVars
  /\ UNCHANGED <<jobs, apiUp, expiring, cancels, deferVars, heartbeatVars,
                 taskVars, crashVars>>

(* expireLease() up to its await. *)
ExpireLease ==
  /\ active # None /\ lease = 0
  /\ expiring' = expiring \cup {active}
  /\ cancels' = cancels \cup {active}
  /\ active' = None
  /\ UNCHANGED <<rows, jobs, apiUp, lease, calls, dispatchMsg, grant,
                 deferVars, heartbeatVars, resultVars, taskVars, crashVars>>

(* The rest of expireLease(), once the cancel call has settled.            *)
FinishExpiry(r) ==
  /\ r \in expiring
  /\ expiring' = expiring \ {r}
  /\ DispatchNext(SystemErrored(rows, r, "LEASE_EXPIRED", None), active, lease)
  /\ UNCHANGED <<jobs, apiUp, cancels, deferVars, heartbeatVars, resultVars,
                 taskVars, crashVars>>

(* The callback of dispatchTimer. *)
TimerFires ==
  /\ timer = 0
  /\ timer' = IF blocked > 0 THEN blocked ELSE Off
  /\ DispatchNext(rows, active, lease)
  /\ UNCHANGED <<jobs, apiUp, expiring, blocked, cancels, heartbeatVars,
                 resultVars, taskVars, crashVars>>

ApiCrash ==
  /\ apiUp /\ apiCrashes < MaxApiCrashes
  /\ apiUp' = FALSE /\ apiCrashes' = apiCrashes + 1
  /\ active' = None /\ lease' = 0 /\ expiring' = {}
  /\ blocked' = 0 /\ timer' = Off
  /\ HangUp(calls)
  /\ UNCHANGED <<rows, jobs, cancels, heartbeatVars, resultVars,
                 taskVars, runnerCrashes>>

(* Faults: the interrupted runs are put back into the queue; they are left *)
(* RUNNING.                                                                *)
RequeuingApiStart ==
  /\ ~apiUp
  /\ apiUp' = TRUE
  /\ cancels' = cancels \cup Running(rows)
  /\ rows' = [r \in Run |-> Requeued(rows, r)[r]]
  /\ DeferDispatch(LeaseDuration)
  /\ UNCHANGED <<jobs, active, lease, calls, dispatchMsg, grant, expiring,
                 heartbeatVars, resultVars, taskVars, crashVars>>

CarelessApiStart ==
  /\ ~apiUp
  /\ apiUp' = TRUE
  /\ DispatchNext(rows, active, lease)
  /\ UNCHANGED <<jobs, expiring, cancels, deferVars, heartbeatVars, resultVars,
                 taskVars, crashVars>>

(* start(): the lease of the interrupted runs is unknown by now, so a      *)
(* whole lease is waited out.                                              *)
ApiStart ==
  /\ ~apiUp
  /\ apiUp' = TRUE
  /\ cancels' = cancels \cup Running(rows)
  /\ IF Running(rows) = {}
     THEN DispatchNext(rows, active, lease) /\ UNCHANGED deferVars
     ELSE /\ rows' = Recovered(rows)
          /\ DeferDispatch(LeaseDuration)
          /\ UNCHANGED <<active, lease, calls, dispatchMsg, grant>>
  /\ UNCHANGED <<jobs, expiring, heartbeatVars, resultVars, taskVars,
                 crashVars>>

-----------------------------------------------------------------------------
(* The RunnerService. *)

(* dispatch() *)
HandleDispatch(r) ==
  LET answer == CASE task[r] # "unknown" -> "refused"
                  [] task[r] = "unknown" /\ Executing # {} -> "busy"
                  [] OTHER -> IF grant[r] = 0 THEN "refused" ELSE "accepted"
  IN  /\ dispatchMsg[r] = "request"
      /\ IF r \in calls
         THEN /\ dispatchMsg' = [dispatchMsg EXCEPT ![r] = answer]
              /\ UNCHANGED grant
         ELSE /\ dispatchMsg' = [dispatchMsg EXCEPT ![r] = "none"]
              /\ grant' = [grant EXCEPT ![r] = 0]
      /\ IF answer = "accepted"
         THEN /\ task' = [task EXCEPT ![r] = "executing"]
              /\ runnerLease' = [runnerLease EXCEPT ![r] = grant[r]]
              /\ executed' = executed \cup {r}
         ELSE UNCHANGED <<task, runnerLease, executed>>
      /\ UNCHANGED <<rows, jobs, apiVars, heartbeatVars, cancels, resultVars,
                     cancelled, delivery, crashVars>>

(* cancel(): an unknown or finished run is left alone.                     *)
HandleCancel(r) ==
  /\ r \in cancels
  /\ cancels' = cancels \ {r}
  /\ cancelled' = cancelled \cup ({r} \cap Executing)
  /\ UNCHANGED <<rows, jobs, apiVars, dispatchMsg, grant, heartbeatVars,
                 resultVars, task, runnerLease, delivery, executed, crashVars>>

(* notifyHeartbeat(), on its interval or at the start of a stage.          *)
SendHeartbeat(r) ==
  /\ task[r] = "executing"
  /\ heartbeatMsg' = [heartbeatMsg EXCEPT ![r] = "request"]
  /\ heartbeatGrant' = [heartbeatGrant EXCEPT ![r] = 0]
  /\ UNCHANGED <<rows, jobs, apiVars, dispatchMsg, grant, cancels, resultVars,
                 taskVars, crashVars>>

(* The response may also arrive after the execution has finished.          *)
ReceiveHeartbeat(r) ==
  /\ heartbeatMsg[r] = "granted"
  /\ heartbeatMsg' = [heartbeatMsg EXCEPT ![r] = "none"]
  /\ heartbeatGrant' = [heartbeatGrant EXCEPT ![r] = 0]
  /\ runnerLease' = [runnerLease EXCEPT ![r] =
       IF task[r] \in {"unknown", "done"} THEN 0 ELSE heartbeatGrant[r]]
  /\ UNCHANGED <<rows, jobs, apiVars, dispatchMsg, grant, cancels, resultVars,
                 task, cancelled, delivery, executed, crashVars>>

(* One turn of the loop of deliverRetainedResult(). *)
Deliver(r) ==
  IF runnerLease[r] > 0
  THEN /\ task' = [task EXCEPT ![r] = "awaiting"]
       /\ resultMsgs' = resultMsgs \cup {r}
  ELSE /\ task' = [task EXCEPT ![r] = "done"]
       /\ UNCHANGED resultMsgs

(* The end of execute(): the slot is released before the delivery.         *)
FinishExecution(r, d) ==
  /\ task[r] = "executing"
  /\ delivery' = [delivery EXCEPT ![r] = d]
  /\ Deliver(r)
  /\ UNCHANGED <<rows, jobs, apiVars, dispatchMsg, grant, heartbeatVars,
                 cancels, reply, runnerLease, cancelled, executed, crashVars>>

(* callback.result() fails: 5xx, 408, 429, a timeout or no connection.     *)
DeliveryFails(r) ==
  /\ task[r] = "awaiting"
  /\ task' = [task EXCEPT ![r] =
                IF runnerLease[r] > 0 THEN "retrying" ELSE "done"]
  /\ reply' = [reply EXCEPT ![r] = "none"]
  /\ UNCHANGED <<rows, jobs, apiVars, dispatchMsg, grant, heartbeatVars,
                 cancels, resultMsgs, runnerLease, cancelled, delivery,
                 executed, crashVars>>

RetryDelivery(r) ==
  /\ task[r] = "retrying"
  /\ Deliver(r)
  /\ UNCHANGED <<rows, jobs, apiVars, dispatchMsg, grant, heartbeatVars,
                 cancels, reply, runnerLease, cancelled, delivery, executed,
                 crashVars>>

(* 200, or a definitive 4xx, which is not retried.  The lease of a run     *)
(* that is done is never compared with the clock again.                    *)
ReceiveReply(r) ==
  /\ task[r] = "awaiting" /\ reply[r] # "none"
  /\ task' = [task EXCEPT ![r] = "done"]
  /\ runnerLease' = [runnerLease EXCEPT ![r] = 0]
  /\ UNCHANGED <<rows, jobs, apiVars, dispatchMsg, grant, heartbeatVars,
                 cancels, resultVars, cancelled, delivery, executed,
                 crashVars>>

(* The runner's memory is lost; what it sent is still on the way.          *)
RunnerRestart ==
  /\ runnerCrashes < MaxRunnerCrashes
  /\ \E r \in Run : task[r] # "unknown"
  /\ runnerCrashes' = runnerCrashes + 1
  /\ task' = [r \in Run |-> "unknown"]
  /\ runnerLease' = [r \in Run |-> 0]
  /\ cancelled' = {}
  /\ heartbeatMsg' = [r \in Run |-> IF heartbeatMsg[r] = "granted"
                                    THEN "none" ELSE heartbeatMsg[r]]
  /\ heartbeatGrant' = [r \in Run |-> 0]
  /\ reply' = [r \in Run |-> "none"]
  /\ UNCHANGED <<rows, jobs, apiVars, dispatchMsg, grant, cancels, resultMsgs,
                 delivery, executed, apiCrashes>>

-----------------------------------------------------------------------------
(* A dispatch call times out punctually, everything else may be late.      *)
Tick ==
  /\ \A r \in calls : grant[r] > LeaseDuration - DispatchTimeout
  /\ \/ lease > 0 \/ blocked > 0 \/ timer > 0
     \/ \E r \in Run : grant[r] + heartbeatGrant[r] + runnerLease[r] > 0
  /\ lease' = Ticked(lease)
  /\ blocked' = Ticked(blocked)
  /\ timer' = Ticked(timer)
  /\ grant' = [r \in Run |-> Ticked(grant[r])]
  /\ heartbeatGrant' = [r \in Run |-> Ticked(heartbeatGrant[r])]
  /\ runnerLease' = [r \in Run |-> Ticked(runnerLease[r])]
  /\ UNCHANGED <<rows, jobs, apiUp, active, expiring, calls, dispatchMsg,
                 heartbeatMsg, cancels, resultVars, task, cancelled, delivery,
                 executed, crashVars>>

ApiNext ==
  \/ \E k \in Key, q \in Request : StartVerification(k, q)
  \/ \E k \in Key, q \in Request : StartReproducibility(k, q)
  \/ ReplayVerification
  \/ \E r \in Run : DispatchReturns(r)
  \/ \E r \in Run : DispatchBusy(r)
  \/ \E r \in Run : DispatchFails(r)
  \/ \E r \in Run, stage \in Stage \cup {None} : HandleHeartbeat(r, stage)
  \/ \E r \in Run, issued \in BOOLEAN : HandleResult(r, issued)
  \/ ExpireLease
  \/ \E r \in Run : FinishExpiry(r)
  \/ TimerFires
  \/ ApiCrash
  \/ ApiStart

RunnerNext ==
  \/ \E r \in Run : HandleDispatch(r)
  \/ \E r \in Run : HandleCancel(r)
  \/ \E r \in Run : SendHeartbeat(r)
  \/ \E r \in Run : ReceiveHeartbeat(r)
  \/ \E r \in Run, d \in Delivery : FinishExecution(r, d)
  \/ \E r \in Run : DeliveryFails(r)
  \/ \E r \in Run : RetryDelivery(r)
  \/ \E r \in Run : ReceiveReply(r)
  \/ RunnerRestart

Next == ApiNext \/ RunnerNext \/ Tick

Spec == Init /\ [][Next]_vars

(* What the processes do as long as they live: timers fire, calls settle,  *)
(* executions end (every sandbox phase has a deadline), a dead process is  *)
(* started again.  The network owes nothing: no message need arrive.       *)
Fairness ==
  /\ WF_vars(Tick) /\ WF_vars(ExpireLease) /\ WF_vars(TimerFires)
  /\ WF_vars(ApiStart)
  /\ \A r \in Run :
       /\ WF_vars(DispatchReturns(r) \/ DispatchBusy(r) \/ DispatchFails(r))
       /\ WF_vars(FinishExpiry(r))
       /\ WF_vars(\E d \in Delivery : FinishExecution(r, d))

FairSpec == Spec /\ Fairness

-----------------------------------------------------------------------------

(* While the API is up, a run is RUNNING in the table exactly as long as   *)
(* this process owns it: it holds the lease, or its expireLease() is       *)
(* about to fail it.  A RUNNING run nobody owns blocks claimNext() for     *)
(* ever, a lease on a run that is not RUNNING blocks dispatchNext().       *)
RunningIsOwned ==
  apiUp => Running(rows) = ({active} \ {None}) \cup expiring

(* While one run holds the lease, no other run can begin or carry on       *)
(* executing inside a lease of its own, not even one whose dispatch was    *)
(* ambiguous or whose last heartbeat response is still on its way.         *)
MayExecute(r) ==
  \/ dispatchMsg[r] = "request" /\ grant[r] > 0
  \/ /\ task[r] = "executing"
     /\ \/ runnerLease[r] > 0
        \/ heartbeatMsg[r] = "granted" /\ heartbeatGrant[r] > 0

LeaseExclusion ==
  active # None => \A r \in Run \ {active} : ~MayExecute(r)

(* A run in the queue has left no trace outside the table, although it may *)
(* have been claimed and refused before: only a runner that never took the *)
(* run can send it back, so a new lease id cannot meet messages of an old  *)
(* one.                                                                    *)
QueuedUnseen ==
  \A r \in Waiting(rows) :
    /\ r \notin executed \cup calls \cup expiring \cup cancels \cup resultMsgs
    /\ dispatchMsg[r] = "none" /\ heartbeatMsg[r] = "none"
    /\ task[r] = "unknown"

(* Whatever is lost, retried or restarted, a run is executed at most once. *)
AtMostOnce ==
  [][\A r \in executed :
       task'[r] = "executing" => task[r] = "executing"]_vars

(* The runner is told that its result was accepted only when the table     *)
(* durably holds that very result, and that it was rejected only when the  *)
(* table does not: a lost response, a retry and a restart change neither.  *)
ReplyMatchesStore ==
  \A r \in Run :
    reply[r] # "none" => (reply[r] = "accepted" <=> rows[r].fingerprint = r)

(* An execution the API has asked the runner to stop never ends as a       *)
(* verdict: the API cancels only what it has given up.                     *)
CancelledHasNoVerdict ==
  \A r \in cancelled : rows[r].report = None

(* CONTRACTS.md:30 and public.ts: five runs wait, queuePosition is 1 to 5. *)
QueuePositionBounded ==
  \A r \in Waiting(rows) : QueuePosition(rows, r) <= WaitingLimit

(* A run that has entered the queue gets a terminal outcome, whatever is   *)
(* lost, as long as the processes stop crashing at some time.              *)
EveryRunEnds ==
  \A r \in Run :
    rows[r].status = "QUEUED" ~> rows[r].status \in Terminal
=============================================================================
