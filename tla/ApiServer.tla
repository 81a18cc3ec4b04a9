------------------------------ MODULE ApiServer ------------------------------
(***************************************************************************)
(* The API's HTTP server between its clients and the tables.               *)
(*                                                                         *)
(* A handler is one turn up to the body it awaits and one turn from the    *)
(* body to its next await, so requests interleave between the two; what is *)
(* checked before the body (the Idempotency-Key header, the bearer token,  *)
(* the path, the declared length) holds or fails whatever the body is.     *)
(* Clients repeat requests whose answers they have lost, connections       *)
(* break, and the process restarts.  The orchestrator is reduced to the    *)
(* lease of the active run; Orchestration.tla has the rest of it.          *)
(***************************************************************************)
EXTENDS Responses

CONSTANTS
  Call,       \* the HTTP requests that clients send, any number of times
  MaxSent,    \* how many requests are sent in all
  MaxOpen,    \* how many are open at a time
  MaxCrashes

Starting == {"verify", "a2mcp", "reproducibility"}
Reading == {"run", "job"}
Callback == {"heartbeat", "result"}

(* Fields a route does not use are None; a path that cannot be decoded and *)
(* a key that is missing, blank or too long are None as well.  The key of  *)
(* an A2MCP call is part of its body.                                      *)
ASSUME ApiAssumption ==
  /\ \A c \in Call :
       /\ c.route \in {"verify", "a2mcp", "reproducibility", "inspect", "run",
                       "job", "heartbeat", "result"}
       /\ c.body \in {"valid", "invalid", "garbled", "declared too long",
                      "too long"}
       /\ c.authentic \in BOOLEAN
       /\ c.route \in {"run"} \cup Callback => c.id \in Run \cup {None}
       /\ c.route = "job" => c.id \in Job \cup {None}
       /\ c.route \in {"verify", "reproducibility"} => c.key \in Key \cup {None}
       /\ c.body = "valid" =>
            /\ c.route = "a2mcp" => c.key \in Key
            /\ c.route \in Starting => c.request \in Request
            /\ c.route = "result" => c.print \in Fingerprint /\ c.verdict \in Verdict
  /\ MaxSent \in Nat /\ MaxOpen \in Nat \ {0} /\ MaxCrashes \in Nat
  /\ "LEASE_EXPIRED" \in ErrorCode /\ "RECEIPT_ISSUANCE_FAILED" \in ErrorCode
  /\ None \notin Key \cup Status
  /\ None \notin {"INCONCLUSIVE", "IDEMPOTENCY_KEY_CONFLICT", "RESULT_CONFLICT"}

VARIABLES
  phase,     \* where the handler of a call is: idle, reading, awaiting
  plan,      \* the answer a handler gives when what it awaits has settled
  active,    \* the run that holds the lease
  given,     \* history: the answers, with the number of the request
  heard,     \* history: the calls whose valid body a handler has read
  sent, crashes

serverVars == <<phase, plan, given, heard, sent>>
apiVars == <<rows, jobs, phase, plan, active, given, heard, sent, crashes>>

Answer(status, code, subject, seen) ==
  [status |-> status, code |-> code, subject |-> subject, seen |-> seen]
Refusal(status, code) == Answer(status, code, None, None)
Accepted == Answer(200, None, None, None)

(* The catch clause for what no other clause names.                        *)
InternalError == Refusal(500, "INTERNAL_ERROR")

(* A handler answers the n-th request: nothing it knows survives.          *)
Respond(c, n, a) ==
  /\ phase' = [phase EXCEPT ![c] = "idle"]
  /\ plan' = [plan EXCEPT ![c] = None]
  /\ given' = given \cup {[call |-> c, number |-> n, answer |-> a]}

Invalid == Refusal(400, "INVALID_REQUEST")
TooLong == Refusal(413, "REQUEST_BODY_TOO_LARGE")
NoKey == Refusal(400, "IDEMPOTENCY_KEY_REQUIRED")
NotAllowed == Refusal(401, "UNAUTHORIZED")

ASSUME RefusalAssumption == None \notin {Invalid, TooLong, NoKey, NotAllowed}

KeyMissing(c) == c.route \in {"verify", "reproducibility"} /\ c.key = None

(* Fault: a callback is authenticated when its effect is due. *)
FaultyEarly(c) ==
  CASE KeyMissing(c) -> NoKey
    [] c.route \in Callback \cup Reading /\ c.id = None -> Invalid
    [] OTHER -> None

(* What is answered before the body is read; None if nothing is. *)
Early(c) ==
  IF KeyMissing(c) THEN NoKey
  ELSE IF c.route \in Callback /\ ~c.authentic THEN NotAllowed
  ELSE IF c.route \in Callback \cup Reading /\ c.id = None THEN Invalid
  ELSE IF c.route \notin Reading /\ c.body = "declared too long" THEN TooLong
  ELSE None

(* readBuffer(), readJson() and parse() of a body; None if it is valid.    *)
BodyRefusal(c) ==
  CASE c.body = "too long" -> TooLong
    [] c.body \in {"garbled", "invalid"} -> Invalid
    [] OTHER -> None

(* GET of a run or of a reproducibility job. *)
Shows(c) ==
  CASE c.route = "run" /\ c.id \notin Present(rows) ->
         Refusal(404, "RUN_NOT_FOUND")
    [] c.route = "run" /\ c.id \in Present(rows) ->
         IF Inflated(rows, c.id) = Unreadable THEN InternalError
         ELSE Answer(200, None, c.id, Inflated(rows, c.id).status)
    [] c.route = "job" /\ jobs[c.id] = None -> Refusal(404, "RUN_NOT_FOUND")
    [] c.route = "job" /\ jobs[c.id] # None ->
         IF Reproduced(rows, jobs[c.id]) = Unreadable THEN InternalError
         ELSE Answer(200, None, c.id, Reproduced(rows, jobs[c.id]).status)

(* dispatchNext() in a turn that has changed the table to db and the lease *)
(* to act; it claims nothing while it is blocked after a failure.          *)
DispatchNext(db, act) ==
  \/ /\ act = None
     /\ \E r \in Run : /\ Claimable(db, r)
                       /\ rows' = Claimed(db, r)
                       /\ active' = r
  \/ rows' = db /\ active' = act

-----------------------------------------------------------------------------
ApiInit ==
  /\ StoreInit
  /\ phase = [c \in Call |-> "idle"] /\ plan = [c \in Call |-> None]
  /\ active = None /\ given = {} /\ heard = {} /\ sent = 0 /\ crashes = 0

(* A request arrives: the handler runs to its first await. *)
Receive(c) ==
  /\ phase[c] = "idle" /\ sent < MaxSent
  /\ Cardinality({d \in Call : phase[d] # "idle"}) < MaxOpen
  /\ sent' = sent + 1
  /\ IF Early(c) # None THEN Respond(c, sent', Early(c))
     ELSE IF c.route \in Reading THEN Respond(c, sent', Shows(c))
     ELSE /\ phase' = [phase EXCEPT ![c] = "reading"]
          /\ UNCHANGED <<plan, given>>
  /\ UNCHANGED <<storeVars, active, heard, crashes>>

(* The connection breaks, or the server's request time-out ends it: the    *)
(* body is never complete and the answer reaches nobody.                   *)
Break(c) ==
  /\ phase[c] = "reading"
  /\ phase' = [phase EXCEPT ![c] = "idle"]
  /\ UNCHANGED <<storeVars, plan, active, given, heard, sent, crashes>>

(* Fault: nothing catches the exception of readJson(). *)
FaultyRefuseBody(c) ==
  /\ phase[c] = "reading" /\ BodyRefusal(c) # None /\ c.body # "garbled"
  /\ Respond(c, sent, BodyRefusal(c))
  /\ UNCHANGED <<storeVars, active, heard, sent, crashes>>

RefuseBody(c) ==
  /\ phase[c] = "reading" /\ BodyRefusal(c) # None
  /\ Respond(c, sent, BodyRefusal(c))
  /\ UNCHANGED <<storeVars, active, heard, sent, crashes>>

(* The body of a call of this route has arrived, and is valid.             *)
Hears(c, routes) ==
  /\ phase[c] = "reading" /\ c.body = "valid" /\ c.route \in routes
  /\ heard' = heard \cup {c}
  /\ UNCHANGED <<sent, crashes>>

(* Fault: a new run is shown the way it was created. *)
FaultyRunAnswer(c, r, db, new) ==
  IF Inflated(db, r) = Unreadable THEN InternalError
  ELSE Answer(IF new /\ c.route # "a2mcp" THEN 202 ELSE 200, None, r,
              IF new THEN "QUEUED" ELSE Inflated(db, r).status)

(* The run a start has created or found, read again from table db.         *)
RunAnswer(c, r, db, new) ==
  IF Inflated(db, r) = Unreadable THEN InternalError
  ELSE Answer(IF new /\ c.route # "a2mcp" THEN 202 ELSE 200, None, r,
              Inflated(db, r).status)

(* POST /api/verify and /a2mcp/verify_repository: create(), dispatchNext() *)
(* and get() in one turn.                                                  *)
Verify(c) ==
  /\ Hears(c, {"verify", "a2mcp"})
  /\ \/ \E r \in Present(rows) :
          /\ rows[r].owner = <<Public, c.key>> /\ rows[r].request = c.request
          /\ DispatchNext(rows, active)
          /\ Respond(c, sent, RunAnswer(c, r, rows', FALSE))
     \/ /\ KeyTaken(rows, c.key) /\ ~Replayed(rows, c.key, c.request)
        /\ Respond(c, sent, Refusal(409, "IDEMPOTENCY_KEY_CONFLICT"))
        /\ UNCHANGED <<rows, active>>
     \/ /\ ~KeyTaken(rows, c.key) /\ WaitingCount(rows) >= WaitingLimit
        /\ Respond(c, sent, Refusal(429, "RUN_QUEUE_FULL"))
        /\ UNCHANGED <<rows, active>>
     \/ /\ ~KeyTaken(rows, c.key) /\ WaitingCount(rows) < WaitingLimit
        /\ \E r \in Run \ Present(rows) :
             /\ DispatchNext(Inserted(rows, r, <<Public, c.key>>, c.request,
                                      NextSequence(rows)), active)
             /\ Respond(c, sent, RunAnswer(c, r, rows', TRUE))
  /\ UNCHANGED jobs

(* The job a start has created or found, read again.                       *)
JobAnswer(j, job, db, new) ==
  IF Reproduced(db, job) = Unreadable THEN InternalError
  ELSE Answer(IF new THEN 202 ELSE 200, None, j, Reproduced(db, job).status)

(* POST /api/reproducibility *)
Reproduce(c) ==
  /\ Hears(c, {"reproducibility"})
  /\ LET known == {j \in Job : jobs[j] # None /\ jobs[j].key = c.key} IN
     \/ \E j \in known :
          IF jobs[j].request = c.request
          THEN /\ DispatchNext(rows, active)
               /\ Respond(c, sent, JobAnswer(j, jobs[j], rows', FALSE))
               /\ UNCHANGED jobs
          ELSE /\ Respond(c, sent, Refusal(409, "IDEMPOTENCY_KEY_CONFLICT"))
               /\ UNCHANGED <<storeVars, active>>
     \/ /\ known = {} /\ WaitingCount(rows) + 2 > WaitingLimit
        /\ Respond(c, sent, Refusal(429, "RUN_QUEUE_FULL"))
        /\ UNCHANGED <<storeVars, active>>
     \/ /\ known = {} /\ WaitingCount(rows) + 2 <= WaitingLimit
        /\ \E j \in {i \in Job : jobs[i] = None},
              b \in Run \ Present(rows), d \in Run \ Present(rows) :
             LET n == NextSequence(rows)
                 job == [key |-> c.key, request |-> c.request,
                         baseline |-> b, candidate |-> d]
                 first == Inserted(rows, b, <<j, "baseline">>, c.request, n)
             IN  /\ b # d
                 /\ jobs' = [jobs EXCEPT ![j] = job]
                 /\ DispatchNext(Inserted(first, d, <<j, "candidate">>,
                                          c.request, n + 1), active)
                 /\ Respond(c, sent, JobAnswer(j, job, rows', TRUE))

(* POST .../heartbeat *)
Beat(c) ==
  /\ Hears(c, {"heartbeat"})
  /\ IF c.id \notin Present(rows)
     THEN Respond(c, sent, Refusal(404, "RUN_NOT_FOUND")) /\ UNCHANGED rows
     ELSE IF active # c.id
     THEN Respond(c, sent, Refusal(409, "LEASE_EXPIRED")) /\ UNCHANGED rows
     ELSE /\ \E stage \in Stage : rows' = Heartbeaten(rows, c.id, stage)
          /\ Respond(c, sent, Accepted)
  /\ UNCHANGED <<jobs, active>>

(* What result() makes of the active run; issued says whether its receipt  *)
(* could be issued and saved.                                              *)
Concludes(c, issued) ==
  LET report == [run |-> c.id, request |-> rows[c.id].request,
                 verdict |-> c.verdict]
  IN  IF issued
      THEN Completed(rows, c.id, "COMPLETED", report, report, c.print)
      ELSE SystemErrored(rows, c.id, "RECEIPT_ISSUANCE_FAILED", None)

(* Fault: the answer of a result whose receipt failed is the usual one.    *)
FaultyResultAnswer(issued) == Accepted

(* The answer to a result that has been taken. *)
ResultAnswer(issued) ==
  IF issued THEN Accepted ELSE Refusal(409, "LEASE_EXPIRED")

(* PUT .../result: the answer waits until the next run is dispatched.      *)
Deliver(c) ==
  /\ Hears(c, {"result"})
  /\ LET known == ResultDeliveryOutcome(rows, c.id, c.print)
     IN  IF known = "PENDING" /\ active = c.id
         THEN \E issued \in BOOLEAN :
                /\ DispatchNext(Concludes(c, issued), None)
                /\ phase' = [phase EXCEPT ![c] = "awaiting"]
                /\ plan' = [plan EXCEPT ![c] = ResultAnswer(issued)]
                /\ UNCHANGED given
         ELSE /\ Respond(c, sent,
                   CASE known = "RUN_NOT_FOUND" -> Refusal(404, known)
                     [] known = "ACCEPTED" -> Accepted
                     [] known = "RESULT_CONFLICT" -> Refusal(409, known)
                     [] OTHER -> Refusal(409, "LEASE_EXPIRED"))
              /\ UNCHANGED <<rows, active>>
  /\ UNCHANGED jobs

(* POST /api/inspect and /a2mcp/inspect_repository: inspect() resolves, or *)
(* rejects with InspectionUnavailableError.                                *)
Inspect(c) ==
  /\ Hears(c, {"inspect"})
  /\ phase' = [phase EXCEPT ![c] = "awaiting"]
  /\ \E a \in {Accepted, Refusal(503, "INTERNAL_ERROR")} :
       plan' = [plan EXCEPT ![c] = a]
  /\ UNCHANGED <<storeVars, active, given>>

(* The call a handler awaits has settled; each has a time-out of 10 s.     *)
Finish(c) ==
  /\ phase[c] = "awaiting"
  /\ Respond(c, sent, plan[c])
  /\ UNCHANGED <<storeVars, active, heard, sent, crashes>>

(* The orchestrator, at any moment: a lease expires, a busy runner refuses *)
(* its run, the queue is woken up.                                         *)
LeaseExpires ==
  /\ active # None
  /\ DispatchNext(SystemErrored(rows, active, "LEASE_EXPIRED", None), None)
  /\ UNCHANGED <<jobs, serverVars, crashes>>

RunnerRefuses ==
  /\ active # None
  /\ rows' = Requeued(rows, active) /\ active' = None
  /\ UNCHANGED <<jobs, serverVars, crashes>>

WakeUp ==
  /\ active = None
  /\ DispatchNext(rows, active)
  /\ UNCHANGED <<jobs, serverVars, crashes>>

(* The process restarts: open handlers are gone, the tables are not.       *)
Crash ==
  /\ crashes < MaxCrashes /\ crashes' = crashes + 1
  /\ rows' = Recovered(rows) /\ active' = None
  /\ phase' = [c \in Call |-> "idle"] /\ plan' = [c \in Call |-> None]
  /\ UNCHANGED <<jobs, given, heard, sent>>

Handle(c) ==
  RefuseBody(c) \/ Verify(c) \/ Reproduce(c) \/ Beat(c) \/ Deliver(c) \/ Inspect(c)

ApiNext ==
  \/ \E c \in Call : Receive(c) \/ Break(c) \/ Handle(c) \/ Finish(c)
  \/ LeaseExpires \/ RunnerRefuses \/ WakeUp \/ Crash

ApiSpec == ApiInit /\ [][ApiNext]_apiVars

-----------------------------------------------------------------------------

(* The routes whose answers are about a job, not about a run. *)
OfJobs == {"reproducibility", "job"}

Started(g) ==
  g.call.route \in Starting /\ g.answer.status \in {200, 202}

(* Whatever order requests, retries, lost answers and restarts come in:    *)
(* all answers to one key name one run (REST and A2MCP share their keys)   *)
(* or one job, and only one of them can say that it is new.                *)
OneSubjectPerKey ==
  \A g, h \in given :
    /\ Started(g) /\ Started(h) /\ g.call.key = h.call.key
    /\ g.call.route = "reproducibility" <=> h.call.route = "reproducibility"
    => /\ g.answer.subject = h.answer.subject
       /\ g.call.request = h.call.request
       /\ g.answer.status = 202 /\ h.answer.status = 202 => g = h

(* No answer is ever taken back: a key keeps its one subject, a run that   *)
(* was promised is there with the caller's key and request, a conflict is  *)
(* one for ever, an acknowledged result is the stored one, a refused one   *)
(* is not, and an outcome that was shown is still the outcome.             *)
AnswersStayTrue ==
  /\ OneSubjectPerKey
  /\ \A g \in given : LET c == g.call  a == g.answer IN
       /\ Started(g) /\ c.route # "reproducibility" =>
            /\ rows[a.subject].owner = <<Public, c.key>>
            /\ rows[a.subject].request = c.request
       /\ Started(g) /\ c.route = "reproducibility" =>
            jobs[a.subject].key = c.key /\ jobs[a.subject].request = c.request
       /\ a.code = "IDEMPOTENCY_KEY_CONFLICT" /\ c.route # "reproducibility" =>
            KeyTaken(rows, c.key) /\ ~Replayed(rows, c.key, c.request)
       /\ c.route = "result" /\ a.status = 200 => rows[c.id].fingerprint = c.print
       /\ c.route = "result" /\ a.code = "RESULT_CONFLICT" =>
            rows[c.id].fingerprint \notin {None, c.print}
       /\ c.route \notin OfJobs /\ a.seen \in Terminal =>
            Inflated(rows, a.subject).status = a.seen
       /\ c.route \in OfJobs /\ a.seen \in {"COMPLETED", "INCONCLUSIVE"} =>
            Reproduced(rows, jobs[a.subject]).status = a.seen

(* Whatever is stored was asked for by a call that was allowed to ask: no  *)
(* refused, broken or unauthenticated request leaves a run, a job, a stage *)
(* or an outcome behind.                                                   *)
EffectsHaveCallers ==
  /\ \A r \in Present(rows) : rows[r].owner[1] = Public =>
       \E c \in heard : /\ c.route \in {"verify", "a2mcp"}
                        /\ rows[r].owner[2] = c.key
                        /\ rows[r].request = c.request
  /\ \A j \in Job : jobs[j] # None =>
       \E c \in heard : /\ c.route = "reproducibility"
                        /\ jobs[j].key = c.key /\ jobs[j].request = c.request
  /\ \A r \in Run : rows[r].fingerprint # None =>
       \E c \in heard : /\ c.route = "result" /\ c.authentic
                        /\ c.id = r /\ c.print = rows[r].fingerprint
  /\ \A r \in Run : rows[r].stage \in Stage \ {"SANDBOX"} =>
       \E c \in heard : c.route = "heartbeat" /\ c.authentic /\ c.id = r

(* An answer about a run or a job shows it as it is at that moment, after  *)
(* the dispatch the same request has caused.                               *)
AnswersAreCurrent ==
  [][\A g \in given' \ given : g.answer.subject # None =>
       g.answer.seen =
         IF g.call.route \in OfJobs
         THEN Reproduced(rows', jobs'[g.answer.subject]).status
         ELSE Inflated(rows', g.answer.subject).status]_apiVars

(* No handler ever stands where none of its branches goes on: whatever the *)
(* tables, the queue and the other handlers have come to, the next step of *)
(* an open call answers it or awaits a call that has a time-out.  A call   *)
(* takes two steps at most, so it is answered unless its connection or the *)
(* process breaks.                                                         *)
NoHandlerIsStuck ==
  \A c \in Call :
    /\ phase[c] = "reading" => ENABLED Handle(c)
    /\ phase[c] = "awaiting" => ENABLED Finish(c)
=============================================================================
