------------------------------- MODULE ApiProofs -------------------------------
(***************************************************************************)
(* The answers of the API server, for any calls, any number of requests,   *)
(* retries, lost answers and restarts.                                     *)
(*                                                                         *)
(* Every turn of a handler changes the tables by at most two methods of    *)
(* the store.  Two facts about a turn carry all the rest: it leaves tables *)
(* that are in order and whose contents were asked for (WorldOK), and it   *)
(* takes nothing back that an answer may have told (Keeps).  An answer     *)
(* that is true when it is given, or planned, therefore stays true.        *)
(***************************************************************************)
EXTENDS ApiServer, StoreViewProofs

(* A key names one job. *)
KeysApart(jb) ==
  \A i, j \in Job :
    jb[i] # None /\ jb[j] # None /\ jb[i].key = jb[j].key => i = j

LeaseOK(db, act) == act \in Run \cup {None} /\ (act # None => act \in Running(db))

HaveRequests(db) == \A r \in Present(db) : db[r].request \in Request

(* EffectsHaveCallers, of any tables. *)
RunsAsked(db, calls) ==
  \A r \in Present(db) : db[r].owner[1] = Public =>
    \E c \in calls : /\ c.route \in {"verify", "a2mcp"}
                     /\ db[r].owner[2] = c.key
                     /\ db[r].request = c.request

JobsAsked(jb, calls) ==
  \A j \in Job : jb[j] # None =>
    \E c \in calls : /\ c.route = "reproducibility"
                     /\ jb[j].key = c.key /\ jb[j].request = c.request

PrintsDelivered(db, calls) ==
  \A r \in Run : db[r].fingerprint # None =>
    \E c \in calls : /\ c.route = "result" /\ c.authentic
                     /\ c.id = r /\ c.print = db[r].fingerprint

StagesAnnounced(db, calls) ==
  \A r \in Run : db[r].stage \in Stage \ {"SANDBOX"} =>
    \E c \in calls : c.route = "heartbeat" /\ c.authentic /\ c.id = r

EffectsOK(db, jb, calls) ==
  /\ RunsAsked(db, calls) /\ JobsAsked(jb, calls)
  /\ PrintsDelivered(db, calls) /\ StagesAnnounced(db, calls)

WorldOK(db, jb, act, calls) ==
  /\ TablesOK(db, jb) /\ KeysApart(jb) /\ HaveRequests(db)
  /\ LeaseOK(db, act) /\ EffectsOK(db, jb, calls)

Keeps(db, jb, new, jb2) ==
  /\ \A r \in Run : db[r].status \in Terminal => new[r] = db[r]
  /\ \A r \in Present(db) : /\ r \in Present(new)
                            /\ new[r].owner = db[r].owner
                            /\ new[r].request = db[r].request
  /\ \A j \in Job : jb[j] # None => jb2[j] = jb[j]

(* What answer a to call c tells is true of the tables. *)
HoldsTrue(c, a, db, jb) ==
  /\ c.route \in Starting \ OfJobs /\ a.status \in {200, 202} =>
       /\ a.subject \in Present(db)
       /\ db[a.subject].owner = <<Public, c.key>>
       /\ db[a.subject].request = c.request
  /\ c.route = "reproducibility" /\ a.status \in {200, 202} =>
       /\ a.subject \in Job /\ jb[a.subject] # None
       /\ jb[a.subject].key = c.key /\ jb[a.subject].request = c.request
  /\ c.route # "reproducibility" /\ a.code = "IDEMPOTENCY_KEY_CONFLICT" =>
       KeyTaken(db, c.key) /\ ~Replayed(db, c.key, c.request)
  /\ c.route = "result" /\ a.status = 200 =>
       /\ c.id \in Run /\ c.print # None
       /\ db[c.id].fingerprint = c.print
  /\ c.route = "result" /\ a.code = "RESULT_CONFLICT" =>
       c.id \in Run /\ db[c.id].fingerprint \notin {None, c.print}
  /\ c.route \notin OfJobs /\ a.seen \in Terminal =>
       a.subject \in Run /\ db[a.subject].status = a.seen
  /\ c.route \in OfJobs /\ a.seen \in {"COMPLETED", "INCONCLUSIVE"} =>
       /\ a.subject \in Job /\ jb[a.subject] # None
       /\ Settled(Reproduced(db, jb[a.subject]))
       /\ Reproduced(db, jb[a.subject]).status = a.seen

(* The calls between their two turns: what was checked before the body     *)
(* still holds of them, and what they will answer is already true.         *)
CallOK(c) ==
  /\ phase[c] = "reading" => Early(c) = None /\ c.route \notin Reading
  /\ phase[c] = "awaiting" =>
       /\ c.route \notin Starting /\ plan[c].subject = None
       /\ HoldsTrue(c, plan[c], rows, jobs)

CallsOK ==
  /\ phase \in [Call -> {"idle", "reading", "awaiting"}]
  /\ plan = [c \in Call |-> plan[c]]
  /\ \A c \in Call : CallOK(c)

(* One answer alone can say that its subject is new. *)
SaysNew(g) == Started(g) /\ g.answer.status = 202

SameKey(g, h) ==
  /\ g.call.key = h.call.key
  /\ g.call.route = "reproducibility" <=> h.call.route = "reproducibility"

AnswersOK ==
  /\ \A g \in given : HoldsTrue(g.call, g.answer, rows, jobs)
  /\ \A g, h \in given : SaysNew(g) /\ SaysNew(h) /\ SameKey(g, h) => g = h

ApiIInv == WorldOK(rows, jobs, active, heard) /\ CallsOK /\ AnswersOK

-----------------------------------------------------------------------------
(* Nothing is taken back. *)
LEMMA KeepsRefl == ASSUME NEW db, NEW jb PROVE Keeps(db, jb, db, jb)
BY DEF Keeps, Present

LEMMA KeepsTrans ==
  ASSUME NEW db, NEW jb, NEW mid, NEW jm, NEW new, NEW jb2,
         Keeps(db, jb, mid, jm), Keeps(mid, jm, new, jb2)
  PROVE  Keeps(db, jb, new, jb2)
<1>1. \A r \in Run : db[r].status \in Terminal => new[r] = db[r]
  BY DEF Keeps
<1>2. \A r \in Present(db) : /\ r \in Present(new)
                             /\ new[r].owner = db[r].owner
                             /\ new[r].request = db[r].request
  BY DEF Keeps
<1>3. \A j \in Job : jb[j] # None => jb2[j] = jb[j]
  BY DEF Keeps
<1> QED
  BY <1>1, <1>2, <1>3 DEF Keeps

(* The job's response, once both runs have ended, is made of final rows.   *)
LEMMA SettledIsRepeated ==
  ASSUME NEW db, NEW jb, NEW new, NEW jb2, TablesOK(db, jb),
         Keeps(db, jb, new, jb2), NEW j \in Job, jb[j] # None,
         Settled(Reproduced(db, jb[j]))
  PROVE  jb2[j] = jb[j] /\ Reproduced(new, jb2[j]) = Reproduced(db, jb[j])
<1> DEFINE b == jb[j].baseline
           c == jb[j].candidate
<1>1. /\ b \in Run /\ c \in Run
      /\ db[b].status \in Terminal /\ db[c].status \in Terminal
  BY JobIsReadable, SettledIsConcluded DEF Present
<1>2. jb2[j] = jb[j] /\ new[b] = db[b] /\ new[c] = db[c]
  BY <1>1 DEF Keeps
<1>3. Inflated(new, b) = Inflated(db, b) /\ Inflated(new, c) = Inflated(db, c)
  BY <1>1, <1>2, FinalIsShownAgain
<1> QED
  BY <1>2, <1>3 DEF Reproduced

(* A fingerprint is a column of a final row. *)
LEMMA PrintIsFinal ==
  ASSUME NEW db, NEW jb, TablesOK(db, jb), NEW r \in Run, db[r].fingerprint # None
  PROVE  db[r].status \in Terminal
<1>1. Consistent(db[r], r) /\ db[r] \in Row
  BY DEF TablesOK, AllConsistent, InLineOK, QueueOK
<1> QED
  BY <1>1 DEF Consistent, Row, Status, Terminal

(* So a true answer stays true. *)
LEMMA TruthIsKept ==
  ASSUME NEW db, NEW jb, NEW new, NEW jb2,
         TablesOK(db, jb), TablesOK(new, jb2), Keeps(db, jb, new, jb2),
         NEW c, NEW a, HoldsTrue(c, a, db, jb)
  PROVE  HoldsTrue(c, a, new, jb2)
<1>1. ASSUME c.route \in Starting \ OfJobs, a.status \in {200, 202}
      PROVE  /\ a.subject \in Present(new)
             /\ new[a.subject].owner = <<Public, c.key>>
             /\ new[a.subject].request = c.request
  BY <1>1 DEF HoldsTrue, Keeps
<1>2. ASSUME c.route = "reproducibility", a.status \in {200, 202}
      PROVE  /\ a.subject \in Job /\ jb2[a.subject] # None
             /\ jb2[a.subject].key = c.key /\ jb2[a.subject].request = c.request
  <2>1. /\ a.subject \in Job /\ jb[a.subject] # None
        /\ jb[a.subject].key = c.key /\ jb[a.subject].request = c.request
    BY <1>2 DEF HoldsTrue
  <2>2. jb2[a.subject] = jb[a.subject]
    BY <2>1 DEF Keeps
  <2> QED
    BY <2>1, <2>2
<1>3. ASSUME c.route # "reproducibility", a.code = "IDEMPOTENCY_KEY_CONFLICT"
      PROVE  KeyTaken(new, c.key) /\ ~Replayed(new, c.key, c.request)
  <2>1. KeyTaken(db, c.key) /\ ~Replayed(db, c.key, c.request)
    BY <1>3 DEF HoldsTrue
  <2>2. PICK r \in Present(db) : db[r].owner = <<Public, c.key>>
    BY <2>1 DEF KeyTaken
  <2>3. /\ db[r].request # c.request /\ r \in Present(new)
        /\ new[r].owner = <<Public, c.key>> /\ new[r].request = db[r].request
    BY <2>1, <2>2 DEF Replayed, Keeps
  <2>4. \A s \in Present(new) : new[s].owner = <<Public, c.key>> => s = r
    BY <2>3 DEF TablesOK, Linked, OwnersDistinct
  <2> QED
    BY <2>3, <2>4 DEF KeyTaken, Replayed
<1>4. ASSUME c.route = "result", a.status = 200
      PROVE  /\ c.id \in Run /\ c.print # None
             /\ new[c.id].fingerprint = c.print
  <2>1. /\ c.id \in Run /\ c.print # None
        /\ db[c.id].fingerprint = c.print
    BY <1>4 DEF HoldsTrue
  <2>2. new[c.id] = db[c.id]
    BY <2>1, PrintIsFinal DEF Keeps
  <2> QED
    BY <2>1, <2>2
<1>5. ASSUME c.route = "result", a.code = "RESULT_CONFLICT"
      PROVE  c.id \in Run /\ new[c.id].fingerprint \notin {None, c.print}
  <2>1. c.id \in Run /\ db[c.id].fingerprint \notin {None, c.print}
    BY <1>5 DEF HoldsTrue
  <2>2. new[c.id] = db[c.id]
    BY <2>1, PrintIsFinal DEF Keeps
  <2> QED
    BY <2>1, <2>2
<1>6. ASSUME c.route \notin OfJobs, a.seen \in Terminal
      PROVE  a.subject \in Run /\ new[a.subject].status = a.seen
  <2>1. a.subject \in Run /\ db[a.subject].status = a.seen
    BY <1>6 DEF HoldsTrue
  <2>2. new[a.subject] = db[a.subject]
    BY <1>6, <2>1 DEF Keeps
  <2> QED
    BY <2>1, <2>2
<1>7. ASSUME c.route \in OfJobs, a.seen \in {"COMPLETED", "INCONCLUSIVE"}
      PROVE  /\ a.subject \in Job /\ jb2[a.subject] # None
             /\ Settled(Reproduced(new, jb2[a.subject]))
             /\ Reproduced(new, jb2[a.subject]).status = a.seen
  <2>1. /\ a.subject \in Job /\ jb[a.subject] # None
        /\ Settled(Reproduced(db, jb[a.subject]))
        /\ Reproduced(db, jb[a.subject]).status = a.seen
    BY <1>7 DEF HoldsTrue
  <2>2. /\ jb2[a.subject] = jb[a.subject]
        /\ Reproduced(new, jb2[a.subject]) = Reproduced(db, jb[a.subject])
    BY <2>1, SettledIsRepeated
  <2> QED
    BY <2>1, <2>2
<1> QED
  BY <1>1, <1>2, <1>3, <1>4, <1>5, <1>6, <1>7 DEF HoldsTrue

-----------------------------------------------------------------------------
(* What the methods of the store do to the tables and to their callers.    *)
LEMMA MoreCalls ==
  ASSUME NEW db, NEW jb, NEW act, NEW calls, NEW more,
         WorldOK(db, jb, act, calls), calls \subseteq more
  PROVE  WorldOK(db, jb, act, more)
<1>1. RunsAsked(db, more)
  BY DEF WorldOK, EffectsOK, RunsAsked
<1>2. JobsAsked(jb, more)
  BY DEF WorldOK, EffectsOK, JobsAsked
<1>3. PrintsDelivered(db, more)
  BY DEF WorldOK, EffectsOK, PrintsDelivered
<1>4. StagesAnnounced(db, more)
  BY DEF WorldOK, EffectsOK, StagesAnnounced
<1> QED
  BY <1>1, <1>2, <1>3, <1>4 DEF WorldOK, EffectsOK

(* Methods that insert nothing. *)
LEMMA SettlesKeeps ==
  ASSUME NEW db, NEW jb, QueueOK(db), NEW new, Settles(db, new)
  PROVE  Keeps(db, jb, new, jb) /\ SameIdentity(db, new)
<1>1. /\ SameIdentity(db, new)
      /\ \A r \in Run \ Running(db) : new[r] = db[r]
  BY DEF Settles, SettlesRunning
<1>2. \A r \in Run : db[r].status \in Terminal => new[r] = db[r]
  BY <1>1 DEF Running, Terminal
<1> QED
  BY <1>1, <1>2 DEF Keeps, SameIdentity, Present

LEMMA SettledWorld ==
  ASSUME NEW db, NEW jb, NEW act, NEW calls, WorldOK(db, jb, act, calls),
         NEW new, Settles(db, new), AllConsistent(new),
         NEW act2, LeaseOK(new, act2),
         PrintsDelivered(new, calls), StagesAnnounced(new, calls)
  PROVE  WorldOK(new, jb, act2, calls) /\ Keeps(db, jb, new, jb)
<1>1. QueueOK(db) /\ BacklogOK(db) /\ Linked(db, jb) /\ KeysApart(jb)
  BY DEF WorldOK, TablesOK, InLineOK
<1>2. SameIdentity(db, new) /\ Keeps(db, jb, new, jb)
  BY <1>1, SettlesKeeps
<1>3. TablesOK(new, jb)
  BY <1>1, <1>2, StepQueueOK, StepBacklogOK, SameIdentityLinked DEF TablesOK, InLineOK
<1>4. RunsAsked(new, calls)
  BY <1>2 DEF WorldOK, EffectsOK, RunsAsked, SameIdentity, Present
<1>5. HaveRequests(new)
  BY <1>2 DEF WorldOK, HaveRequests, SameIdentity, Present
<1> QED
  BY <1>1, <1>2, <1>3, <1>4, <1>5 DEF WorldOK, EffectsOK

(* Failures and refusals announce nothing. *)
Silences(db, new) ==
  \A r \in Run : /\ new[r].fingerprint \in {db[r].fingerprint, None}
                 /\ new[r].stage \in {db[r].stage, None}

LEMMA SilencedWorld ==
  ASSUME NEW db, NEW jb, NEW act, NEW calls, WorldOK(db, jb, act, calls),
         NEW new, Settles(db, new), AllConsistent(new), Silences(db, new)
  PROVE  WorldOK(new, jb, None, calls) /\ Keeps(db, jb, new, jb)
<1>1. PrintsDelivered(new, calls)
  BY DEF WorldOK, EffectsOK, PrintsDelivered, Silences
<1>2. None \notin Stage
  BY StoreAssumption
<1>3. StagesAnnounced(new, calls)
  BY <1>2 DEF WorldOK, EffectsOK, StagesAnnounced, Silences
<1> QED
  BY <1>1, <1>3, SettledWorld DEF LeaseOK

LEMMA SystemErroredWorld ==
  ASSUME NEW db, NEW jb, NEW act, NEW calls, WorldOK(db, jb, act, calls),
         NEW r \in Run, NEW code \in ErrorCode
  PROVE  LET new == SystemErrored(db, r, code, None)
         IN  WorldOK(new, jb, None, calls) /\ Keeps(db, jb, new, jb)
<1> DEFINE new == SystemErrored(db, r, code, None)
<1>1. db \in [Run -> Row] /\ AllConsistent(db)
  BY DEF WorldOK, TablesOK, InLineOK, QueueOK
<1>2. Settles(db, new) /\ AllConsistent(new)
  BY <1>1, SystemErroredSettles, SystemErroredConsistent DEF Settles
<1>3. Silences(db, new)
  BY <1>1 DEF SystemErrored, Silences
<1> QED
  BY <1>2, <1>3, SilencedWorld

LEMMA RequeuedWorld ==
  ASSUME NEW db, NEW jb, NEW act, NEW calls, WorldOK(db, jb, act, calls),
         NEW r \in Run
  PROVE  LET new == Requeued(db, r)
         IN  WorldOK(new, jb, None, calls) /\ Keeps(db, jb, new, jb)
<1> DEFINE new == Requeued(db, r)
<1>1. db \in [Run -> Row] /\ AllConsistent(db)
  BY DEF WorldOK, TablesOK, InLineOK, QueueOK
<1>2. Settles(db, new) /\ AllConsistent(new)
  BY <1>1, RequeuedSettles, RequeuedConsistent DEF Settles
<1>3. Silences(db, new)
  BY <1>1 DEF Requeued, Silences
<1> QED
  BY <1>2, <1>3, SilencedWorld

LEMMA RecoveredWorld ==
  ASSUME NEW db, NEW jb, NEW act, NEW calls, WorldOK(db, jb, act, calls)
  PROVE  LET new == Recovered(db)
         IN  WorldOK(new, jb, None, calls) /\ Keeps(db, jb, new, jb)
<1> DEFINE new == Recovered(db)
<1>1. db \in [Run -> Row] /\ AllConsistent(db)
  BY DEF WorldOK, TablesOK, InLineOK, QueueOK
<1>2. Settles(db, new) /\ AllConsistent(new)
  BY <1>1, RecoveredSettles, RecoveredConsistent DEF Settles
<1>3. Silences(db, new)
  BY <1>1 DEF Recovered, SystemErrored, Silences
<1> QED
  BY <1>2, <1>3, SilencedWorld

(* claimNext() announces the stage SANDBOX only. *)
LEMMA ClaimedWorld ==
  ASSUME NEW db, NEW jb, NEW calls, WorldOK(db, jb, None, calls),
         NEW r \in Run, Claimable(db, r), NEW new, new = Claimed(db, r)
  PROVE  WorldOK(new, jb, r, calls) /\ Keeps(db, jb, new, jb)
<1>1. /\ QueueOK(db) /\ BacklogOK(db) /\ AllConsistent(db) /\ Linked(db, jb)
      /\ KeysApart(jb) /\ db \in [Run -> Row]
  BY DEF WorldOK, TablesOK, InLineOK, QueueOK
<1>2. Claims(db, new)
  BY DEF Claims
<1>3. SameIdentity(db, new)
  BY <1>1, ClaimedQueueOK
<1>4. TablesOK(new, jb)
  BY <1>1, <1>2, <1>3, StepQueueOK, StepBacklogOK, ClaimedConsistent, SameIdentityLinked
     DEF TablesOK, InLineOK
<1>5. /\ \A s \in Run \ {r} : new[s] = db[s]
      /\ new[r].status = "RUNNING" /\ new[r].stage = "SANDBOX"
      /\ new[r].fingerprint = db[r].fingerprint
      /\ db[r].status = "QUEUED"
  BY <1>1 DEF Claimed, Claimable, FirstInLine, Waiting
<1>6. LeaseOK(new, r)
  BY <1>5 DEF LeaseOK, Running
<1>7. EffectsOK(new, jb, calls)
  <2>1. RunsAsked(new, calls)
    BY <1>3 DEF WorldOK, EffectsOK, RunsAsked, SameIdentity, Present
  <2>2. PrintsDelivered(new, calls)
    BY <1>5 DEF WorldOK, EffectsOK, PrintsDelivered
  <2>3. StagesAnnounced(new, calls)
    BY <1>5 DEF WorldOK, EffectsOK, StagesAnnounced
  <2> QED
    BY <2>1, <2>2, <2>3 DEF WorldOK, EffectsOK
<1>8. Keeps(db, jb, new, jb)
  BY <1>3, <1>5 DEF Keeps, SameIdentity, Present, Terminal
<1>9. HaveRequests(new)
  BY <1>3 DEF WorldOK, HaveRequests, SameIdentity, Present
<1> QED
  BY <1>1, <1>4, <1>6, <1>7, <1>8, <1>9 DEF WorldOK

(* dispatchNext() ends a turn: it claims the first run or changes nothing. *)
LEMMA DispatchedWorld ==
  ASSUME NEW db, NEW act, WorldOK(db, jobs', act, heard'), DispatchNext(db, act)
  PROVE  /\ WorldOK(rows', jobs', active', heard')
         /\ Keeps(db, jobs', rows', jobs')
<1>1. CASE rows' = db /\ active' = act
  BY <1>1, KeepsRefl
<1>2. CASE act = None /\ \E r \in Run : /\ Claimable(db, r)
                                        /\ rows' = Claimed(db, r)
                                        /\ active' = r
  BY <1>2, ClaimedWorld
<1> QED
  BY <1>1, <1>2 DEF DispatchNext

(* A new run has the key and the request of its caller, and nothing else.  *)
LEMMA InsertedWorld ==
  ASSUME NEW db, NEW jb, NEW act, NEW calls, WorldOK(db, jb, act, calls),
         NEW c \in calls, c.route \in {"verify", "a2mcp"},
         c.key \in Key, c.request \in Request, ~KeyTaken(db, c.key),
         WaitingCount(db) < WaitingLimit, NEW r \in Run \ Present(db),
         NEW new, new = Inserted(db, r, <<Public, c.key>>, c.request, NextSequence(db))
  PROVE  /\ WorldOK(new, jb, act, calls) /\ Keeps(db, jb, new, jb)
         /\ r \in Present(new) /\ new[r].owner = <<Public, c.key>>
         /\ new[r].request = c.request
<1>1. /\ QueueOK(db) /\ BacklogOK(db) /\ AllConsistent(db) /\ Linked(db, jb)
      /\ KeysApart(jb) /\ db \in [Run -> Row]
  BY DEF WorldOK, TablesOK, InLineOK, QueueOK
<1>2. <<Public, c.key>> \in Owner
  BY DEF Owner
<1>3. Appends(db, new)
  BY <1>2 DEF Appends
<1>4. TablesOK(new, jb)
  <2>1. Linked(new, jb)
    BY <1>1, CreateLinked
  <2>2. AllConsistent(new)
    BY <1>1, InsertedConsistent
  <2> QED
    BY <1>1, <1>3, <2>1, <2>2, StepQueueOK, StepBacklogOK DEF TablesOK, InLineOK
<1>5. /\ \A s \in Run \ {r} : new[s] = db[s]
      /\ new[r].status = "QUEUED" /\ new[r].owner = <<Public, c.key>>
      /\ new[r].request = c.request
      /\ new[r].fingerprint = None /\ new[r].stage = None
      /\ db[r].status = "ABSENT" /\ r \in Run
  BY <1>1 DEF Inserted, NoRow, Present
<1>6. LeaseOK(new, act)
  <2>1. Running(db) \subseteq Running(new)
    BY <1>5 DEF Running
  <2> QED
    BY <2>1 DEF WorldOK, LeaseOK
<1>7. EffectsOK(new, jb, calls)
  <2>1. RunsAsked(new, calls)
    <3> SUFFICES ASSUME NEW s \in Present(new), new[s].owner[1] = Public
                 PROVE  \E d \in calls : /\ d.route \in {"verify", "a2mcp"}
                                         /\ new[s].owner[2] = d.key
                                         /\ new[s].request = d.request
      BY DEF RunsAsked
    <3>1. CASE s = r
      BY <1>5, <3>1
    <3>2. CASE s # r
      <4>1. s \in Present(db) /\ new[s] = db[s]
        BY <1>5, <3>2 DEF Present
      <4> QED
        BY <4>1 DEF WorldOK, EffectsOK, RunsAsked
    <3> QED
      BY <3>1, <3>2
  <2>2. PrintsDelivered(new, calls)
    BY <1>5 DEF WorldOK, EffectsOK, PrintsDelivered
  <2>3. None \notin Stage
    BY StoreAssumption
  <2>4. StagesAnnounced(new, calls)
    BY <1>5, <2>3 DEF WorldOK, EffectsOK, StagesAnnounced
  <2> QED
    BY <2>1, <2>2, <2>4 DEF WorldOK, EffectsOK
<1>8. Keeps(db, jb, new, jb)
  BY <1>5 DEF Keeps, Present, Terminal
<1>9. r \in Present(new) /\ HaveRequests(new)
  BY <1>5 DEF Present, WorldOK, HaveRequests
<1> QED
  BY <1>1, <1>4, <1>5, <1>6, <1>7, <1>8, <1>9 DEF WorldOK

(* A new job has two new runs, which belong to the job, and a new key.     *)
LEMMA InsertedPairWorld ==
  ASSUME NEW db, NEW jb, NEW act, NEW calls, WorldOK(db, jb, act, calls),
         NEW c \in calls, c.route = "reproducibility",
         c.key \in Key, c.request \in Request,
         \A i \in Job : jb[i] # None => jb[i].key # c.key,
         WaitingCount(db) + 2 <= WaitingLimit, NEW j \in Job, jb[j] = None,
         NEW b \in Run \ Present(db), NEW d \in Run \ Present(db), b # d,
         NEW n, n = NextSequence(db),
         NEW new, new = Inserted(Inserted(db, b, <<j, "baseline">>, c.request, n),
                                 d, <<j, "candidate">>, c.request, n + 1),
         NEW jb2, jb2 = [jb EXCEPT ![j] = [key |-> c.key, request |-> c.request,
                                           baseline |-> b, candidate |-> d]]
  PROVE  WorldOK(new, jb2, act, calls) /\ Keeps(db, jb, new, jb2)
<1>1. /\ QueueOK(db) /\ BacklogOK(db) /\ AllConsistent(db) /\ Linked(db, jb)
      /\ KeysApart(jb) /\ db \in [Run -> Row] /\ jb \in [Job -> JobRow \cup {None}]
  BY DEF WorldOK, TablesOK, InLineOK, QueueOK, Linked
<1>2. n \in Nat
  BY <1>1, NextSequenceIsLast DEF QueueOK
<1>3. <<j, "baseline">> \in Owner /\ <<j, "candidate">> \in Owner
  BY DEF Owner
<1>4. AppendsPair(db, new)
  BY <1>3 DEF AppendsPair
<1> DEFINE mid == Inserted(db, b, <<j, "baseline">>, c.request, n)
<1>5. TablesOK(new, jb2)
  <2>1. Linked(new, jb2)
    BY <1>1, <1>2, CreateReproducibilityLinked
  <2>2. QueueOK(new) /\ BacklogOK(new)
    BY <1>1, <1>4, StepQueueOK, StepBacklogOK
  <2>3. AllConsistent(new)
    <3>1. mid \in [Run -> Row]
      <4>1. n > 0 /\ \A s \in Run : db[s].sequence < n
        BY <1>1, NextSequenceIsLast DEF QueueOK
      <4>2. QueueOK(mid)
        BY <1>1, <1>2, <1>3, <4>1, InsertedQueueOK
      <4> QED
        BY <4>2 DEF QueueOK
    <3>2. AllConsistent(mid)
      BY <1>1, InsertedConsistent
    <3> QED
      BY <3>1, <3>2, InsertedConsistent
  <2> QED
    BY <2>1, <2>2, <2>3 DEF TablesOK, InLineOK
<1>6. /\ \A s \in Run \ {b, d} : new[s] = db[s]
      /\ \A s \in {b, d} :
           /\ s \in Run /\ db[s].status = "ABSENT"
           /\ new[s].status = "QUEUED" /\ new[s].owner[1] = j
           /\ new[s].request = c.request
           /\ new[s].fingerprint = None /\ new[s].stage = None
  BY <1>1, <1>2 DEF Inserted, NoRow, Present
<1>7. /\ \A i \in Job \ {j} : jb2[i] = jb[i]
      /\ jb2[j].key = c.key /\ jb2[j].request = c.request
  BY <1>1
<1>8. LeaseOK(new, act)
  <2>1. Running(db) \subseteq Running(new)
    BY <1>6 DEF Running
  <2> QED
    BY <2>1 DEF WorldOK, LeaseOK
<1>9. EffectsOK(new, jb2, calls)
  <2>1. RunsAsked(new, calls)
    <3> SUFFICES ASSUME NEW s \in Present(new), new[s].owner[1] = Public
                 PROVE  \E e \in calls : /\ e.route \in {"verify", "a2mcp"}
                                         /\ new[s].owner[2] = e.key
                                         /\ new[s].request = e.request
      BY DEF RunsAsked
    <3>1. s \notin {b, d}
      BY <1>6, StoreAssumption
    <3>2. s \in Present(db) /\ new[s] = db[s]
      BY <1>6, <3>1 DEF Present
    <3> QED
      BY <3>2 DEF WorldOK, EffectsOK, RunsAsked
  <2>2. JobsAsked(jb2, calls)
    BY <1>7 DEF WorldOK, EffectsOK, JobsAsked
  <2>3. PrintsDelivered(new, calls)
    BY <1>6 DEF WorldOK, EffectsOK, PrintsDelivered
  <2>4. None \notin Stage
    BY StoreAssumption
  <2>5. StagesAnnounced(new, calls)
    BY <1>6, <2>4 DEF WorldOK, EffectsOK, StagesAnnounced
  <2> QED
    BY <2>1, <2>2, <2>3, <2>5 DEF EffectsOK
<1>10. Keeps(db, jb, new, jb2)
  BY <1>6, <1>7 DEF Keeps, Present, Terminal
<1>11. KeysApart(jb2)
  BY <1>1, <1>7 DEF KeysApart
<1>12. HaveRequests(new)
  BY <1>6 DEF Present, WorldOK, HaveRequests
<1> QED
  BY <1>5, <1>8, <1>9, <1>10, <1>11, <1>12 DEF WorldOK

(* A heartbeat writes the stage of a run its caller has named. *)
LEMMA HeartbeatenWorld ==
  ASSUME NEW db, NEW jb, NEW r, NEW calls, WorldOK(db, jb, r, calls), r # None,
         NEW c \in calls, c.route = "heartbeat", c.authentic, c.id = r,
         NEW stage \in Stage, NEW new, new = Heartbeaten(db, r, stage)
  PROVE  WorldOK(new, jb, r, calls) /\ Keeps(db, jb, new, jb)
<1>1. db \in [Run -> Row] /\ AllConsistent(db) /\ r \in Run /\ r \in Running(db)
  BY DEF WorldOK, TablesOK, InLineOK, QueueOK, LeaseOK
<1>2. Settles(db, new) /\ AllConsistent(new)
  BY <1>1, HeartbeatenSettles, HeartbeatenConsistent DEF Settles
<1>3. \A s \in Run : /\ new[s].fingerprint = db[s].fingerprint
                     /\ new[s].status = db[s].status
                     /\ s # r => new[s] = db[s]
  BY <1>1 DEF Heartbeaten
<1>4. LeaseOK(new, r)
  BY <1>1, <1>3 DEF LeaseOK, Running
<1>5. PrintsDelivered(new, calls)
  BY <1>3 DEF WorldOK, EffectsOK, PrintsDelivered
<1>6. StagesAnnounced(new, calls)
  BY <1>3 DEF WorldOK, EffectsOK, StagesAnnounced
<1> QED
  BY <1>2, <1>4, <1>5, <1>6, SettledWorld

(* A result writes its own fingerprint into the run its caller has named.  *)
LEMMA CompletedWorld ==
  ASSUME NEW db, NEW jb, NEW r, NEW calls, WorldOK(db, jb, r, calls), r # None,
         NEW c \in calls, c.route = "result", c.authentic, c.id = r,
         c.print \in Fingerprint, c.verdict \in Verdict,
         NEW report, report = [run |-> r, request |-> db[r].request,
                               verdict |-> c.verdict],
         NEW new, new = Completed(db, r, "COMPLETED", report, report, c.print)
  PROVE  /\ WorldOK(new, jb, None, calls) /\ Keeps(db, jb, new, jb)
         /\ new[r].fingerprint = c.print
<1>1. /\ db \in [Run -> Row] /\ AllConsistent(db) /\ r \in Run /\ r \in Running(db)
      /\ Linked(db, jb)
  BY DEF WorldOK, TablesOK, InLineOK, QueueOK, LeaseOK
<1>2. db[r].request \in Request
  BY <1>1 DEF Running, Present, WorldOK, HaveRequests
<1>3. report \in Report
  BY <1>1, <1>2 DEF Report
<1>4. Completable(db, r, "COMPLETED", report, report)
  BY <1>1 DEF Completable
<1>5. Settles(db, new) /\ AllConsistent(new)
  BY <1>1, <1>3, <1>4, CompletedSettles, CompletedConsistent DEF Settles
<1>6. /\ \A s \in Run \ {r} : new[s] = db[s]
      /\ new[r].fingerprint = c.print /\ new[r].stage = None
  BY <1>1 DEF Completed
<1>7. PrintsDelivered(new, calls)
  BY <1>6 DEF WorldOK, EffectsOK, PrintsDelivered
<1>8. None \notin Stage
  BY StoreAssumption
<1>9. StagesAnnounced(new, calls)
  BY <1>6, <1>8 DEF WorldOK, EffectsOK, StagesAnnounced
<1> QED
  BY <1>5, <1>6, <1>7, <1>9, SettledWorld DEF LeaseOK

-----------------------------------------------------------------------------
(* The answers. *)
LEMMA RefusalHolds ==
  ASSUME NEW c, NEW db, NEW jb, NEW status, status \notin {200, 202},
         NEW code, code \notin {"IDEMPOTENCY_KEY_CONFLICT", "RESULT_CONFLICT"}
  PROVE  /\ HoldsTrue(c, Refusal(status, code), db, jb)
         /\ Refusal(status, code).subject = None
         /\ Refusal(status, code).status = status
<1>1. None \notin Terminal \cup {"INCONCLUSIVE"}
  BY ApiAssumption DEF Status
<1>2. /\ Refusal(status, code).seen = None /\ Refusal(status, code).subject = None
      /\ Refusal(status, code).status = status /\ Refusal(status, code).code = code
  BY DEF Refusal, Answer
<1> HIDE DEF Refusal
<1> QED
  BY <1>1, <1>2 DEF HoldsTrue, Terminal

LEMMA AcceptedHolds ==
  ASSUME NEW c, c.route \notin Starting, NEW db, NEW jb,
         c.route = "result" => /\ c.id \in Run /\ c.print # None
                               /\ db[c.id].fingerprint = c.print
  PROVE  HoldsTrue(c, Accepted, db, jb) /\ Accepted.subject = None
<1>1. /\ None \notin Terminal \cup {"INCONCLUSIVE"}
      /\ None # "IDEMPOTENCY_KEY_CONFLICT" /\ None # "RESULT_CONFLICT"
  BY ApiAssumption DEF Status
<1>2. /\ Accepted.seen = None /\ Accepted.subject = None
      /\ Accepted.status = 200 /\ Accepted.code = None
  BY DEF Accepted, Answer
<1> QED
  BY <1>1, <1>2 DEF HoldsTrue, Terminal, Starting

(* A final row is readable, and what is read has its status. *)
LEMMA TerminalIsRead ==
  ASSUME NEW db, NEW jb, TablesOK(db, jb), NEW r \in Present(db),
         Inflated(db, r) # Unreadable \/ db[r].status \in Terminal
  PROVE  Inflated(db, r) # Unreadable /\ Inflated(db, r).status = db[r].status
<1>1. db[r].status \in Terminal => r \notin Waiting(db)
  BY DEF Terminal, Waiting
<1>2. Inflated(db, r) # Unreadable /\ Inflated(db, r) = Shown(db, r)
  BY <1>1, RunIsReadable DEF TablesOK
<1>3. Shown(db, r).status = db[r].status
  BY ShownFits DEF TablesOK
<1> QED
  BY <1>2, <1>3

LEMMA InternalErrorHolds ==
  ASSUME NEW c, NEW db, NEW jb
  PROVE  /\ HoldsTrue(c, InternalError, db, jb)
         /\ InternalError.subject = None /\ InternalError.status = 500
<1>1. 500 \notin {200, 202}
  OBVIOUS
<1> QED
  BY <1>1, RefusalHolds DEF InternalError

(* What a new answer says of its subject is what the tables hold. *)
TellsNow(c, a, db, jb) ==
  a.subject # None =>
    a.seen = IF c.route \in OfJobs THEN Reproduced(db, jb[a.subject]).status
                                   ELSE Inflated(db, a.subject).status

(* The two shapes of the answer to a start. *)
OfRun(a, db, r, status) ==
  \/ a = InternalError
  \/ /\ Inflated(db, r) # Unreadable
     /\ a = Answer(status, None, r, Inflated(db, r).status)

OfJob(a, db, jb, j, status) ==
  \/ a = InternalError
  \/ /\ Reproduced(db, jb[j]) # Unreadable
     /\ a = Answer(status, None, j, Reproduced(db, jb[j]).status)

LEMMA RunAnswerHolds ==
  ASSUME NEW c, c.route \in {"verify", "a2mcp"}, NEW db, NEW jb, TablesOK(db, jb),
         NEW r \in Present(db), db[r].owner = <<Public, c.key>>,
         db[r].request = c.request,
         NEW status \in {200, 202}, NEW a, OfRun(a, db, r, status)
  PROVE  /\ HoldsTrue(c, a, db, jb) /\ TellsNow(c, a, db, jb)
         /\ a.status \in {status, 500}
<1>1. CASE a = InternalError
  BY <1>1, InternalErrorHolds DEF TellsNow
<1>2. CASE a # InternalError
  <2>1. /\ a.status = status /\ a.code = None /\ a.subject = r
        /\ a.seen = Inflated(db, r).status /\ Inflated(db, r) # Unreadable
    BY <1>2 DEF OfRun, Answer
  <2>2. a.seen = db[r].status /\ r \in Run
    BY <2>1, TerminalIsRead DEF Present
  <2>3. None # "IDEMPOTENCY_KEY_CONFLICT" /\ None # "RESULT_CONFLICT"
    BY ApiAssumption
  <2>4. c.route \notin OfJobs /\ c.route \in Starting
    BY DEF OfJobs, Starting
  <2>5. HoldsTrue(c, a, db, jb)
    BY <2>1, <2>2, <2>3, <2>4 DEF HoldsTrue
  <2> QED
    BY <2>1, <2>4, <2>5 DEF TellsNow
<1> QED
  BY <1>1, <1>2

LEMMA JobAnswerHolds ==
  ASSUME NEW c, c.route = "reproducibility", NEW db, NEW jb,
         NEW j \in Job, jb[j] # None, jb[j].key = c.key, jb[j].request = c.request,
         NEW status \in {200, 202}, NEW a, OfJob(a, db, jb, j, status)
  PROVE  /\ HoldsTrue(c, a, db, jb) /\ TellsNow(c, a, db, jb)
         /\ a.status \in {status, 500}
<1>1. CASE a = InternalError
  BY <1>1, InternalErrorHolds DEF TellsNow
<1>2. CASE a # InternalError
  <2>1. /\ a.status = status /\ a.code = None /\ a.subject = j
        /\ a.seen = Reproduced(db, jb[j]).status /\ Reproduced(db, jb[j]) # Unreadable
    BY <1>2 DEF OfJob, Answer
  <2>2. None # "IDEMPOTENCY_KEY_CONFLICT" /\ None # "RESULT_CONFLICT"
    BY ApiAssumption
  <2>3. c.route \in OfJobs /\ c.route \in Starting
    BY DEF OfJobs, Starting
  <2>4. a.seen \in {"COMPLETED", "INCONCLUSIVE"} => Settled(Reproduced(db, jb[j]))
    BY <2>1 DEF Settled
  <2>5. HoldsTrue(c, a, db, jb)
    BY <2>1, <2>2, <2>3, <2>4 DEF HoldsTrue
  <2> QED
    BY <2>1, <2>3, <2>5 DEF TellsNow
<1> QED
  BY <1>1, <1>2

LEMMA ShownHolds ==
  ASSUME NEW c \in Call, c.route \in Reading, c.id # None, TablesOK(rows, jobs)
  PROVE  HoldsTrue(c, Shows(c), rows, jobs) /\ TellsNow(c, Shows(c), rows, jobs)
<1> DEFINE a == Shows(c)
<1>1. /\ None # "IDEMPOTENCY_KEY_CONFLICT" /\ None # "RESULT_CONFLICT"
      /\ "run" \notin OfJobs /\ "job" \in OfJobs /\ "job" \notin Starting
      /\ "run" \notin Starting
  BY ApiAssumption DEF OfJobs, Starting
<1>2. Refusal(404, "RUN_NOT_FOUND").subject = None
      /\ HoldsTrue(c, Refusal(404, "RUN_NOT_FOUND"), rows, jobs)
  <2>1. 404 \notin {200, 202}
    OBVIOUS
  <2> QED
    BY <2>1, RefusalHolds
<1>3. CASE a \in {Refusal(404, "RUN_NOT_FOUND"), InternalError}
  BY <1>2, <1>3, InternalErrorHolds DEF TellsNow
<1>4. CASE c.route = "run" /\ a \notin {Refusal(404, "RUN_NOT_FOUND"), InternalError}
  <2>1. /\ c.id \in Present(rows) /\ Inflated(rows, c.id) # Unreadable
        /\ a = Answer(200, None, c.id, Inflated(rows, c.id).status)
    BY <1>4 DEF Shows
  <2>2. /\ a.code = None /\ a.subject = c.id /\ c.id \in Run
        /\ a.seen = Inflated(rows, c.id).status /\ a.seen = rows[c.id].status
    BY <2>1, TerminalIsRead DEF Answer, Present
  <2> HIDE DEF a
  <2>3. HoldsTrue(c, a, rows, jobs)
    BY <1>1, <1>4, <2>2 DEF HoldsTrue
  <2> QED
    BY <1>1, <1>4, <2>2, <2>3 DEF TellsNow, a
<1>5. CASE c.route = "job" /\ a \notin {Refusal(404, "RUN_NOT_FOUND"), InternalError}
  <2>1. /\ jobs[c.id] # None /\ Reproduced(rows, jobs[c.id]) # Unreadable
        /\ a = Answer(200, None, c.id, Reproduced(rows, jobs[c.id]).status)
    BY <1>5 DEF Shows
  <2>2. /\ a.code = None /\ a.subject = c.id
        /\ a.seen = Reproduced(rows, jobs[c.id]).status
        /\ a.seen \in {"COMPLETED", "INCONCLUSIVE"} => Settled(Reproduced(rows, jobs[c.id]))
    BY <2>1 DEF Answer, Settled
  <2>3. c.id \in Job
    BY <1>5, ApiAssumption
  <2> HIDE DEF a
  <2>4. HoldsTrue(c, a, rows, jobs)
    BY <1>1, <1>5, <2>1, <2>2, <2>3 DEF HoldsTrue
  <2> QED
    BY <1>1, <1>5, <2>2, <2>4 DEF TellsNow, a
<1> QED
  BY <1>3, <1>4, <1>5 DEF Reading

-----------------------------------------------------------------------------
(* The steps. *)
AllTellNow ==
  \A g \in given' \ given : TellsNow(g.call, g.answer, rows', jobs')

WorldStep ==
  /\ WorldOK(rows', jobs', active', heard')
  /\ Keeps(rows, jobs, rows', jobs')

StepOK == WorldStep /\ CallsOK' /\ AnswersOK' /\ AllTellNow

LEMMA StillWorld ==
  ASSUME ApiIInv, rows' = rows, jobs' = jobs, active' = active, heard \subseteq heard'
  PROVE  WorldStep
<1>1. WorldOK(rows, jobs, active, heard')
  BY MoreCalls DEF ApiIInv
<1> QED
  BY <1>1, KeepsRefl DEF WorldStep

LEMMA TurnTruth ==
  ASSUME ApiIInv, WorldStep, NEW c, NEW a, HoldsTrue(c, a, rows, jobs)
  PROVE  HoldsTrue(c, a, rows', jobs')
BY TruthIsKept DEF ApiIInv, WorldStep, WorldOK

LEMMA AnswersKept ==
  ASSUME ApiIInv, WorldStep, given' = given
  PROVE  AnswersOK' /\ AllTellNow
<1>1. \A g \in given : HoldsTrue(g.call, g.answer, rows', jobs')
  BY TurnTruth DEF ApiIInv, AnswersOK
<1>2. \A g, h \in given' : SaysNew(g) /\ SaysNew(h) /\ SameKey(g, h) => g = h
  BY DEF ApiIInv, AnswersOK
<1> QED
  BY <1>1, <1>2 DEF AnswersOK, AllTellNow

(* A call the step leaves alone, or ends. *)
LEMMA CallKept ==
  ASSUME ApiIInv, WorldStep, NEW d \in Call,
         \/ phase'[d] = "idle"
         \/ phase'[d] = phase[d] /\ plan'[d] = plan[d]
  PROVE  CallOK(d)'
<1>1. CASE phase'[d] = "idle"
  BY <1>1 DEF CallOK
<1>2. CASE phase'[d] = phase[d] /\ plan'[d] = plan[d]
  <2>1. CallOK(d)
    BY DEF ApiIInv, CallsOK
  <2>2. phase[d] = "awaiting" => HoldsTrue(d, plan[d], rows', jobs')
    BY <2>1, TurnTruth DEF CallOK
  <2> QED
    BY <1>2, <2>1, <2>2 DEF CallOK
<1> QED
  BY <1>1, <1>2

(* Only the orchestrator moves. *)
LEMMA QuietStep ==
  ASSUME ApiIInv, WorldStep, UNCHANGED <<phase, plan, given>>
  PROVE  StepOK
<1>1. \A d \in Call : CallOK(d)'
  BY CallKept
<1>2. CallsOK'
  BY <1>1 DEF ApiIInv, CallsOK
<1> QED
  BY <1>2, AnswersKept DEF StepOK

(* The caller of a new subject was not known before. *)
NewSubject(c) ==
  IF c.route = "reproducibility"
  THEN \A j \in Job : jobs[j] # None => jobs[j].key # c.key
  ELSE ~KeyTaken(rows, c.key)

LEMMA RespondStep ==
  ASSUME ApiIInv, WorldStep, NEW c \in Call, NEW n, NEW a, Respond(c, n, a),
         HoldsTrue(c, a, rows', jobs'), TellsNow(c, a, rows', jobs'),
         c.route \in Starting /\ a.status = 202 => NewSubject(c)
  PROVE  StepOK
<1> DEFINE new == [call |-> c, number |-> n, answer |-> a]
<1>1. /\ phase' = [phase EXCEPT ![c] = "idle"]
      /\ plan' = [plan EXCEPT ![c] = None]
      /\ given' = given \cup {new}
  BY DEF Respond
<1>2. CallsOK'
  <2>1. /\ phase \in [Call -> {"idle", "reading", "awaiting"}]
        /\ plan = [d \in Call |-> plan[d]]
    BY DEF ApiIInv, CallsOK
  <2>2. \A d \in Call : IF d = c THEN phase'[d] = "idle"
                        ELSE phase'[d] = phase[d] /\ plan'[d] = plan[d]
    BY <1>1, <2>1
  <2>3. \A d \in Call : CallOK(d)'
    BY <2>2, CallKept
  <2>4. /\ phase' \in [Call -> {"idle", "reading", "awaiting"}]
        /\ plan' = [d \in Call |-> plan'[d]]
    BY <1>1, <2>1
  <2> QED
    BY <2>3, <2>4 DEF CallsOK
<1>3. ASSUME NEW g \in given, SaysNew(g), SaysNew(new), SameKey(g, new)
      PROVE  FALSE
  <2>1. HoldsTrue(g.call, g.answer, rows, jobs) /\ NewSubject(c)
    BY <1>3 DEF ApiIInv, AnswersOK, SaysNew, Started
  <2>2. g.call.route \in Starting /\ g.answer.status \in {200, 202} /\ g.call.key = c.key
    BY <1>3 DEF SaysNew, Started, SameKey
  <2>3. CASE c.route = "reproducibility"
    <3>1. g.call.route = "reproducibility"
      BY <1>3, <2>3 DEF SameKey
    <3> QED
      BY <2>1, <2>2, <2>3, <3>1 DEF HoldsTrue, NewSubject
  <2>4. CASE c.route # "reproducibility"
    <3>1. g.call.route \in Starting \ OfJobs
      BY <1>3, <2>2, <2>4 DEF SameKey, Starting, OfJobs
    <3>2. KeyTaken(rows, c.key)
      BY <2>1, <2>2, <3>1 DEF HoldsTrue, KeyTaken
    <3> QED
      BY <2>1, <2>4, <3>2 DEF NewSubject
  <2> QED
    BY <2>3, <2>4
<1>4. AnswersOK'
  <2>1. \A g \in given' : HoldsTrue(g.call, g.answer, rows', jobs')
    BY <1>1, TurnTruth DEF ApiIInv, AnswersOK
  <2>2. ASSUME NEW g \in given', NEW h \in given',
               SaysNew(g), SaysNew(h), SameKey(g, h)
        PROVE  g = h
    <3>1. SameKey(h, g)
      BY <2>2 DEF SameKey
    <3>2. CASE g \in given /\ h \in given
      BY <2>2, <3>2 DEF ApiIInv, AnswersOK
    <3>3. CASE g \in given /\ h = new
      BY <1>3, <2>2, <3>3
    <3>4. CASE g = new /\ h \in given
      BY <1>3, <2>2, <3>1, <3>4
    <3> QED
      BY <1>1, <3>2, <3>3, <3>4
  <2> QED
    BY <2>1, <2>2 DEF AnswersOK
<1>5. AllTellNow
  BY <1>1 DEF AllTellNow
<1> QED
  BY <1>2, <1>4, <1>5 DEF StepOK

(* A refusal, of whatever the step did. *)
LEMMA RefuseStep ==
  ASSUME ApiIInv, WorldStep, NEW c \in Call, NEW n,
         NEW status \in Nat, status \notin {200, 202},
         NEW code, code \notin {"IDEMPOTENCY_KEY_CONFLICT", "RESULT_CONFLICT"},
         Respond(c, n, Refusal(status, code))
  PROVE  StepOK
<1>1. /\ HoldsTrue(c, Refusal(status, code), rows', jobs')
      /\ Refusal(status, code).subject = None
      /\ Refusal(status, code).status # 202
  BY RefusalHolds
<1>2. TellsNow(c, Refusal(status, code), rows', jobs')
  BY <1>1 DEF TellsNow
<1> QED
  BY <1>1, <1>2, RespondStep

(* What was checked before a valid body was read. *)
LEMMA HeardCall ==
  ASSUME ApiIInv, NEW c \in Call, phase[c] = "reading", c.body = "valid"
  PROVE  /\ c.route \in Starting => c.key \in Key /\ c.request \in Request
         /\ c.route \in Callback => c.authentic /\ c.id \in Run
<1>1. Early(c) = None
  BY DEF ApiIInv, CallsOK, CallOK
<1>2. /\ ~KeyMissing(c)
      /\ c.route \in Callback => c.authentic /\ c.id # None
  BY <1>1, RefusalAssumption DEF Early
<1>3. c.route \in Starting => c.key \in Key
  BY <1>2, ApiAssumption DEF Starting, KeyMissing
<1>4. c.route \in Callback => c.id \in Run
  BY <1>2, ApiAssumption DEF Callback
<1>5. c.route \in Starting => c.request \in Request
  BY ApiAssumption
<1> QED
  BY <1>2, <1>3, <1>4, <1>5

LEMMA ReceiveStep == ASSUME ApiIInv, NEW c \in Call, Receive(c) PROVE StepOK
<1>1. WorldStep
  BY StillWorld DEF Receive, storeVars
<1>2. CASE Early(c) # None
  <2>1. Respond(c, sent', Early(c))
    BY <1>2 DEF Receive
  <2>2. Early(c) \in {NoKey, NotAllowed, Invalid, TooLong}
    BY <1>2 DEF Early
  <2>3. \E status \in {400, 401, 413},
           code \in {"IDEMPOTENCY_KEY_REQUIRED", "UNAUTHORIZED", "INVALID_REQUEST",
                     "REQUEST_BODY_TOO_LARGE"} :
          Early(c) = Refusal(status, code)
    BY <2>2 DEF NoKey, NotAllowed, Invalid, TooLong
  <2> QED
    BY <1>1, <2>1, <2>3, RefuseStep
<1>3. CASE Early(c) = None /\ c.route \in Reading
  <2>1. Respond(c, sent', Shows(c)) /\ rows' = rows /\ jobs' = jobs
    BY <1>3 DEF Receive, storeVars
  <2>2. c.id # None
    BY <1>3, RefusalAssumption DEF Early
  <2>3. HoldsTrue(c, Shows(c), rows', jobs') /\ TellsNow(c, Shows(c), rows', jobs')
    BY <1>3, <2>1, <2>2, ShownHolds DEF ApiIInv, WorldOK
  <2>4. c.route \notin Starting
    BY <1>3 DEF Reading, Starting
  <2> QED
    BY <1>1, <2>1, <2>3, <2>4, RespondStep
<1>4. CASE Early(c) = None /\ c.route \notin Reading
  <2>1. phase' = [phase EXCEPT ![c] = "reading"] /\ UNCHANGED <<plan, given>>
    BY <1>4 DEF Receive
  <2>2. /\ phase \in [Call -> {"idle", "reading", "awaiting"}]
        /\ plan = [d \in Call |-> plan[d]]
    BY DEF ApiIInv, CallsOK
  <2>3. ASSUME NEW d \in Call PROVE CallOK(d)'
    <3>1. CASE d = c
      BY <1>4, <2>1, <2>2, <3>1 DEF CallOK
    <3>2. CASE d # c
      <4>1. phase'[d] = phase[d] /\ plan'[d] = plan[d]
        BY <2>1, <2>2, <3>2
      <4> QED
        BY <1>1, <4>1, CallKept
    <3> QED
      BY <3>1, <3>2
  <2>4. CallsOK'
    BY <2>1, <2>2, <2>3 DEF CallsOK
  <2> QED
    BY <1>1, <2>1, <2>4, AnswersKept DEF StepOK
<1> QED
  BY <1>2, <1>3, <1>4

LEMMA BreakStep == ASSUME ApiIInv, NEW c \in Call, Break(c) PROVE StepOK
<1>1. WorldStep
  BY StillWorld DEF Break, storeVars
<1>2. /\ phase' = [phase EXCEPT ![c] = "idle"] /\ UNCHANGED <<plan, given>>
      /\ phase \in [Call -> {"idle", "reading", "awaiting"}]
      /\ plan = [d \in Call |-> plan[d]]
  BY DEF Break, ApiIInv, CallsOK
<1>3. \A d \in Call : phase'[d] = "idle" \/ (phase'[d] = phase[d] /\ plan'[d] = plan[d])
  BY <1>2
<1>4. \A d \in Call : CallOK(d)'
  BY <1>1, <1>3, CallKept
<1>5. CallsOK'
  BY <1>2, <1>4 DEF CallsOK
<1> QED
  BY <1>1, <1>2, <1>5, AnswersKept DEF StepOK

LEMMA RefuseBodyStep == ASSUME ApiIInv, NEW c \in Call, RefuseBody(c) PROVE StepOK
<1>1. WorldStep
  BY StillWorld DEF RefuseBody, storeVars
<1>2. \E status \in {400, 413}, code \in {"INVALID_REQUEST", "REQUEST_BODY_TOO_LARGE"} :
        BodyRefusal(c) = Refusal(status, code)
  <2>1. BodyRefusal(c) \in {Invalid, TooLong}
    BY DEF RefuseBody, BodyRefusal
  <2> QED
    BY <2>1 DEF Invalid, TooLong
<1>3. Respond(c, sent, BodyRefusal(c))
  BY DEF RefuseBody
<1> QED
  BY <1>1, <1>2, <1>3, RefuseStep

(* A handler that has heard a valid body: the call may be the reason of    *)
(* what follows.                                                           *)
LEMMA HeardWorld ==
  ASSUME ApiIInv, NEW c \in Call, NEW routes, Hears(c, routes)
  PROVE  /\ WorldOK(rows, jobs, active, heard') /\ c \in heard'
         /\ c.route \in routes
         /\ c.route \in Starting => c.key \in Key /\ c.request \in Request
         /\ c.route \in Callback => c.authentic /\ c.id \in Run
<1>1. /\ heard' = heard \cup {c} /\ c.route \in routes
      /\ phase[c] = "reading" /\ c.body = "valid"
  BY DEF Hears
<1>2. WorldOK(rows, jobs, active, heard')
  BY <1>1, MoreCalls DEF ApiIInv
<1> QED
  BY <1>1, <1>2, HeardCall

LEMMA VerifyStep == ASSUME ApiIInv, NEW c \in Call, Verify(c) PROVE StepOK
<1>1. /\ WorldOK(rows, jobs, active, heard') /\ c \in heard'
      /\ c.route \in {"verify", "a2mcp"} /\ c.key \in Key /\ c.request \in Request
  <2>1. Hears(c, {"verify", "a2mcp"})
    BY DEF Verify
  <2> QED
    BY <2>1, HeardWorld DEF Starting
<1>2. jobs' = jobs /\ heard \subseteq heard'
  BY DEF Verify, Hears
<1>3. ASSUME NEW r \in Present(rows), rows[r].owner = <<Public, c.key>>,
             rows[r].request = c.request, DispatchNext(rows, active),
             Respond(c, sent, RunAnswer(c, r, rows', FALSE))
      PROVE  StepOK
  <2>1. WorldStep
    BY <1>1, <1>2, <1>3, DispatchedWorld DEF WorldStep
  <2>2. /\ r \in Present(rows') /\ rows'[r].owner = <<Public, c.key>>
        /\ rows'[r].request = c.request
    BY <1>3, <2>1 DEF WorldStep, Keeps
  <2>3. PICK a : Respond(c, sent, a) /\ OfRun(a, rows', r, 200)
    BY <1>3 DEF RunAnswer, OfRun
  <2>4. /\ HoldsTrue(c, a, rows', jobs') /\ TellsNow(c, a, rows', jobs')
        /\ a.status # 202
    BY <1>1, <2>1, <2>2, <2>3, RunAnswerHolds DEF WorldStep, WorldOK
  <2> QED
    BY <2>1, <2>3, <2>4, RespondStep
<1>4. ASSUME KeyTaken(rows, c.key), ~Replayed(rows, c.key, c.request),
             Respond(c, sent, Refusal(409, "IDEMPOTENCY_KEY_CONFLICT")),
             UNCHANGED <<rows, active>>
      PROVE  StepOK
  <2>1. WorldStep
    BY <1>2, <1>4, StillWorld
  <2> DEFINE a == Refusal(409, "IDEMPOTENCY_KEY_CONFLICT")
  <2>2. /\ a.status = 409 /\ a.code = "IDEMPOTENCY_KEY_CONFLICT"
        /\ a.subject = None /\ a.seen = None
    BY DEF Refusal, Answer
  <2> HIDE DEF a
  <2>3. /\ None \notin Terminal \cup {"INCONCLUSIVE"}
        /\ c.route \notin OfJobs /\ c.route \notin {"reproducibility", "result"}
    BY <1>1, ApiAssumption DEF Status, OfJobs
  <2>4. HoldsTrue(c, a, rows', jobs') /\ TellsNow(c, a, rows', jobs')
    BY <1>4, <2>2, <2>3 DEF HoldsTrue, TellsNow
  <2> QED
    BY <1>4, <2>1, <2>2, <2>4, RespondStep DEF a
<1>5. ASSUME Respond(c, sent, Refusal(429, "RUN_QUEUE_FULL")), UNCHANGED <<rows, active>>
      PROVE  StepOK
  <2>1. WorldStep
    BY <1>2, <1>5, StillWorld
  <2> QED
    BY <1>5, <2>1, RefuseStep
<1>6. ASSUME ~KeyTaken(rows, c.key), WaitingCount(rows) < WaitingLimit,
             NEW r \in Run \ Present(rows),
             DispatchNext(Inserted(rows, r, <<Public, c.key>>, c.request,
                                   NextSequence(rows)), active),
             Respond(c, sent, RunAnswer(c, r, rows', TRUE))
      PROVE  StepOK
  <2> DEFINE mid == Inserted(rows, r, <<Public, c.key>>, c.request, NextSequence(rows))
  <2>1. /\ WorldOK(mid, jobs, active, heard') /\ Keeps(rows, jobs, mid, jobs)
        /\ r \in Present(mid) /\ mid[r].owner = <<Public, c.key>>
        /\ mid[r].request = c.request
    BY <1>1, <1>6, InsertedWorld
  <2>2. DispatchNext(mid, active)
    BY <1>6
  <2> HIDE DEF mid
  <2>3. /\ WorldOK(rows', jobs', active', heard') /\ Keeps(mid, jobs', rows', jobs')
    BY <1>2, <2>1, <2>2, DispatchedWorld
  <2>4. WorldStep
    BY <1>2, <2>1, <2>3, KeepsTrans DEF WorldStep
  <2>5. /\ r \in Present(rows') /\ rows'[r].owner = <<Public, c.key>>
        /\ rows'[r].request = c.request
    BY <2>1, <2>3 DEF Keeps
  <2>6. PICK a : /\ Respond(c, sent, a)
                 /\ OfRun(a, rows', r, 200) \/ OfRun(a, rows', r, 202)
    BY <1>6 DEF RunAnswer, OfRun
  <2>7. HoldsTrue(c, a, rows', jobs') /\ TellsNow(c, a, rows', jobs')
    BY <1>1, <2>3, <2>5, <2>6, RunAnswerHolds DEF WorldOK
  <2>8. NewSubject(c)
    BY <1>1, <1>6 DEF NewSubject
  <2> QED
    BY <2>4, <2>6, <2>7, <2>8, RespondStep
<1> QED
  BY <1>3, <1>4, <1>5, <1>6 DEF Verify

LEMMA ReproduceStep == ASSUME ApiIInv, NEW c \in Call, Reproduce(c) PROVE StepOK
<1>1. /\ WorldOK(rows, jobs, active, heard') /\ c \in heard'
      /\ c.route = "reproducibility" /\ c.key \in Key /\ c.request \in Request
  <2>1. Hears(c, {"reproducibility"})
    BY DEF Reproduce
  <2> QED
    BY <2>1, HeardWorld DEF Starting
<1>2. heard \subseteq heard'
  BY DEF Reproduce, Hears
<1>3. ASSUME NEW j \in Job, jobs[j] # None, jobs[j].key = c.key,
             jobs[j].request = c.request, DispatchNext(rows, active),
             Respond(c, sent, JobAnswer(j, jobs[j], rows', FALSE)), jobs' = jobs
      PROVE  StepOK
  <2>1. WorldStep
    BY <1>1, <1>3, DispatchedWorld DEF WorldStep
  <2>2. PICK a : Respond(c, sent, a) /\ OfJob(a, rows', jobs', j, 200)
    BY <1>3 DEF JobAnswer, OfJob
  <2>3. /\ HoldsTrue(c, a, rows', jobs') /\ TellsNow(c, a, rows', jobs')
        /\ a.status # 202
    BY <1>1, <1>3, <2>2, JobAnswerHolds
  <2> QED
    BY <2>1, <2>2, <2>3, RespondStep
<1>4. ASSUME Respond(c, sent, Refusal(409, "IDEMPOTENCY_KEY_CONFLICT")),
             UNCHANGED <<storeVars, active>>
      PROVE  StepOK
  <2>1. WorldStep
    BY <1>2, <1>4, StillWorld DEF storeVars
  <2> DEFINE a == Refusal(409, "IDEMPOTENCY_KEY_CONFLICT")
  <2>2. /\ a.status = 409 /\ a.subject = None /\ a.seen = None
    BY DEF Refusal, Answer
  <2> HIDE DEF a
  <2>3. /\ None # "COMPLETED" /\ None # "INCONCLUSIVE"
        /\ c.route \in OfJobs /\ c.route # "result"
    BY <1>1, ApiAssumption DEF Status, OfJobs, Terminal
  <2>4. HoldsTrue(c, a, rows', jobs') /\ TellsNow(c, a, rows', jobs')
    BY <1>1, <2>2, <2>3 DEF HoldsTrue, TellsNow
  <2> QED
    BY <1>4, <2>1, <2>2, <2>4, RespondStep DEF a
<1>5. ASSUME Respond(c, sent, Refusal(429, "RUN_QUEUE_FULL")),
             UNCHANGED <<storeVars, active>>
      PROVE  StepOK
  <2>1. WorldStep
    BY <1>2, <1>5, StillWorld DEF storeVars
  <2> QED
    BY <1>5, <2>1, RefuseStep
<1> DEFINE n == NextSequence(rows)
           Row1(j, b, d) == [key |-> c.key, request |-> c.request,
                             baseline |-> b, candidate |-> d]
           Both(j, b, d) == Inserted(Inserted(rows, b, <<j, "baseline">>, c.request, n),
                                     d, <<j, "candidate">>, c.request, n + 1)
<1>6. ASSUME \A i \in Job : jobs[i] # None => jobs[i].key # c.key,
             WaitingCount(rows) + 2 <= WaitingLimit,
             NEW j \in Job, jobs[j] = None,
             NEW b \in Run \ Present(rows), NEW d \in Run \ Present(rows), b # d,
             jobs' = [jobs EXCEPT ![j] = Row1(j, b, d)],
             DispatchNext(Both(j, b, d), active),
             Respond(c, sent, JobAnswer(j, Row1(j, b, d), rows', TRUE))
      PROVE  StepOK
  <2> DEFINE mid == Both(j, b, d)
  <2>1. WorldOK(mid, jobs', active, heard') /\ Keeps(rows, jobs, mid, jobs')
    BY <1>1, <1>6, InsertedPairWorld
  <2>2. DispatchNext(mid, active)
    BY <1>6
  <2> HIDE DEF mid
  <2>3. WorldOK(rows', jobs', active', heard') /\ Keeps(mid, jobs', rows', jobs')
    BY <2>1, <2>2, DispatchedWorld
  <2>4. WorldStep
    BY <2>1, <2>3, KeepsTrans DEF WorldStep
  <2>5. jobs'[j] = Row1(j, b, d) /\ jobs'[j] # None
    <3>1. jobs \in [Job -> JobRow \cup {None}]
      BY DEF ApiIInv, WorldOK, TablesOK, Linked
    <3>2. Row1(j, b, d) \in JobRow
      BY <1>1, <1>6 DEF JobRow
    <3>3. jobs'[j] = Row1(j, b, d)
      BY <1>6, <3>1
    <3> QED
      BY <3>2, <3>3, StoreAssumption
  <2>6. PICK a : Respond(c, sent, a) /\ OfJob(a, rows', jobs', j, 202)
    BY <1>6, <2>5 DEF JobAnswer, OfJob
  <2>7. HoldsTrue(c, a, rows', jobs') /\ TellsNow(c, a, rows', jobs')
    <3>1. jobs'[j].key = c.key /\ jobs'[j].request = c.request
      BY <2>5
    <3> QED
      BY <1>1, <2>5, <2>6, <3>1, JobAnswerHolds
  <2>8. NewSubject(c)
    BY <1>1, <1>6 DEF NewSubject
  <2> QED
    BY <2>4, <2>6, <2>7, <2>8, RespondStep
<1> QED
  BY <1>3, <1>4, <1>5, <1>6 DEF Reproduce

LEMMA BeatStep == ASSUME ApiIInv, NEW c \in Call, Beat(c) PROVE StepOK
<1>1. /\ WorldOK(rows, jobs, active, heard') /\ c \in heard'
      /\ c.route = "heartbeat" /\ c.authentic /\ c.id \in Run
  <2>1. Hears(c, {"heartbeat"})
    BY DEF Beat
  <2> QED
    BY <2>1, HeardWorld DEF Callback
<1>2. jobs' = jobs /\ active' = active /\ heard \subseteq heard'
  BY DEF Beat, Hears
<1>3. ASSUME NEW status \in {404, 409}, NEW code \in {"RUN_NOT_FOUND", "LEASE_EXPIRED"},
             Respond(c, sent, Refusal(status, code)), rows' = rows
      PROVE  StepOK
  <2>1. WorldStep
    BY <1>2, <1>3, StillWorld
  <2> QED
    BY <1>3, <2>1, RefuseStep
<1>4. ASSUME active = c.id, NEW stage \in Stage,
             rows' = Heartbeaten(rows, c.id, stage), Respond(c, sent, Accepted)
      PROVE  StepOK
  <2>1. c.id # None
    BY <1>1, StoreAssumption
  <2>2. WorldStep
    BY <1>1, <1>2, <1>4, <2>1, HeartbeatenWorld DEF WorldStep
  <2>3. c.route \notin Starting /\ c.route # "result"
    BY <1>1 DEF Starting
  <2>4. HoldsTrue(c, Accepted, rows', jobs') /\ TellsNow(c, Accepted, rows', jobs')
    BY <2>3, AcceptedHolds DEF TellsNow
  <2> QED
    BY <1>4, <2>2, <2>3, <2>4, RespondStep
<1>5. Beat(c) => \/ rows' = rows /\ \E status \in {404, 409},
                        code \in {"RUN_NOT_FOUND", "LEASE_EXPIRED"} :
                          Respond(c, sent, Refusal(status, code))
                 \/ /\ active = c.id /\ Respond(c, sent, Accepted)
                    /\ \E stage \in Stage : rows' = Heartbeaten(rows, c.id, stage)
  BY DEF Beat
<1> QED
  BY <1>3, <1>4, <1>5

(* A result is accepted only with its fingerprint stored; otherwise the    *)
(* tables tell why not.                                                    *)
LEMMA DeliverStep == ASSUME ApiIInv, NEW c \in Call, Deliver(c) PROVE StepOK
<1> DEFINE known == ResultDeliveryOutcome(rows, c.id, c.print)
<1>1. /\ WorldOK(rows, jobs, active, heard') /\ c \in heard'
      /\ c.route = "result" /\ c.authentic /\ c.id \in Run
      /\ c.print \in Fingerprint /\ c.verdict \in Verdict
      /\ c.id # None /\ c.print # None /\ c.route \notin Starting
  <2>1. Hears(c, {"result"})
    BY DEF Deliver
  <2>2. /\ WorldOK(rows, jobs, active, heard') /\ c \in heard'
        /\ c.route = "result" /\ c.authentic /\ c.id \in Run
    BY <2>1, HeardWorld DEF Callback
  <2>3. c.print \in Fingerprint /\ c.verdict \in Verdict
    BY <2>1, ApiAssumption DEF Hears
  <2>4. c.id # None /\ c.print # None
    BY <2>2, <2>3, StoreAssumption
  <2> QED
    BY <2>2, <2>3, <2>4 DEF Starting
<1>2. jobs' = jobs /\ heard \subseteq heard'
  BY DEF Deliver, Hears
<1>3. ASSUME active = c.id, NEW db, NEW a,
             WorldOK(db, jobs, None, heard'), Keeps(rows, jobs, db, jobs),
             HoldsTrue(c, a, db, jobs), a.subject = None,
             DispatchNext(db, None),
             phase' = [phase EXCEPT ![c] = "awaiting"],
             plan' = [plan EXCEPT ![c] = a], given' = given
      PROVE  StepOK
  <2>1. WorldOK(rows', jobs', active', heard') /\ Keeps(db, jobs', rows', jobs')
    BY <1>2, <1>3, DispatchedWorld
  <2>2. WorldStep
    BY <1>2, <1>3, <2>1, KeepsTrans DEF WorldStep
  <2>3. HoldsTrue(c, a, rows', jobs')
    BY <1>2, <1>3, <2>1, TruthIsKept DEF WorldOK
  <2>4. /\ phase \in [Call -> {"idle", "reading", "awaiting"}]
        /\ plan = [d \in Call |-> plan[d]]
    BY DEF ApiIInv, CallsOK
  <2>5. ASSUME NEW d \in Call PROVE CallOK(d)'
    <3>1. CASE d = c
      <4>1. phase'[d] = "awaiting" /\ plan'[d] = a
        BY <1>3, <2>4, <3>1
      <4> QED
        BY <1>1, <1>3, <2>3, <3>1, <4>1 DEF CallOK
    <3>2. CASE d # c
      <4>1. phase'[d] = phase[d] /\ plan'[d] = plan[d]
        BY <1>3, <2>4, <3>2
      <4> QED
        BY <2>2, <4>1, CallKept
    <3> QED
      BY <3>1, <3>2
  <2>6. CallsOK'
    BY <1>3, <2>4, <2>5 DEF CallsOK
  <2> QED
    BY <1>3, <2>2, <2>6, AnswersKept DEF StepOK
<1>4. ASSUME known = "PENDING", active = c.id, NEW issued \in BOOLEAN,
             DispatchNext(Concludes(c, issued), None),
             phase' = [phase EXCEPT ![c] = "awaiting"],
             plan' = [plan EXCEPT ![c] = ResultAnswer(issued)], given' = given
      PROVE  StepOK
  <2>1. CASE issued = TRUE
    <3> DEFINE report == [run |-> c.id, request |-> rows[c.id].request,
                          verdict |-> c.verdict]
               db == Completed(rows, c.id, "COMPLETED", report, report, c.print)
    <3>1. DispatchNext(db, None) /\ plan' = [plan EXCEPT ![c] = Accepted]
      BY <1>4, <2>1 DEF Concludes, ResultAnswer
    <3>2. /\ WorldOK(db, jobs, None, heard') /\ Keeps(rows, jobs, db, jobs)
          /\ db[c.id].fingerprint = c.print
      BY <1>1, <1>4, CompletedWorld
    <3> HIDE DEF db
    <3>3. HoldsTrue(c, Accepted, db, jobs) /\ Accepted.subject = None
      BY <1>1, <3>2, AcceptedHolds
    <3> QED
      BY <1>3, <1>4, <3>1, <3>2, <3>3
  <2>2. CASE issued = FALSE
    <3> DEFINE db == SystemErrored(rows, c.id, "RECEIPT_ISSUANCE_FAILED", None)
               a == Refusal(409, "LEASE_EXPIRED")
    <3>1. DispatchNext(db, None) /\ plan' = [plan EXCEPT ![c] = a]
      BY <1>4, <2>2 DEF Concludes, ResultAnswer
    <3>2. /\ WorldOK(db, jobs, None, heard') /\ Keeps(rows, jobs, db, jobs)
      BY <1>1, ApiAssumption, SystemErroredWorld
    <3>3. 409 \notin {200, 202}
      OBVIOUS
    <3> HIDE DEF db
    <3>4. HoldsTrue(c, a, db, jobs) /\ a.subject = None
      BY <3>3, RefusalHolds
    <3> HIDE DEF a
    <3> QED
      BY <1>3, <1>4, <3>1, <3>2, <3>4
  <2> QED
    BY <1>4, <2>1, <2>2
<1>5. ASSUME UNCHANGED <<rows, active>>,
             Respond(c, sent,
               CASE known = "RUN_NOT_FOUND" -> Refusal(404, known)
                 [] known = "ACCEPTED" -> Accepted
                 [] known = "RESULT_CONFLICT" -> Refusal(409, known)
                 [] OTHER -> Refusal(409, "LEASE_EXPIRED"))
      PROVE  StepOK
  <2>1. WorldStep
    BY <1>2, <1>5, StillWorld
  <2>2. CASE known = "ACCEPTED"
    <3>1. Respond(c, sent, Accepted)
      BY <1>5, <2>2
    <3>2. rows'[c.id].fingerprint = c.print
      BY <1>1, <1>5, <2>2 DEF ResultDeliveryOutcome
    <3>3. HoldsTrue(c, Accepted, rows', jobs') /\ TellsNow(c, Accepted, rows', jobs')
      BY <1>1, <3>2, AcceptedHolds DEF TellsNow
    <3> QED
      BY <1>1, <2>1, <3>1, <3>3, RespondStep
  <2>3. CASE known = "RESULT_CONFLICT"
    <3> DEFINE a == Refusal(409, "RESULT_CONFLICT")
    <3>1. Respond(c, sent, a)
      BY <1>5, <2>3
    <3>2. rows'[c.id].fingerprint \notin {None, c.print}
      BY <1>1, <1>5, <2>3 DEF ResultDeliveryOutcome
    <3>3. /\ a.status = 409 /\ a.code = "RESULT_CONFLICT"
          /\ a.subject = None /\ a.seen = None
      BY DEF Refusal, Answer
    <3> HIDE DEF a
    <3>4. None \notin Terminal /\ c.route \notin OfJobs
      BY <1>1, ApiAssumption DEF Status, OfJobs
    <3>5. HoldsTrue(c, a, rows', jobs') /\ TellsNow(c, a, rows', jobs')
      BY <1>1, <3>2, <3>3, <3>4 DEF HoldsTrue, TellsNow
    <3> QED
      BY <1>1, <2>1, <3>1, <3>5, RespondStep
  <2>4. CASE known \notin {"ACCEPTED", "RESULT_CONFLICT"}
    <3>1. \E status \in {404, 409}, code \in {"RUN_NOT_FOUND", "LEASE_EXPIRED"} :
            Respond(c, sent, Refusal(status, code))
      <4> HIDE DEF known
      <4>1. CASE known = "RUN_NOT_FOUND"
        <5>1. Respond(c, sent, Refusal(404, "RUN_NOT_FOUND"))
          BY <1>5, <4>1
        <5> QED
          BY <5>1
      <4>2. CASE known # "RUN_NOT_FOUND"
        <5>1. Respond(c, sent, Refusal(409, "LEASE_EXPIRED"))
          BY <1>5, <2>4, <4>2
        <5> QED
          BY <5>1
      <4> QED
        BY <4>1, <4>2
    <3> QED
      BY <2>1, <3>1, RefuseStep
  <2> QED
    BY <2>2, <2>3, <2>4
<1> HIDE DEF known
<1> QED
  BY <1>4, <1>5 DEF Deliver, known

LEMMA InspectStep == ASSUME ApiIInv, NEW c \in Call, Inspect(c) PROVE StepOK
<1>1. c.route = "inspect" /\ c.route \notin Starting /\ c.route # "result"
  BY DEF Inspect, Hears, Starting
<1>2. WorldStep
  BY StillWorld DEF Inspect, Hears, storeVars
<1>3. PICK a \in {Accepted, Refusal(503, "INTERNAL_ERROR")} :
        plan' = [plan EXCEPT ![c] = a]
  BY DEF Inspect
<1>4. phase' = [phase EXCEPT ![c] = "awaiting"] /\ given' = given
  BY DEF Inspect
<1>5. HoldsTrue(c, a, rows', jobs') /\ a.subject = None
  <2>1. 503 \notin {200, 202}
    OBVIOUS
  <2>2. CASE a = Accepted
    BY <1>1, <2>2, AcceptedHolds
  <2>3. CASE a = Refusal(503, "INTERNAL_ERROR")
    BY <2>1, <2>3, RefusalHolds
  <2> QED
    BY <1>3, <2>2, <2>3
<1>6. /\ phase \in [Call -> {"idle", "reading", "awaiting"}]
      /\ plan = [d \in Call |-> plan[d]]
  BY DEF ApiIInv, CallsOK
<1>7. ASSUME NEW d \in Call PROVE CallOK(d)'
  <2>1. CASE d = c
    <3>1. phase'[d] = "awaiting" /\ plan'[d] = a
      BY <1>3, <1>4, <1>6, <2>1
    <3> QED
      BY <1>1, <1>5, <2>1, <3>1 DEF CallOK
  <2>2. CASE d # c
    <3>1. phase'[d] = phase[d] /\ plan'[d] = plan[d]
      BY <1>3, <1>4, <1>6, <2>2
    <3> QED
      BY <1>2, <3>1, CallKept
  <2> QED
    BY <2>1, <2>2
<1>8. CallsOK'
  BY <1>3, <1>4, <1>6, <1>7 DEF CallsOK
<1> QED
  BY <1>2, <1>4, <1>8, AnswersKept DEF StepOK

(* What was planned is said, and is still true. *)
LEMMA FinishStep == ASSUME ApiIInv, NEW c \in Call, Finish(c) PROVE StepOK
<1>1. WorldStep
  BY StillWorld DEF Finish, storeVars
<1>2. /\ c.route \notin Starting /\ plan[c].subject = None
      /\ HoldsTrue(c, plan[c], rows, jobs)
  BY DEF Finish, ApiIInv, CallsOK, CallOK
<1>3. HoldsTrue(c, plan[c], rows', jobs') /\ TellsNow(c, plan[c], rows', jobs')
  BY <1>1, <1>2, TurnTruth DEF TellsNow
<1>4. Respond(c, sent, plan[c])
  BY DEF Finish
<1> QED
  BY <1>1, <1>2, <1>3, <1>4, RespondStep

LEMMA OrchestratorStep ==
  ASSUME ApiIInv, LeaseExpires \/ RunnerRefuses \/ WakeUp
  PROVE  StepOK
<1>1. UNCHANGED <<jobs, phase, plan, given, heard>>
  BY DEF LeaseExpires, RunnerRefuses, WakeUp, serverVars
<1>2. WorldOK(rows, jobs, active, heard) /\ active \in Run \cup {None}
  BY DEF ApiIInv, WorldOK, LeaseOK
<1>3. CASE LeaseExpires
  <2> DEFINE db == SystemErrored(rows, active, "LEASE_EXPIRED", None)
  <2>1. WorldOK(db, jobs, None, heard) /\ Keeps(rows, jobs, db, jobs)
    BY <1>2, <1>3, ApiAssumption, SystemErroredWorld DEF LeaseExpires
  <2>2. DispatchNext(db, None)
    BY <1>3 DEF LeaseExpires
  <2> HIDE DEF db
  <2>3. WorldOK(rows', jobs', active', heard') /\ Keeps(db, jobs', rows', jobs')
    BY <1>1, <2>1, <2>2, DispatchedWorld
  <2>4. WorldStep
    BY <1>1, <2>1, <2>3, KeepsTrans DEF WorldStep
  <2> QED
    BY <1>1, <2>4, QuietStep
<1>4. CASE RunnerRefuses
  <2>1. WorldStep
    BY <1>1, <1>2, <1>4, RequeuedWorld DEF RunnerRefuses, WorldStep
  <2> QED
    BY <1>1, <2>1, QuietStep
<1>5. CASE WakeUp
  <2>1. WorldStep
    BY <1>1, <1>2, <1>5, DispatchedWorld DEF WakeUp, WorldStep
  <2> QED
    BY <1>1, <2>1, QuietStep
<1> QED
  BY <1>3, <1>4, <1>5

LEMMA CrashStep == ASSUME ApiIInv, Crash PROVE StepOK
<1>1. WorldStep
  BY RecoveredWorld DEF ApiIInv, Crash, WorldStep
<1>2. /\ phase' = [c \in Call |-> "idle"] /\ plan' = [c \in Call |-> None]
      /\ given' = given
  BY DEF Crash
<1>3. \A d \in Call : CallOK(d)'
  BY <1>1, <1>2, CallKept
<1>4. CallsOK'
  BY <1>2, <1>3 DEF CallsOK
<1> QED
  BY <1>1, <1>2, <1>4, AnswersKept DEF StepOK

LEMMA ApiStep == ASSUME ApiIInv, ApiNext PROVE StepOK
BY ReceiveStep, BreakStep, RefuseBodyStep, VerifyStep, ReproduceStep, BeatStep,
   DeliverStep, InspectStep, FinishStep, OrchestratorStep, CrashStep DEF ApiNext, Handle

LEMMA ApiInitial == ApiInit => ApiIInv
<1> SUFFICES ASSUME ApiInit PROVE ApiIInv
  OBVIOUS
<1>1. /\ rows = [r \in Run |-> NoRow] /\ jobs = [j \in Job |-> None]
      /\ phase = [c \in Call |-> "idle"] /\ plan = [c \in Call |-> None]
      /\ active = None /\ given = {}
  BY DEF ApiInit, StoreInit
<1>2. Present(rows) = {} /\ Waiting(rows) = {} /\ Running(rows) = {}
  BY <1>1 DEF NoRow, Present, Waiting, Running
<1>3. QueueOK(rows)
  BY InitQueueOK DEF ApiInit
<1>4. BacklogOK(rows)
  <2>1. Backlog(rows) = {}
    BY <1>2 DEF Backlog
  <2> QED
    BY <2>1, FS_EmptySet, StoreAssumption DEF BacklogOK
<1>5. AllConsistent(rows)
  BY <1>1 DEF NoRow, AllConsistent, Consistent
<1>6. Linked(rows, jobs)
  BY <1>1, <1>2 DEF Linked, Owned, OwnersDistinct
<1>7. EffectsOK(rows, jobs, heard)
  <2>1. None \notin Stage
    BY StoreAssumption
  <2> QED
    BY <1>1, <1>2, <2>1
       DEF NoRow, EffectsOK, RunsAsked, JobsAsked, PrintsDelivered, StagesAnnounced
<1>8. KeysApart(jobs) /\ LeaseOK(rows, active) /\ HaveRequests(rows)
  BY <1>1, <1>2 DEF KeysApart, LeaseOK, HaveRequests
<1>9. CallsOK /\ AnswersOK
  BY <1>1 DEF CallsOK, CallOK, AnswersOK
<1> QED
  BY <1>3, <1>4, <1>5, <1>6, <1>7, <1>8, <1>9 DEF ApiIInv, WorldOK, TablesOK, InLineOK

(* Everything an answer says is true, everything stored was asked for, and *)
(* both stay so.                                                           *)
THEOREM ApiInvariant == ApiSpec => []ApiIInv
<1>1. ApiIInv /\ [ApiNext]_apiVars => ApiIInv'
  <2> SUFFICES ASSUME ApiIInv, [ApiNext]_apiVars PROVE ApiIInv'
    OBVIOUS
  <2>1. CASE ApiNext
    BY <2>1, ApiStep DEF StepOK, WorldStep, ApiIInv
  <2>2. CASE UNCHANGED apiVars
    BY <2>2 DEF apiVars, ApiIInv, CallsOK, CallOK, AnswersOK
  <2> QED
    BY <2>1, <2>2
<1> QED
  BY <1>1, ApiInitial, PTL DEF ApiSpec

-----------------------------------------------------------------------------
LEMMA OneSubject == ApiIInv => OneSubjectPerKey
<1> SUFFICES ASSUME ApiIInv, NEW g \in given, NEW h \in given,
                    Started(g), Started(h), SameKey(g, h)
             PROVE  /\ g.answer.subject = h.answer.subject
                    /\ g.call.request = h.call.request
                    /\ g.answer.status = 202 /\ h.answer.status = 202 => g = h
  BY DEF OneSubjectPerKey, SameKey
<1>1. /\ HoldsTrue(g.call, g.answer, rows, jobs)
      /\ HoldsTrue(h.call, h.answer, rows, jobs)
      /\ OwnersDistinct(rows) /\ KeysApart(jobs)
  BY DEF ApiIInv, AnswersOK, WorldOK, TablesOK, Linked
<1>2. g.answer.status = 202 /\ h.answer.status = 202 => g = h
  BY DEF ApiIInv, AnswersOK, SaysNew
<1>3. CASE g.call.route = "reproducibility"
  <2>1. h.call.route = "reproducibility"
    BY <1>3 DEF SameKey
  <2> QED
    BY <1>1, <1>2, <1>3, <2>1 DEF HoldsTrue, Started, SameKey, KeysApart
<1>4. CASE g.call.route # "reproducibility"
  <2>1. g.call.route \in Starting \ OfJobs /\ h.call.route \in Starting \ OfJobs
    BY <1>4 DEF SameKey, Started, Starting, OfJobs
  <2>2. /\ g.answer.subject \in Present(rows) /\ h.answer.subject \in Present(rows)
        /\ rows[g.answer.subject].owner = rows[h.answer.subject].owner
        /\ rows[g.answer.subject].request = g.call.request
        /\ rows[h.answer.subject].request = h.call.request
    BY <1>1, <2>1 DEF HoldsTrue, Started, SameKey
  <2>3. g.answer.subject = h.answer.subject
    BY <1>1, <2>2 DEF OwnersDistinct
  <2> QED
    BY <1>2, <2>2, <2>3
<1> QED
  BY <1>3, <1>4

LEMMA TruthShows ==
  ASSUME TablesOK(rows, jobs), NEW c, NEW a, HoldsTrue(c, a, rows, jobs),
         c.route \notin OfJobs, a.seen \in Terminal
  PROVE  Inflated(rows, a.subject).status = a.seen
<1>1. a.subject \in Present(rows) /\ rows[a.subject].status = a.seen
  BY DEF HoldsTrue, Present, Terminal
<1> QED
  BY <1>1, TerminalIsRead

(* No answer is ever taken back, whatever was retried, lost or refused and *)
(* however often the process restarted.                                    *)
THEOREM AnswersAlwaysTrue == ApiSpec => []AnswersStayTrue
<1>1. ApiIInv => AnswersStayTrue
  <2> SUFFICES ASSUME ApiIInv PROVE AnswersStayTrue
    OBVIOUS
  <2>1. ASSUME NEW g \in given
        PROVE  LET c == g.call  a == g.answer IN
          /\ Started(g) /\ c.route # "reproducibility" =>
               /\ rows[a.subject].owner = <<Public, c.key>>
               /\ rows[a.subject].request = c.request
          /\ Started(g) /\ c.route = "reproducibility" =>
               jobs[a.subject].key = c.key /\ jobs[a.subject].request = c.request
          /\ a.code = "IDEMPOTENCY_KEY_CONFLICT" /\ c.route # "reproducibility" =>
               KeyTaken(rows, c.key) /\ ~Replayed(rows, c.key, c.request)
          /\ c.route = "result" /\ a.status = 200 => rows[c.id].fingerprint = c.print
          /\ c.route = "result" /\ a.code = "RESULT_CONFLICT" =>
               rows[c.id].fingerprint \notin {None, c.print}
          /\ c.route \notin OfJobs /\ a.seen \in Terminal =>
               Inflated(rows, a.subject).status = a.seen
          /\ c.route \in OfJobs /\ a.seen \in {"COMPLETED", "INCONCLUSIVE"} =>
               Reproduced(rows, jobs[a.subject]).status = a.seen
    <3>1. HoldsTrue(g.call, g.answer, rows, jobs) /\ TablesOK(rows, jobs)
      BY DEF ApiIInv, AnswersOK, WorldOK
    <3>2. Started(g) /\ g.call.route # "reproducibility"
            => g.call.route \in Starting \ OfJobs
      BY DEF Started, Starting, OfJobs
    <3>3. g.call.route \notin OfJobs /\ g.answer.seen \in Terminal =>
            Inflated(rows, g.answer.subject).status = g.answer.seen
      BY <3>1, TruthShows
    <3> QED
      BY <3>1, <3>2, <3>3 DEF HoldsTrue, Started
  <2> QED
    BY <2>1, OneSubject DEF AnswersStayTrue
<1> QED
  BY <1>1, ApiInvariant, PTL

(* Nothing is stored that no authorised call has asked for. *)
THEOREM EffectsAlwaysHaveCallers == ApiSpec => []EffectsHaveCallers
<1>1. ApiIInv => EffectsHaveCallers
  BY DEF ApiIInv, WorldOK, EffectsOK, RunsAsked, JobsAsked, PrintsDelivered,
         StagesAnnounced, EffectsHaveCallers
<1> QED
  BY <1>1, ApiInvariant, PTL

(* An answer shows its run or its job as it is when it is given. *)
THEOREM AnswersAlwaysCurrent == ApiSpec => AnswersAreCurrent
<1> DEFINE Current ==
      \A g \in given' \ given : g.answer.subject # None =>
        g.answer.seen =
          IF g.call.route \in OfJobs
          THEN Reproduced(rows', jobs'[g.answer.subject]).status
          ELSE Inflated(rows', g.answer.subject).status
<1>1. ApiIInv /\ [ApiNext]_apiVars => [Current]_apiVars
  BY ApiStep DEF StepOK, AllTellNow, TellsNow
<1>2. ApiSpec => [][Current]_apiVars
  BY <1>1, ApiInvariant, PTL DEF ApiSpec
<1> QED
  BY <1>2 DEF AnswersAreCurrent

(* What the store promises its callers, it promises the API's handlers:    *)
(* the queue is in order and every response is readable and justified.     *)
THEOREM ApiTablesAreSound == ApiSpec => [](QueueIsSound /\ ResponsesAreSound)
<1>1. ApiIInv => ResponsesAreSound
  BY TablesAreReadable, TablesAreJustified DEF ResponsesAreSound, ApiIInv, WorldOK
<1>2. ApiIInv => QueueIsSound
  BY DEF ApiIInv, WorldOK, TablesOK, InLineOK, QueueOK, BacklogOK, Linked,
         OwnersDistinct, QueueIsSound, SingleRunning, NoOvertaking, BacklogBounded,
         UniqueRows, Distinct
<1> QED
  BY <1>1, <1>2, ApiInvariant, PTL
===============================================================================
