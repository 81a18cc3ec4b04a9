--------------------------- MODULE RunStoreProofs ---------------------------
(***************************************************************************)
(* What the store keeps true for every set of runs, keys and requests, and *)
(* every waiting limit, whichever methods its callers invoke and in        *)
(* whichever order.                                                        *)
(*                                                                         *)
(* The lemmas speak of a table db and of the table a method makes of it,   *)
(* so that they serve this module's specification and every module that    *)
(* composes the methods.                                                   *)
(***************************************************************************)
EXTENDS RunStore, FiniteSetTheorems, TLAPS

(* Absent rows are blank, and the sequence of a present row is positive.   *)
BlankRows(db) ==
  \A r \in Run : IF db[r].status = "ABSENT" THEN db[r] = NoRow
                                            ELSE db[r].sequence > 0

(* MAX(queue_sequence) exists: the set of sequences has a greatest element *)
(* because every insert adds one greater than all of them.                 *)
HasLast(db) ==
  Run # {} => \E m \in Sequences(db) : \A n \in Sequences(db) : n <= m

(* No insert has happened and no row has moved between db and new.         *)
SameIdentity(db, new) ==
  \A r \in Run : /\ new[r].sequence = db[r].sequence
                 /\ new[r].owner = db[r].owner
                 /\ new[r].request = db[r].request
                 /\ new[r].status = "ABSENT" <=> db[r].status = "ABSENT"

(* The part of the invariant that concerns the queue. *)
QueueOK(db) ==
  /\ db \in [Run -> Row]
  /\ BlankRows(db)
  /\ HasLast(db)
  /\ \A r, s \in Present(db) : r # s => db[r].sequence # db[s].sequence
  /\ OneRunning(db)
  /\ InTurn(db)

-----------------------------------------------------------------------------
(* MAX + 1 is greater than every sequence of the table.                    *)
LEMMA NextSequenceIsLast ==
  ASSUME NEW db, db \in [Run -> Row], HasLast(db), Run # {}
  PROVE  /\ NextSequence(db) \in Nat
         /\ NextSequence(db) > 0
         /\ \A r \in Run : db[r].sequence < NextSequence(db)
<1> DEFINE IsMax(m) == \A n \in Sequences(db) : n <= m
           last == CHOOSE m \in Sequences(db) : IsMax(m)
<1>1. last \in Sequences(db) /\ IsMax(last)
  <2>1. \E m \in Sequences(db) : IsMax(m)
    BY DEF HasLast
  <2> QED
    BY <2>1
<1>2. Sequences(db) \subseteq Nat
  BY DEF Sequences, Row
<1>3. NextSequence(db) = 1 + last
  BY DEF NextSequence
<1>4. \A r \in Run : db[r].sequence \in Sequences(db)
  BY DEF Sequences
<1> QED
  BY <1>1, <1>2, <1>3, <1>4

(* A method that neither inserts nor moves rows keeps what depends on      *)
(* their places alone.                                                     *)
LEMMA SameIdentityKeepsPlaces ==
  ASSUME NEW db, NEW new, db \in [Run -> Row], new \in [Run -> Row],
         SameIdentity(db, new), BlankRows(db), HasLast(db),
         \A r, s \in Present(db) : r # s => db[r].sequence # db[s].sequence,
         \A r \in Run : db[r].status = "ABSENT" => new[r] = db[r]
  PROVE  /\ BlankRows(new)
         /\ HasLast(new)
         /\ Present(new) = Present(db)
         /\ \A r, s \in Present(new) : r # s => new[r].sequence # new[s].sequence
<1>1. Present(new) = Present(db)
  BY DEF Present, SameIdentity
<1>2. Sequences(new) = Sequences(db)
  BY DEF Sequences, SameIdentity
<1>3. BlankRows(new)
  BY DEF BlankRows, SameIdentity
<1>4. HasLast(new)
  BY <1>2 DEF HasLast
<1> QED
  BY <1>1, <1>3, <1>4 DEF Present, SameIdentity

-----------------------------------------------------------------------------
(* insertQueuedRun() with a sequence greater than every other one.         *)
LEMMA InsertedQueueOK ==
  ASSUME NEW db, QueueOK(db), NEW r \in Run \ Present(db),
         NEW owner \in Owner, NEW q \in Request,
         NEW n \in Nat, n > 0, \A s \in Run : db[s].sequence < n
  PROVE  /\ QueueOK(Inserted(db, r, owner, q, n))
         /\ \A s \in Run : Inserted(db, r, owner, q, n)[s].sequence < n + 1
<1> DEFINE new == Inserted(db, r, owner, q, n)
           row == [NoRow EXCEPT !.status = "QUEUED", !.owner = owner,
                                !.request = q, !.sequence = n]
<1>1. row \in Row /\ row.status = "QUEUED" /\ row.sequence = n
  BY DEF NoRow, Row, Status, Terminal
<1>2. /\ new = [db EXCEPT ![r] = row]
      /\ new \in [Run -> Row] /\ new[r] = row
      /\ \A s \in Run : s # r => new[s] = db[s]
  BY <1>1 DEF Inserted, QueueOK
<1> HIDE DEF new, row
<1>3. /\ Present(new) = Present(db) \cup {r}
      /\ Running(new) = Running(db)
  BY <1>1, <1>2 DEF Present, Running
<1>4. BlankRows(new)
  BY <1>1, <1>2 DEF BlankRows, QueueOK
<1>5. \A s \in Run : new[s].sequence <= n
  BY <1>1, <1>2 DEF QueueOK, Row
<1>6. HasLast(new)
  BY <1>1, <1>2, <1>5 DEF HasLast, Sequences
<1>7. \A s, t \in Present(new) : s # t => new[s].sequence # new[t].sequence
  BY <1>1, <1>2, <1>3 DEF QueueOK, Present, Row
<1>8. OneRunning(new)
  BY <1>3 DEF OneRunning, QueueOK
<1>9. InTurn(new)
  <2> SUFFICES ASSUME NEW s \in Present(new), NEW t \in Present(new),
                      new[s].sequence < new[t].sequence,
                      new[t].status # "QUEUED"
               PROVE  new[s].status \in Terminal
    BY DEF InTurn
  <2>1. t # r /\ t \in Present(db) /\ t \in Run /\ s \in Run
    BY <1>1, <1>2, <1>3 DEF Present
  <2>2. s # r
    BY <1>1, <1>2, <1>5, <2>1 DEF QueueOK, Row
  <2> QED
    BY <1>2, <1>3, <2>1, <2>2 DEF QueueOK, InTurn
<1>10. \A s \in Run : new[s].sequence < n + 1
  BY <1>2, <1>5 DEF Row
<1> QED
  BY <1>2, <1>4, <1>6, <1>7, <1>8, <1>9, <1>10 DEF QueueOK, new

(* claimNext(): the claimed run is the first in line and none is running,  *)
(* so whatever was admitted before it has ended.                           *)
LEMMA ClaimedQueueOK ==
  ASSUME NEW db, QueueOK(db), NEW r \in Run, Claimable(db, r)
  PROVE  /\ QueueOK(Claimed(db, r))
         /\ SameIdentity(db, Claimed(db, r))
<1> DEFINE new == Claimed(db, r)
           row == [db[r] EXCEPT !.status = "RUNNING", !.stage = "SANDBOX"]
<1>1. /\ db \in [Run -> Row]
      /\ r \in Waiting(db)
      /\ db[r].status = "QUEUED"
  BY DEF QueueOK, Claimable, FirstInLine, Waiting
<1>2. /\ row \in Row
      /\ row.status = "RUNNING"
      /\ row.sequence = db[r].sequence /\ row.owner = db[r].owner
      /\ row.request = db[r].request
  BY <1>1 DEF Row, Status
<1>3. new = [db EXCEPT ![r] = row]
  BY DEF Claimed
<1> HIDE DEF row
<1>10. /\ new \in [Run -> Row] /\ new[r] = row
      /\ \A s \in Run : s # r => new[s] = db[s]
  BY <1>1, <1>2, <1>3
<1>11. SameIdentity(db, new)
  BY <1>1, <1>2, <1>10 DEF SameIdentity
<1> HIDE DEF new
<1>4. /\ BlankRows(new) /\ HasLast(new) /\ Present(new) = Present(db)
      /\ \A s, t \in Present(new) : s # t => new[s].sequence # new[t].sequence
  BY <1>1, <1>10, <1>11, SameIdentityKeepsPlaces DEF QueueOK
<1>5. OneRunning(new)
  BY <1>10 DEF OneRunning, Running, Claimable
<1>6. InTurn(new)
  <2> SUFFICES ASSUME NEW s \in Present(new), NEW t \in Present(new),
                      new[s].sequence < new[t].sequence,
                      new[t].status # "QUEUED"
               PROVE  new[s].status \in Terminal
    BY DEF InTurn
  <2>1. /\ s \in Present(db) /\ t \in Present(db)
        /\ s \in Run /\ t \in Run
        /\ db[s].sequence < db[t].sequence
    BY <1>4, <1>11 DEF SameIdentity, Present
  <2>2. CASE t # r
    <3>1. db[s].status \in Terminal
      BY <1>10, <2>1, <2>2 DEF QueueOK, InTurn
    <3> QED
      BY <1>1, <1>10, <2>1, <3>1 DEF Terminal
  <2>3. CASE t = r
    <3>1. s # r /\ new[s] = db[s]
      BY <1>1, <1>10, <2>1, <2>3 DEF Row
    <3>2. db[s].status # "QUEUED"
      BY <1>1, <2>1, <2>3 DEF Claimable, FirstInLine, Waiting, Row
    <3>3. db[s].status # "RUNNING"
      BY <2>1 DEF Claimable, Running
    <3> QED
      BY <2>1, <3>1, <3>2, <3>3 DEF Present, QueueOK, Row, Status
  <2> QED
    BY <2>2, <2>3
<1>7. new = Claimed(db, r)
  BY DEF new
<1> QED
  BY <1>4, <1>5, <1>6, <1>7, <1>10, <1>11 DEF QueueOK

(* Any rewriting of RUNNING rows into QUEUED or terminal ones in place:    *)
(* requeue(), complete(), systemError(), recoverInterruptedRuns() and a    *)
(* heartbeat.  No other row is touched.                                    *)
SettlesRunning(db, new) ==
  /\ SameIdentity(db, new)
  /\ \A r \in Run \ Running(db) : new[r] = db[r]

LEMMA SettledQueueOK ==
  ASSUME NEW db, NEW new, QueueOK(db), new \in [Run -> Row],
         SettlesRunning(db, new)
  PROVE  QueueOK(new)
<1>1. /\ BlankRows(new) /\ HasLast(new) /\ Present(new) = Present(db)
      /\ \A s, t \in Present(new) : s # t => new[s].sequence # new[t].sequence
  <2>1. \A r \in Run : db[r].status = "ABSENT" => new[r] = db[r]
    BY DEF SettlesRunning, Running
  <2> QED
    BY <2>1, SameIdentityKeepsPlaces DEF QueueOK, SettlesRunning
<1>2. Running(new) \subseteq Running(db)
  BY DEF Running, SettlesRunning
<1>3. OneRunning(new)
  BY <1>2 DEF OneRunning, QueueOK
<1>4. InTurn(new)
  <2> SUFFICES ASSUME NEW s \in Present(new), NEW t \in Present(new),
                      new[s].sequence < new[t].sequence,
                      new[t].status # "QUEUED"
               PROVE  new[s].status \in Terminal
    BY DEF InTurn
  <2>1. /\ s \in Present(db) /\ t \in Present(db)
        /\ s \in Run /\ t \in Run
        /\ db[s].sequence < db[t].sequence
    BY <1>1 DEF SettlesRunning, SameIdentity, Present
  <2>2. db[t].status # "QUEUED"
    BY <2>1 DEF SettlesRunning, Running
  <2>3. db[s].status \in Terminal
    BY <2>1, <2>2 DEF QueueOK, InTurn
  <2>4. s \notin Running(db)
    BY <2>3 DEF Running, Terminal
  <2> QED
    BY <2>1, <2>3, <2>4 DEF SettlesRunning
<1> QED
  BY <1>1, <1>3, <1>4 DEF QueueOK

LEMMA RequeuedSettles ==
  ASSUME NEW db, db \in [Run -> Row], NEW r \in Run
  PROVE  /\ Requeued(db, r) \in [Run -> Row]
         /\ SettlesRunning(db, Requeued(db, r))
<1>1. CASE r \notin Running(db)
  BY <1>1 DEF Requeued, SettlesRunning, SameIdentity
<1>2. CASE r \in Running(db)
  <2> DEFINE row == [db[r] EXCEPT !.status = "QUEUED", !.stage = None,
                       !.report = None, !.fingerprint = None, !.error = None]
  <2>1. /\ row \in Row
        /\ row.status = "QUEUED"
        /\ row.sequence = db[r].sequence /\ row.owner = db[r].owner
        /\ row.request = db[r].request
    BY DEF Row, Status
  <2>2. Requeued(db, r) = [db EXCEPT ![r] = row]
    BY <1>2 DEF Requeued
  <2>3. db[r].status = "RUNNING"
    BY <1>2 DEF Running
  <2> QED
    BY <1>2, <2>1, <2>2, <2>3 DEF SettlesRunning, SameIdentity
<1> QED
  BY <1>1, <1>2

LEMMA HeartbeatenSettles ==
  ASSUME NEW db, db \in [Run -> Row], NEW r \in Run,
         NEW stage \in Stage \cup {None}
  PROVE  /\ Heartbeaten(db, r, stage) \in [Run -> Row]
         /\ SettlesRunning(db, Heartbeaten(db, r, stage))
<1>1. CASE r \notin Running(db) \/ stage = None
  BY <1>1 DEF Heartbeaten, SettlesRunning, SameIdentity
<1>2. CASE r \in Running(db) /\ stage # None
  BY <1>2 DEF Heartbeaten, SettlesRunning, SameIdentity, Row, Running
<1> QED
  BY <1>1, <1>2

LEMMA CompletedSettles ==
  ASSUME NEW db, db \in [Run -> Row], NEW r \in Run,
         NEW status \in {"COMPLETED", "TIMEOUT"}, NEW report \in Report,
         NEW receipt \in Report, NEW print \in Fingerprint,
         Completable(db, r, status, report, receipt)
  PROVE  /\ Completed(db, r, status, report, receipt, print) \in [Run -> Row]
         /\ SettlesRunning(db, Completed(db, r, status, report, receipt, print))
<1> DEFINE row == [db[r] EXCEPT !.status = status, !.stage = None,
                     !.report = report, !.receipt = receipt,
                     !.fingerprint = print, !.error = None]
<1>1. /\ row \in Row
      /\ row.status = status
      /\ row.sequence = db[r].sequence /\ row.owner = db[r].owner
      /\ row.request = db[r].request
  BY DEF Row, Status, Terminal
<1>2. Completed(db, r, status, report, receipt, print) = [db EXCEPT ![r] = row]
  BY DEF Completed
<1>3. r \in Running(db) /\ db[r].status = "RUNNING"
  BY DEF Completable, Running
<1> QED
  BY <1>1, <1>2, <1>3 DEF SettlesRunning, SameIdentity

LEMMA SystemErroredSettles ==
  ASSUME NEW db, db \in [Run -> Row], NEW r \in Run,
         NEW code \in ErrorCode, NEW print \in Fingerprint \cup {None}
  PROVE  /\ SystemErrored(db, r, code, print) \in [Run -> Row]
         /\ SettlesRunning(db, SystemErrored(db, r, code, print))
<1>1. CASE r \notin Running(db)
  BY <1>1 DEF SystemErrored, SettlesRunning, SameIdentity
<1>2. CASE r \in Running(db)
  <2> DEFINE row == [db[r] EXCEPT !.status = "SYSTEM_ERROR", !.stage = None,
                       !.report = None, !.fingerprint = print, !.error = code]
  <2>1. /\ row \in Row
        /\ row.status = "SYSTEM_ERROR"
        /\ row.sequence = db[r].sequence /\ row.owner = db[r].owner
        /\ row.request = db[r].request
    BY DEF Row, Status, Terminal
  <2>2. SystemErrored(db, r, code, print) = [db EXCEPT ![r] = row]
    BY <1>2 DEF SystemErrored
  <2>3. db[r].status = "RUNNING"
    BY <1>2 DEF Running
  <2> QED
    BY <1>2, <2>1, <2>2, <2>3 DEF SettlesRunning, SameIdentity
<1> QED
  BY <1>1, <1>2

LEMMA RecoveredSettles ==
  ASSUME NEW db, db \in [Run -> Row]
  PROVE  /\ Recovered(db) \in [Run -> Row]
         /\ SettlesRunning(db, Recovered(db))
<1>1. ASSUME NEW r \in Run
      PROVE  /\ Recovered(db)[r] = SystemErrored(db, r, "API_RESTARTED", None)[r]
             /\ SystemErrored(db, r, "API_RESTARTED", None) \in [Run -> Row]
             /\ SettlesRunning(db, SystemErrored(db, r, "API_RESTARTED", None))
  BY StoreAssumption, SystemErroredSettles DEF Recovered
<1>2. Recovered(db) \in [Run -> Row]
  BY <1>1 DEF Recovered
<1>3. SameIdentity(db, Recovered(db))
  BY <1>1 DEF SettlesRunning, SameIdentity
<1>4. \A r \in Run \ Running(db) : Recovered(db)[r] = db[r]
  BY <1>1 DEF SettlesRunning
<1> QED
  BY <1>2, <1>3, <1>4 DEF SettlesRunning

-----------------------------------------------------------------------------
(* The specification.  An empty table is in order. *)
LEMMA InitQueueOK ==
  ASSUME StoreInit
  PROVE  QueueOK(rows)
<1>1. rows \in [Run -> Row]
  BY DEF StoreInit, NoRow, Row, Status, Terminal
<1>2. Present(rows) = {} /\ Running(rows) = {}
  BY DEF StoreInit, NoRow, Present, Running
<1>3. BlankRows(rows)
  BY DEF StoreInit, BlankRows, NoRow
<1>4. HasLast(rows)
  BY DEF StoreInit, NoRow, HasLast, Sequences
<1> QED
  BY <1>1, <1>2, <1>3, <1>4 DEF QueueOK, OneRunning, InTurn

(* What a step of the store does to the table: it inserts one or two rows  *)
(* at the end of the queue, claims the first in line, or settles RUNNING   *)
(* rows in place.                                                          *)
Appends(db, new) ==
  \E r \in Run \ Present(db), owner \in Owner, q \in Request :
    /\ WaitingCount(db) < WaitingLimit
    /\ new = Inserted(db, r, owner, q, NextSequence(db))

AppendsPair(db, new) ==
  \E b, c \in Run \ Present(db), ob, oc \in Owner, q \in Request :
    /\ b # c
    /\ WaitingCount(db) + 2 <= WaitingLimit
    /\ new = Inserted(Inserted(db, b, ob, q, NextSequence(db)),
                      c, oc, q, NextSequence(db) + 1)

Claims(db, new) == \E r \in Run : Claimable(db, r) /\ new = Claimed(db, r)

Settles(db, new) == new \in [Run -> Row] /\ SettlesRunning(db, new)

LEMMA StoreStep ==
  ASSUME rows \in [Run -> Row], StoreNext
  PROVE  \/ Appends(rows, rows') \/ AppendsPair(rows, rows')
         \/ Claims(rows, rows') \/ Settles(rows, rows')
<1>1. ASSUME NEW k \in Key, NEW q \in Request, Create(k, q)
      PROVE  Appends(rows, rows')
  <2>1. <<Public, k>> \in Owner
    BY DEF Owner
  <2> QED
    BY <1>1, <2>1 DEF Create, Appends
<1>2. ASSUME NEW k \in Key, NEW q \in Request, CreateReproducibility(k, q)
      PROVE  AppendsPair(rows, rows')
  <2>1. PICK j \in Job, b \in Run \ Present(rows), c \in Run \ Present(rows) :
          /\ b # c
          /\ WaitingCount(rows) + 2 <= WaitingLimit
          /\ rows' = Inserted(Inserted(rows, b, <<j, "baseline">>, q,
                                       NextSequence(rows)),
                              c, <<j, "candidate">>, q, NextSequence(rows) + 1)
    BY <1>2 DEF CreateReproducibility
  <2>2. <<j, "baseline">> \in Owner /\ <<j, "candidate">> \in Owner
    BY DEF Owner
  <2> QED
    BY <2>1, <2>2 DEF AppendsPair
<1>3. ASSUME NEW r \in Run, ClaimNext(r)
      PROVE  Claims(rows, rows')
  BY <1>3 DEF ClaimNext, Claims
<1>4. ASSUME NEW r \in Run, Requeue(r)
      PROVE  Settles(rows, rows')
  BY <1>4, RequeuedSettles DEF Requeue, Settles
<1>5. ASSUME NEW r \in Run, NEW stage \in Stage, Heartbeat(r, stage)
      PROVE  Settles(rows, rows')
  BY <1>5, HeartbeatenSettles DEF Heartbeat, Settles
<1>6. ASSUME NEW r \in Run, NEW status \in {"COMPLETED", "TIMEOUT"},
             NEW report \in Report, NEW receipt \in Report,
             NEW print \in Fingerprint,
             Complete(r, status, report, receipt, print)
      PROVE  Settles(rows, rows')
  BY <1>6, CompletedSettles DEF Complete, Settles
<1>7. ASSUME NEW r \in Run, NEW code \in ErrorCode,
             NEW print \in Fingerprint \cup {None}, SystemError(r, code, print)
      PROVE  Settles(rows, rows')
  BY <1>7, SystemErroredSettles DEF SystemError, Settles
<1>8. ASSUME RecoverInterruptedRuns
      PROVE  Settles(rows, rows')
  BY <1>8, RecoveredSettles DEF RecoverInterruptedRuns, Settles
<1> QED
  BY <1>1, <1>2, <1>3, <1>4, <1>5, <1>6, <1>7, <1>8 DEF StoreNext

(* Each of the four keeps the queue in order.                              *)
LEMMA StepQueueOK ==
  ASSUME NEW db, NEW new, QueueOK(db),
         \/ Appends(db, new) \/ AppendsPair(db, new)
         \/ Claims(db, new) \/ Settles(db, new)
  PROVE  QueueOK(new)
<1>1. CASE Appends(db, new)
  <2>1. PICK r \in Run \ Present(db), owner \in Owner, q \in Request :
          new = Inserted(db, r, owner, q, NextSequence(db))
    BY <1>1 DEF Appends
  <2>2. /\ NextSequence(db) \in Nat /\ NextSequence(db) > 0
        /\ \A s \in Run : db[s].sequence < NextSequence(db)
    BY NextSequenceIsLast DEF QueueOK
  <2> QED
    BY <2>1, <2>2, InsertedQueueOK
<1>2. CASE AppendsPair(db, new)
  <2> DEFINE n == NextSequence(db)
  <2>1. PICK b \in Run \ Present(db), c \in Run \ Present(db),
             ob \in Owner, oc \in Owner, q \in Request :
          /\ b # c
          /\ new = Inserted(Inserted(db, b, ob, q, n), c, oc, q, n + 1)
    BY <1>2 DEF AppendsPair
  <2> DEFINE half == Inserted(db, b, ob, q, n)
  <2>2. n \in Nat /\ n > 0 /\ \A s \in Run : db[s].sequence < n
    BY NextSequenceIsLast DEF QueueOK
  <2>3. QueueOK(half) /\ \A s \in Run : half[s].sequence < n + 1
    BY <2>2, InsertedQueueOK
  <2>4. half[c] = db[c] /\ c \in Run \ Present(half)
    BY <2>1 DEF QueueOK, Inserted, Present
  <2> HIDE DEF half, n
  <2>5. new = Inserted(half, c, oc, q, n + 1)
    BY <2>1 DEF half
  <2>6. n + 1 \in Nat /\ n + 1 > 0
    BY <2>2
  <2> QED
    BY <2>3, <2>4, <2>5, <2>6, InsertedQueueOK
<1>3. CASE Claims(db, new)
  BY <1>3, ClaimedQueueOK DEF Claims
<1>4. CASE Settles(db, new)
  BY <1>4, SettledQueueOK DEF Settles
<1> QED
  BY <1>1, <1>2, <1>3, <1>4

(* The queue is in order in every reachable state.                         *)
THEOREM QueueAlwaysOK == StoreSpec => []QueueOK(rows)
<1>1. StoreInit => QueueOK(rows)
  BY InitQueueOK
<1>2. QueueOK(rows) /\ [StoreNext]_storeVars => QueueOK(rows)'
  <2> SUFFICES ASSUME QueueOK(rows), [StoreNext]_storeVars
               PROVE  QueueOK(rows')
    OBVIOUS
  <2>1. CASE StoreNext
    BY <2>1, StoreStep, StepQueueOK DEF QueueOK
  <2>2. CASE UNCHANGED storeVars
    BY <2>2 DEF storeVars
  <2> QED
    BY <2>1, <2>2
<1> QED
  BY <1>1, <1>2, PTL DEF StoreSpec

(* At most one run is RUNNING: the service executes one run at a time.     *)
THEOREM SingleRunningAlways == StoreSpec => []SingleRunning
<1>1. QueueOK(rows) => SingleRunning
  BY DEF QueueOK, SingleRunning
<1> QED
  BY <1>1, QueueAlwaysOK, PTL

(* No run leaves the queue before every run admitted earlier has ended.    *)
THEOREM NoOvertakingAlways == StoreSpec => []NoOvertaking
<1>1. QueueOK(rows) => NoOvertaking
  BY DEF QueueOK, NoOvertaking
<1> QED
  BY <1>1, QueueAlwaysOK, PTL

(* Terminal outcomes are final, and no row ever changes its owner, its     *)
(* request or its place.                                                   *)
LEMMA StepIsFinal ==
  ASSUME NEW db, NEW new, QueueOK(db), NEW r \in Run,
         \/ Appends(db, new) \/ AppendsPair(db, new)
         \/ Claims(db, new) \/ Settles(db, new)
  PROVE  /\ db[r].status \in Terminal => new[r] = db[r]
         /\ db[r].status # "ABSENT" => /\ new[r].owner = db[r].owner
                                       /\ new[r].request = db[r].request
                                       /\ new[r].sequence = db[r].sequence
<1>1. db \in [Run -> Row]
  BY DEF QueueOK
<1>2. db[r].status \in Terminal => r \in Present(db)
  BY DEF Present, Terminal
<1>3. CASE Appends(db, new)
  BY <1>1, <1>2, <1>3 DEF Appends, Inserted, Present
<1>4. CASE AppendsPair(db, new)
  BY <1>1, <1>2, <1>4 DEF AppendsPair, Inserted, Present
<1>5. CASE Claims(db, new)
  <2>1. PICK c \in Run : Claimable(db, c) /\ new = Claimed(db, c)
    BY <1>5 DEF Claims
  <2>2. db[c].status = "QUEUED" /\ SameIdentity(db, new)
    BY <2>1, ClaimedQueueOK DEF Claimable, FirstInLine, Waiting
  <2>3. r # c => new[r] = db[r]
    BY <1>1, <2>1 DEF Claimed
  <2> QED
    BY <2>2, <2>3 DEF SameIdentity, Terminal
<1>6. CASE Settles(db, new)
  BY <1>6 DEF Settles, SettlesRunning, SameIdentity, Running, Terminal
<1> QED
  BY <1>3, <1>4, <1>5, <1>6

THEOREM TerminalIsFinalAlways == StoreSpec => TerminalIsFinal
<1> DEFINE Final ==
      \A r \in Run :
        /\ rows[r].status \in Terminal => rows'[r] = rows[r]
        /\ rows[r].status # "ABSENT" =>
             /\ rows'[r].owner = rows[r].owner
             /\ rows'[r].request = rows[r].request
             /\ rows'[r].sequence = rows[r].sequence
<1>1. QueueOK(rows) /\ [StoreNext]_storeVars => [Final]_storeVars
  <2> SUFFICES ASSUME QueueOK(rows), StoreNext
               PROVE  Final
    OBVIOUS
  <2> QED
    BY StoreStep, StepIsFinal DEF QueueOK
<1>2. StoreSpec => [][Final]_storeVars
  BY <1>1, QueueAlwaysOK, PTL DEF StoreSpec
<1> QED
  BY <1>2 DEF TerminalIsFinal

-----------------------------------------------------------------------------
(* The backlog. *)
BacklogOK(db) ==
  /\ IsFiniteSet(Backlog(db))
  /\ Cardinality(Backlog(db)) <= WaitingLimit + 1

(* At most one run of the backlog is not waiting. *)
LEMMA BacklogCount ==
  ASSUME NEW db, OneRunning(db), IsFiniteSet(Backlog(db))
  PROVE  /\ IsFiniteSet(Waiting(db))
         /\ WaitingCount(db) \in Nat
         /\ Cardinality(Backlog(db)) \in Nat
         /\ Cardinality(Backlog(db)) <= WaitingCount(db) + 1
<1>1. IsFiniteSet(Waiting(db))
  <2>1. Waiting(db) \in SUBSET Backlog(db)
    BY DEF Backlog
  <2> QED
    BY <2>1, FS_Subset
<1>2. WaitingCount(db) \in Nat /\ Cardinality(Backlog(db)) \in Nat
  BY <1>1, FS_CardinalityType DEF WaitingCount
<1>3. CASE Running(db) = {}
  BY <1>2, <1>3 DEF Backlog, WaitingCount
<1>4. CASE Running(db) # {}
  <2>1. PICK r : r \in Running(db)
    BY <1>4
  <2>2. Backlog(db) = Waiting(db) \cup {r}
    BY <2>1 DEF OneRunning, Backlog
  <2> QED
    BY <1>1, <1>2, <2>2, FS_AddElement DEF WaitingCount
<1> QED
  BY <1>1, <1>2, <1>3, <1>4

(* An insert adds one waiting run and no running one. *)
LEMMA InsertedBacklog ==
  ASSUME NEW db, db \in [Run -> Row], IsFiniteSet(Backlog(db)), OneRunning(db),
         NEW r \in Run \ Present(db), NEW owner, NEW q, NEW n
  PROVE  LET new == Inserted(db, r, owner, q, n)
         IN  /\ IsFiniteSet(Backlog(new))
             /\ OneRunning(new)
             /\ WaitingCount(new) = WaitingCount(db) + 1
<1> DEFINE new == Inserted(db, r, owner, q, n)
<1>1. /\ new[r].status = "QUEUED"
      /\ \A s \in Run : s # r => new[s] = db[s]
      /\ db[r].status = "ABSENT"
  BY DEF Inserted, NoRow, Present
<1> HIDE DEF new
<1>2. /\ Waiting(new) = Waiting(db) \cup {r} /\ r \notin Waiting(db)
      /\ Running(new) = Running(db)
  BY <1>1 DEF Waiting, Running
<1>3. Backlog(new) = Backlog(db) \cup {r}
  BY <1>2 DEF Backlog
<1>4. IsFiniteSet(Backlog(new))
  BY <1>3, FS_AddElement
<1>5. OneRunning(new)
  BY <1>2 DEF OneRunning
<1>6. WaitingCount(new) = WaitingCount(db) + 1
  BY <1>2, BacklogCount, FS_AddElement DEF WaitingCount
<1> QED
  BY <1>4, <1>5, <1>6 DEF new

LEMMA StepBacklogOK ==
  ASSUME NEW db, NEW new, QueueOK(db), BacklogOK(db),
         \/ Appends(db, new) \/ AppendsPair(db, new)
         \/ Claims(db, new) \/ Settles(db, new)
  PROVE  BacklogOK(new)
<1>1. /\ db \in [Run -> Row] /\ OneRunning(db) /\ IsFiniteSet(Backlog(db))
      /\ WaitingCount(db) \in Nat /\ WaitingLimit \in Nat
  BY BacklogCount, StoreAssumption DEF QueueOK, BacklogOK
<1>2. CASE Appends(db, new)
  <2>1. PICK r \in Run \ Present(db), owner \in Owner, q \in Request :
          /\ WaitingCount(db) < WaitingLimit
          /\ new = Inserted(db, r, owner, q, NextSequence(db))
    BY <1>2 DEF Appends
  <2>2. /\ IsFiniteSet(Backlog(new)) /\ OneRunning(new)
        /\ WaitingCount(new) = WaitingCount(db) + 1
    BY <1>1, <2>1, InsertedBacklog
  <2> QED
    BY <1>1, <2>1, <2>2, BacklogCount DEF BacklogOK
<1>3. CASE AppendsPair(db, new)
  <2> DEFINE n == NextSequence(db)
  <2>1. PICK b \in Run \ Present(db), c \in Run \ Present(db),
             ob \in Owner, oc \in Owner, q \in Request :
          /\ b # c
          /\ WaitingCount(db) + 2 <= WaitingLimit
          /\ new = Inserted(Inserted(db, b, ob, q, n), c, oc, q, n + 1)
    BY <1>3 DEF AppendsPair
  <2> DEFINE half == Inserted(db, b, ob, q, n)
  <2>2. QueueOK(half)
    <3>1. n \in Nat /\ n > 0 /\ \A s \in Run : db[s].sequence < n
      BY NextSequenceIsLast DEF QueueOK
    <3> QED
      BY <3>1, InsertedQueueOK
  <2>3. /\ IsFiniteSet(Backlog(half)) /\ OneRunning(half)
        /\ WaitingCount(half) = WaitingCount(db) + 1
    BY <1>1, InsertedBacklog
  <2>4. half[c] = db[c] /\ c \in Run \ Present(half)
    BY <2>1 DEF QueueOK, Inserted, Present
  <2> HIDE DEF half, n
  <2>5. new = Inserted(half, c, oc, q, n + 1)
    BY <2>1 DEF half
  <2>6. /\ IsFiniteSet(Backlog(new)) /\ OneRunning(new)
        /\ WaitingCount(new) = WaitingCount(half) + 1
    BY <2>2, <2>3, <2>4, <2>5, InsertedBacklog DEF QueueOK
  <2> QED
    BY <1>1, <2>1, <2>3, <2>6, BacklogCount DEF BacklogOK
<1>4. CASE Claims(db, new) \/ Settles(db, new)
  <2>1. Backlog(new) \in SUBSET Backlog(db)
    <3>1. CASE Claims(db, new)
      <4>1. PICK r \in Run : Claimable(db, r) /\ new = Claimed(db, r)
        BY <3>1 DEF Claims
      <4>2. r \in Backlog(db) /\ \A s \in Run : s # r => new[s] = db[s]
        BY <1>1, <4>1 DEF Claimable, FirstInLine, Backlog, Claimed
      <4> QED
        BY <4>2 DEF Backlog, Waiting, Running
    <3>2. CASE Settles(db, new)
      BY <3>2 DEF Settles, SettlesRunning, Backlog, Waiting, Running
    <3> QED
      BY <1>4, <3>1, <3>2
  <2>2. /\ IsFiniteSet(Backlog(new))
        /\ Cardinality(Backlog(new)) <= Cardinality(Backlog(db))
    BY <1>1, <2>1, FS_Subset
  <2>3. Cardinality(Backlog(new)) \in Nat /\ Cardinality(Backlog(db)) \in Nat
    BY <1>1, <2>2, FS_CardinalityType
  <2> QED
    BY <1>1, <2>2, <2>3 DEF BacklogOK
<1> QED
  BY <1>2, <1>3, <1>4

LEMMA BacklogAlwaysOK == StoreSpec => []BacklogOK(rows)
<1>1. StoreInit => BacklogOK(rows)
  <2> SUFFICES ASSUME StoreInit PROVE BacklogOK(rows)
    OBVIOUS
  <2>1. Backlog(rows) = {}
    BY DEF StoreInit, NoRow, Backlog, Waiting, Running
  <2> QED
    BY <2>1, FS_EmptySet, StoreAssumption DEF BacklogOK
<1>2. QueueOK(rows) /\ BacklogOK(rows) /\ [StoreNext]_storeVars
        => BacklogOK(rows)'
  <2> SUFFICES ASSUME QueueOK(rows), BacklogOK(rows), [StoreNext]_storeVars
               PROVE  BacklogOK(rows')
    OBVIOUS
  <2>1. CASE StoreNext
    BY <2>1, StoreStep, StepBacklogOK DEF QueueOK
  <2>2. CASE UNCHANGED storeVars
    BY <2>2 DEF storeVars
  <2> QED
    BY <2>1, <2>2
<1> QED
  BY <1>1, <1>2, QueueAlwaysOK, PTL DEF StoreSpec

(* The waiting runs and the running one are never more than the limit      *)
(* plus one: a requeue can overfill the queue by one run at most.          *)
THEOREM BacklogBoundedAlways == StoreSpec => []BacklogBounded
<1>1. BacklogOK(rows) => BacklogBounded
  BY DEF BacklogOK, BacklogBounded
<1> QED
  BY <1>1, BacklogAlwaysOK, PTL

-----------------------------------------------------------------------------
(* The identities: who owns a row, and which rows a job owns.              *)

Owned(db, jb) ==
  \A r \in Present(db) :
    /\ db[r].owner \in Owner
    /\ db[r].owner[1] \in Job => jb[db[r].owner[1]] # None

OwnersDistinct(db) ==
  \A r, s \in Present(db) : r # s => db[r].owner # db[s].owner

Children(db, jb, j) ==
  LET b == jb[j].baseline
      c == jb[j].candidate
  IN  /\ b \in Present(db) /\ c \in Present(db)
      /\ db[b].owner = <<j, "baseline">> /\ db[c].owner = <<j, "candidate">>
      /\ db[b].request = jb[j].request /\ db[c].request = jb[j].request
      /\ db[c].sequence = db[b].sequence + 1

Linked(db, jb) ==
  /\ jb \in [Job -> JobRow \cup {None}]
  /\ Owned(db, jb)
  /\ OwnersDistinct(db)
  /\ \A j \in Job : jb[j] # None => Children(db, jb, j)

(* Methods that insert nothing leave every identity as it is.              *)
LEMMA SameIdentityLinked ==
  ASSUME NEW db, NEW new, NEW jb, Linked(db, jb), SameIdentity(db, new)
  PROVE  Linked(new, jb)
<1>1. Present(new) = Present(db)
  BY DEF Present, SameIdentity
<1>2. Present(db) \subseteq Run
  BY DEF Present
<1>3. Owned(new, jb) /\ OwnersDistinct(new)
  BY <1>1, <1>2 DEF Linked, Owned, OwnersDistinct, SameIdentity
<1>4. ASSUME NEW j \in Job, jb[j] # None
      PROVE  Children(new, jb, j)
  BY <1>1, <1>2, <1>4 DEF Linked, Children, SameIdentity
<1> QED
  BY <1>3, <1>4 DEF Linked

(* A public run takes a key no present row has. *)
LEMMA CreateLinked ==
  ASSUME NEW db, db \in [Run -> Row], NEW jb, Linked(db, jb),
         NEW k \in Key, NEW q \in Request, NEW r \in Run \ Present(db), NEW n,
         ~KeyTaken(db, k),
         NEW new, new = Inserted(db, r, <<Public, k>>, q, n)
  PROVE  Linked(new, jb)
<1>1. \A s \in Present(db) : db[s].owner # <<Public, k>>
  BY DEF KeyTaken
<1>2. Present(new) = Present(db) \cup {r}
  BY DEF Inserted, Present, NoRow
<1>3. new[r].owner = <<Public, k>>
  BY DEF Inserted, NoRow
<1>4. \A s \in Present(db) : new[s] = db[s]
  BY DEF Inserted, Present
<1>5. Owned(new, jb)
  <2>1. <<Public, k>> \in Owner /\ <<Public, k>>[1] \notin Job
    BY StoreAssumption DEF Owner
  <2> QED
    BY <1>1, <1>2, <1>3, <1>4, <2>1 DEF Linked, Owned
<1>6. OwnersDistinct(new)
  BY <1>1, <1>2, <1>3, <1>4 DEF Linked, OwnersDistinct
<1>7. ASSUME NEW j \in Job, jb[j] # None
      PROVE  Children(new, jb, j)
  BY <1>1, <1>2, <1>4, <1>7 DEF Linked, Children
<1> QED
  BY <1>1, <1>5, <1>6, <1>7 DEF Linked

(* No present row has the scope of a job that does not exist yet, so its   *)
(* children cannot collide with any row.                                   *)
LEMMA CreateReproducibilityLinked ==
  ASSUME NEW db, db \in [Run -> Row], NEW jb, Linked(db, jb),
         NEW k \in Key, NEW q \in Request, NEW n \in Nat,
         NEW j \in Job, jb[j] = None,
         NEW b \in Run \ Present(db), NEW c \in Run \ Present(db), b # c,
         NEW new, new = Inserted(Inserted(db, b, <<j, "baseline">>, q, n),
                                 c, <<j, "candidate">>, q, n + 1),
         NEW jb2, jb2 = [jb EXCEPT ![j] = [key |-> k, request |-> q,
                                           baseline |-> b, candidate |-> c]]
  PROVE  Linked(new, jb2)
<1>1. /\ new[b].owner = <<j, "baseline">> /\ new[c].owner = <<j, "candidate">>
      /\ new[b].request = q /\ new[c].request = q
      /\ new[b].sequence = n /\ new[c].sequence = n + 1
      /\ new[b].status = "QUEUED" /\ new[c].status = "QUEUED"
  BY DEF Inserted, NoRow
<1>2. \A s \in Run \ {b, c} : new[s] = db[s]
  BY DEF Inserted
<1>3. Present(new) = Present(db) \cup {b, c}
  BY <1>1, <1>2 DEF Present
<1>4. \A s \in Present(db) : new[s] = db[s] /\ db[s].owner[1] # j
  BY <1>2 DEF Linked, Owned, Present
<1>5. /\ jb2 \in [Job -> JobRow \cup {None}]
      /\ jb2[j] # None
      /\ jb2[j] = [key |-> k, request |-> q, baseline |-> b, candidate |-> c]
      /\ \A i \in Job \ {j} : jb2[i] = jb[i]
  <2>1. [key |-> k, request |-> q, baseline |-> b, candidate |-> c] \in JobRow
    BY DEF JobRow
  <2>2. None \notin JobRow
    BY StoreAssumption
  <2> QED
    BY <2>1, <2>2 DEF Linked
<1>6. Owned(new, jb2)
  <2>1. <<j, "baseline">> \in Owner /\ <<j, "candidate">> \in Owner
    BY DEF Owner
  <2>2. \A s \in Present(db) :
          db[s].owner[1] \in Job => jb2[db[s].owner[1]] # None
    BY <1>4, <1>5 DEF Linked, Owned
  <2> QED
    BY <1>1, <1>3, <1>4, <1>5, <2>1, <2>2 DEF Linked, Owned
<1>7. OwnersDistinct(new)
  <2>1. \A s \in Present(db) : /\ new[s].owner # <<j, "baseline">>
                                 /\ new[s].owner # <<j, "candidate">>
    BY <1>4
  <2> QED
    BY <1>1, <1>3, <1>4, <2>1 DEF Linked, OwnersDistinct
<1>8. ASSUME NEW i \in Job, jb2[i] # None
       PROVE  Children(new, jb2, i)
  <2>1. CASE i = j
    BY <1>1, <1>3, <1>5, <2>1 DEF Children
  <2>2. CASE i # j
    <3>1. jb2[i] = jb[i] /\ jb[i] # None
      BY <1>5, <1>8, <2>2
    <3>2. Children(db, jb, i)
      BY <3>1 DEF Linked
    <3>3. \A s \in Present(db) : new[s] = db[s] /\ s \in Present(new)
      BY <1>3, <1>4
    <3> QED
      BY <3>1, <3>2, <3>3 DEF Children
  <2> QED
    BY <2>1, <2>2
<1> QED
  BY <1>5, <1>6, <1>7, <1>8 DEF Linked

LEMMA StepLinked ==
  ASSUME QueueOK(rows), Linked(rows, jobs), StoreNext
  PROVE  Linked(rows', jobs')
<1> rows \in [Run -> Row]
  BY DEF QueueOK
<1>1. ASSUME NEW k \in Key, NEW q \in Request, Create(k, q)
      PROVE  Linked(rows', jobs')
  <2>1. PICK r \in Run \ Present(rows) :
          rows' = Inserted(rows, r, <<Public, k>>, q, NextSequence(rows))
    BY <1>1 DEF Create
  <2>2. jobs' = jobs /\ ~KeyTaken(rows, k)
    BY <1>1 DEF Create
  <2> QED
    BY <2>1, <2>2, CreateLinked
<1>2. ASSUME NEW k \in Key, NEW q \in Request, CreateReproducibility(k, q)
      PROVE  Linked(rows', jobs')
  <2> DEFINE n == NextSequence(rows)
  <2>1. PICK j \in Job, b \in Run \ Present(rows), c \in Run \ Present(rows) :
          /\ jobs[j] = None
          /\ b # c
          /\ rows' = Inserted(Inserted(rows, b, <<j, "baseline">>, q, n),
                              c, <<j, "candidate">>, q, n + 1)
          /\ jobs' = [jobs EXCEPT ![j] = [key |-> k, request |-> q,
                                          baseline |-> b, candidate |-> c]]
    BY <1>2 DEF CreateReproducibility
  <2>2. n \in Nat
    BY NextSequenceIsLast DEF QueueOK
  <2> HIDE DEF n
  <2> QED
    BY <2>1, <2>2, CreateReproducibilityLinked
<1>3. ASSUME NEW r \in Run, ClaimNext(r)
      PROVE  SameIdentity(rows, rows') /\ jobs' = jobs
  BY <1>3, ClaimedQueueOK DEF ClaimNext
<1>4. ASSUME NEW r \in Run, Requeue(r)
      PROVE  SameIdentity(rows, rows') /\ jobs' = jobs
  BY <1>4, RequeuedSettles DEF Requeue, SettlesRunning
<1>5. ASSUME NEW r \in Run, NEW stage \in Stage, Heartbeat(r, stage)
      PROVE  SameIdentity(rows, rows') /\ jobs' = jobs
  BY <1>5, HeartbeatenSettles DEF Heartbeat, SettlesRunning
<1>6. ASSUME NEW r \in Run, NEW status \in {"COMPLETED", "TIMEOUT"},
             NEW report \in Report, NEW receipt \in Report,
             NEW print \in Fingerprint,
             Complete(r, status, report, receipt, print)
      PROVE  SameIdentity(rows, rows') /\ jobs' = jobs
  BY <1>6, CompletedSettles DEF Complete, SettlesRunning
<1>7. ASSUME NEW r \in Run, NEW code \in ErrorCode,
             NEW print \in Fingerprint \cup {None}, SystemError(r, code, print)
      PROVE  SameIdentity(rows, rows') /\ jobs' = jobs
  BY <1>7, SystemErroredSettles DEF SystemError, SettlesRunning
<1>8. ASSUME RecoverInterruptedRuns
      PROVE  SameIdentity(rows, rows') /\ jobs' = jobs
  BY <1>8, RecoveredSettles DEF RecoverInterruptedRuns, SettlesRunning
<1>9. SameIdentity(rows, rows') /\ jobs' = jobs => Linked(rows', jobs')
  BY SameIdentityLinked
<1> QED
  BY <1>1, <1>2, <1>3, <1>4, <1>5, <1>6, <1>7, <1>8, <1>9 DEF StoreNext

THEOREM LinkedAlways == StoreSpec => []Linked(rows, jobs)
<1>1. StoreInit => Linked(rows, jobs)
  <2> SUFFICES ASSUME StoreInit PROVE Linked(rows, jobs)
    OBVIOUS
  <2>1. Present(rows) = {} /\ jobs = [j \in Job |-> None]
    BY DEF StoreInit, NoRow, Present
  <2> QED
    BY <2>1 DEF Linked, Owned, OwnersDistinct
<1>2. QueueOK(rows) /\ Linked(rows, jobs) /\ [StoreNext]_storeVars
        => Linked(rows, jobs)'
  <2> SUFFICES ASSUME QueueOK(rows), Linked(rows, jobs), [StoreNext]_storeVars
               PROVE  Linked(rows', jobs')
    OBVIOUS
  <2>1. CASE StoreNext
    BY <2>1, StepLinked
  <2>2. CASE UNCHANGED storeVars
    BY <2>2 DEF storeVars
  <2> QED
    BY <2>1, <2>2
<1> QED
  BY <1>1, <1>2, QueueAlwaysOK, PTL DEF StoreSpec

(* Every column of both tables always holds a value of its type.           *)
THEOREM StoreTypeOKAlways == StoreSpec => []StoreTypeOK
<1>1. QueueOK(rows) /\ Linked(rows, jobs) => StoreTypeOK
  BY DEF QueueOK, Linked, StoreTypeOK
<1> QED
  BY <1>1, QueueAlwaysOK, LinkedAlways, PTL

(* The UNIQUE constraints of the schema never make an insert fail.         *)
THEOREM UniqueRowsAlways == StoreSpec => []UniqueRows
<1>1. QueueOK(rows) /\ Linked(rows, jobs) => UniqueRows
  BY DEF QueueOK, Linked, OwnersDistinct, UniqueRows, Distinct
<1> QED
  BY <1>1, QueueAlwaysOK, LinkedAlways, PTL

(* Both children of a job carry its request and follow each other, and the *)
(* candidate waits for the end of the baseline.                            *)
THEOREM ChildrenInOrderAlways == StoreSpec => []ChildrenInOrder
<1>1. QueueOK(rows) /\ Linked(rows, jobs) => ChildrenInOrder
  <2> SUFFICES ASSUME QueueOK(rows), Linked(rows, jobs),
                      NEW j \in Job, jobs[j] # None
               PROVE  LET b == jobs[j].baseline
                          c == jobs[j].candidate
                      IN  /\ rows[b].owner = <<j, "baseline">>
                          /\ rows[c].owner = <<j, "candidate">>
                          /\ rows[b].request = jobs[j].request
                          /\ rows[c].request = jobs[j].request
                          /\ rows[c].sequence = rows[b].sequence + 1
                          /\ rows[c].status # "QUEUED"
                               => rows[b].status \in Terminal
    BY DEF ChildrenInOrder
  <2> DEFINE b == jobs[j].baseline
             c == jobs[j].candidate
  <2>1. Children(rows, jobs, j)
    BY DEF Linked
  <2>2. rows[b].sequence \in Nat /\ b \in Present(rows) /\ c \in Present(rows)
    BY <2>1 DEF Children, QueueOK, Present, Row
  <2>3. rows[b].sequence < rows[c].sequence
    BY <2>1, <2>2 DEF Children
  <2>4. rows[c].status # "QUEUED" => rows[b].status \in Terminal
    BY <2>2, <2>3 DEF QueueOK, InTurn
  <2> QED
    BY <2>1, <2>4 DEF Children
<1> QED
  BY <1>1, QueueAlwaysOK, LinkedAlways, PTL

-----------------------------------------------------------------------------
(* What OutcomeConsistent says of the row of one run.                      *)
Consistent(row, r) ==
  /\ row.status \in {"COMPLETED", "TIMEOUT"} =>
       /\ row.report \in Report
       /\ row.report.run = r
       /\ row.report.request = row.request
       /\ row.receipt = row.report
       /\ row.fingerprint # None
       /\ row.error = None
  /\ row.status = "TIMEOUT" => row.report.verdict = "INCONCLUSIVE"
  /\ row.status = "SYSTEM_ERROR" =>
       row.report = None /\ row.receipt = None /\ row.error # None
  /\ row.status \in {"ABSENT", "QUEUED", "RUNNING"} =>
       /\ row.report = None /\ row.receipt = None
       /\ row.fingerprint = None /\ row.error = None
  /\ row.stage # None <=> row.status = "RUNNING"

AllConsistent(db) == \A r \in Run : Consistent(db[r], r)

(* An inserted row has no result yet. *)
LEMMA InsertedConsistent ==
  ASSUME NEW db \in [Run -> Row], AllConsistent(db), NEW r \in Run,
         NEW owner, NEW q, NEW n
  PROVE  AllConsistent(Inserted(db, r, owner, q, n))
<1> DEFINE row == [NoRow EXCEPT !.status = "QUEUED", !.owner = owner,
                                !.request = q, !.sequence = n]
<1>1. Consistent(row, r)
  BY DEF Consistent, NoRow
<1> QED
  BY <1>1 DEF AllConsistent, Inserted

(* claimNext(), requeue(), heartbeat() and systemError() go from one row   *)
(* without a result to another one.                                        *)
LEMMA ClaimedConsistent ==
  ASSUME NEW db \in [Run -> Row], AllConsistent(db), NEW r \in Run, Claimable(db, r)
  PROVE  AllConsistent(Claimed(db, r))
<1> DEFINE row == [db[r] EXCEPT !.status = "RUNNING", !.stage = "SANDBOX"]
<1>1. db[r] \in Row /\ db[r].status = "QUEUED"
  BY DEF Claimable, FirstInLine, Waiting
<1>2. "SANDBOX" # None
  BY StoreAssumption
<1>3. Consistent(row, r)
  BY <1>1, <1>2 DEF Consistent, AllConsistent, Row
<1> QED
  BY <1>3 DEF AllConsistent, Claimed

LEMMA RequeuedConsistent ==
  ASSUME NEW db \in [Run -> Row], AllConsistent(db), NEW r \in Run
  PROVE  AllConsistent(Requeued(db, r))
<1> DEFINE row == [db[r] EXCEPT !.status = "QUEUED", !.stage = None, !.report = None,
                                !.fingerprint = None, !.error = None]
<1>1. ASSUME r \in Running(db) PROVE Consistent(row, r)
  BY <1>1 DEF Consistent, AllConsistent, Row, Running
<1> QED
  BY <1>1 DEF AllConsistent, Requeued

LEMMA HeartbeatenConsistent ==
  ASSUME NEW db \in [Run -> Row], AllConsistent(db), NEW r \in Run, NEW stage \in Stage
  PROVE  AllConsistent(Heartbeaten(db, r, stage))
<1> DEFINE row == [db[r] EXCEPT !.stage = stage]
<1>1. ASSUME r \in Running(db) PROVE Consistent(row, r)
  BY <1>1, StoreAssumption DEF Consistent, AllConsistent, Row, Running
<1> QED
  BY <1>1 DEF AllConsistent, Heartbeaten

LEMMA SystemErroredConsistent ==
  ASSUME NEW db \in [Run -> Row], AllConsistent(db), NEW r \in Run,
         NEW code \in ErrorCode, NEW print
  PROVE  AllConsistent(SystemErrored(db, r, code, print))
<1> DEFINE row == [db[r] EXCEPT !.status = "SYSTEM_ERROR", !.stage = None, !.report = None,
                                !.fingerprint = print, !.error = code]
<1>1. ASSUME r \in Running(db) PROVE Consistent(row, r)
  BY <1>1, StoreAssumption DEF Consistent, AllConsistent, Row, Running
<1> QED
  BY <1>1 DEF AllConsistent, SystemErrored

LEMMA RecoveredConsistent ==
  ASSUME NEW db \in [Run -> Row], AllConsistent(db)
  PROVE  AllConsistent(Recovered(db))
<1>1. ASSUME NEW r \in Run
      PROVE  Consistent(SystemErrored(db, r, "API_RESTARTED", None)[r], r)
  BY SystemErroredConsistent, StoreAssumption DEF AllConsistent
<1> QED
  BY <1>1 DEF AllConsistent, Recovered

(* complete() compares the report with the row before it writes. *)
LEMMA CompletedConsistent ==
  ASSUME NEW db \in [Run -> Row], AllConsistent(db), NEW r \in Run,
         NEW status \in {"COMPLETED", "TIMEOUT"}, NEW report \in Report,
         NEW receipt \in Report, NEW print \in Fingerprint,
         Completable(db, r, status, report, receipt)
  PROVE  AllConsistent(Completed(db, r, status, report, receipt, print))
<1> DEFINE row == [db[r] EXCEPT !.status = status, !.stage = None, !.report = report,
                                !.receipt = receipt, !.fingerprint = print, !.error = None]
<1>1. Consistent(row, r)
  BY StoreAssumption DEF Consistent, Row, Completable
<1> QED
  BY <1>1 DEF AllConsistent, Completed

LEMMA StepConsistent ==
  ASSUME rows \in [Run -> Row], AllConsistent(rows), StoreNext
  PROVE  AllConsistent(rows')
<1>1. ASSUME NEW k \in Key, NEW q \in Request, Create(k, q)
      PROVE  AllConsistent(rows')
  BY <1>1, InsertedConsistent DEF Create
<1>2. ASSUME NEW k \in Key, NEW q \in Request, CreateReproducibility(k, q)
      PROVE  AllConsistent(rows')
  <2> DEFINE n == NextSequence(rows)
  <2>1. PICK j \in Job, b \in Run, c \in Run :
          rows' = Inserted(Inserted(rows, b, <<j, "baseline">>, q, n), c, <<j, "candidate">>, q, n + 1)
    BY <1>2 DEF CreateReproducibility
  <2> HIDE DEF n
  <2>2. AllConsistent(Inserted(rows, b, <<j, "baseline">>, q, n))
    BY InsertedConsistent
  <2>3. \A r \in Run : r # c => rows'[r] = Inserted(rows, b, <<j, "baseline">>, q, n)[r]
    BY <2>1 DEF Inserted
  <2>4. Consistent(rows'[c], c)
    BY <2>1 DEF Inserted, Consistent, NoRow
  <2> QED
    BY <2>2, <2>3, <2>4 DEF AllConsistent
<1>3. ASSUME NEW r \in Run, ClaimNext(r) PROVE AllConsistent(rows')
  BY <1>3, ClaimedConsistent DEF ClaimNext
<1>4. ASSUME NEW r \in Run, Requeue(r) PROVE AllConsistent(rows')
  BY <1>4, RequeuedConsistent DEF Requeue
<1>5. ASSUME NEW r \in Run, NEW stage \in Stage, Heartbeat(r, stage)
      PROVE  AllConsistent(rows')
  BY <1>5, HeartbeatenConsistent DEF Heartbeat
<1>6. ASSUME NEW r \in Run, NEW status \in {"COMPLETED", "TIMEOUT"},
             NEW report \in Report, NEW receipt \in Report, NEW print \in Fingerprint,
             Complete(r, status, report, receipt, print)
      PROVE  AllConsistent(rows')
  BY <1>6, CompletedConsistent DEF Complete
<1>7. ASSUME NEW r \in Run, NEW code \in ErrorCode, NEW print \in Fingerprint \cup {None},
             SystemError(r, code, print)
      PROVE  AllConsistent(rows')
  BY <1>7, SystemErroredConsistent DEF SystemError
<1>8. ASSUME RecoverInterruptedRuns PROVE AllConsistent(rows')
  BY <1>8, RecoveredConsistent DEF RecoverInterruptedRuns
<1> QED
  BY <1>1, <1>2, <1>3, <1>4, <1>5, <1>6, <1>7, <1>8 DEF StoreNext

(* Whatever complete() was given and whenever: a row that says how its run *)
(* ended has the report and the receipt of its own request, and no other   *)
(* row has any.                                                            *)
THEOREM OutcomeAlwaysConsistent == StoreSpec => []OutcomeConsistent
<1>1. StoreInit => AllConsistent(rows)
  BY DEF StoreInit, AllConsistent, Consistent, NoRow
<1>2. rows \in [Run -> Row] /\ AllConsistent(rows) /\ [StoreNext]_storeVars => AllConsistent(rows)'
  <2> SUFFICES ASSUME rows \in [Run -> Row], AllConsistent(rows), [StoreNext]_storeVars
               PROVE  AllConsistent(rows')
    BY DEF AllConsistent
  <2>1. CASE UNCHANGED storeVars
    BY <2>1 DEF storeVars
  <2> QED
    BY <2>1, StepConsistent
<1>3. QueueOK(rows) => rows \in [Run -> Row]
  BY DEF QueueOK
<1>4. AllConsistent(rows) => OutcomeConsistent
  BY DEF AllConsistent, Consistent, OutcomeConsistent
<1> QED
  BY <1>1, <1>2, <1>3, <1>4, QueueAlwaysOK, PTL DEF StoreSpec

(* The queue is sound for any number of runs, jobs and keys, any limit     *)
(* and any order of calls.                                                 *)
THEOREM QueueAlwaysSound == StoreSpec => []QueueIsSound
<1>1. SingleRunning /\ NoOvertaking /\ BacklogBounded /\ UniqueRows => QueueIsSound
  BY DEF QueueIsSound
<1> QED
  BY <1>1, SingleRunningAlways, NoOvertakingAlways, BacklogBoundedAlways, UniqueRowsAlways, PTL
=============================================================================
