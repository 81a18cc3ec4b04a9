------------------------------ MODULE Responses ------------------------------
(***************************************************************************)
(* What the API shows of its tables: inflate() makes a run response out of *)
(* a row, ReproducibilityService makes one response out of the two         *)
(* children of a job.  Both are parsed with the public contract before     *)
(* they leave, and whatever does not pass is an exception, answered with   *)
(* 500 for as long as the row stays as it is.                              *)
(*                                                                         *)
(* The contract is an independent definition of the same responses: this   *)
(* module writes both and lets the store take every step it can.           *)
(***************************************************************************)
EXTENDS RunStore

CONSTANTS
  Unreadable   \* the exception of inflate() or of a schema

(* The responses the contract has types for. *)
RunResponse ==
  [status : Status, verdict : Verdict \cup {"INCONCLUSIVE", None},
   activeStage : Stage \cup {"SANDBOX", None}, queuePosition : Nat,
   report : Report \cup {None}, receipt : Report \cup {None},
   systemError : ErrorCode \cup {None}]

ReasonCode == {"NONDETERMINISTIC_RESULT", "CHILD_RUN_UNAVAILABLE"}

ReproducibilityResponse ==
  [status : {"QUEUED", "RUNNING", "COMPLETED", "INCONCLUSIVE"},
   verdict : Verdict \cup {"INCONCLUSIVE", None},
   reasonCode : ReasonCode \cup {None}, compared : BOOLEAN]

ASSUME ResponsesAssumption ==
  /\ WaitingLimit > 0
  /\ None \notin ReasonCode
  /\ Unreadable \notin RunResponse \cup ReproducibilityResponse \cup {None}

(* The largest queuePosition of the public contract: 5 there, and the      *)
(* limit of the queue.                                                     *)
LastPosition == WaitingLimit

-----------------------------------------------------------------------------
(* Run responses. *)

(* receiptId(): links.receipt of a row, here the report it signs. *)
ReceiptLink(db, r) == db[r].receipt

(* reportFor(): the row's own copy, or the one inside its receipt. *)
ReportFor(db, r) ==
  IF db[r].report # None THEN db[r].report ELSE ReceiptLink(db, r)

Blank == [status |-> "QUEUED", verdict |-> None, activeStage |-> None,
          queuePosition |-> 0, report |-> None, receipt |-> None,
          systemError |-> None]

(* The response inflate() builds.                                          *)
Shown(db, r) ==
  LET row == db[r] IN
  CASE row.status = "QUEUED" ->
         [Blank EXCEPT !.queuePosition = QueuePosition(db, r)]
    [] row.status = "RUNNING" ->
         [Blank EXCEPT !.status = "RUNNING", !.activeStage = row.stage]
    [] row.status = "SYSTEM_ERROR" ->
         [Blank EXCEPT !.status = "SYSTEM_ERROR", !.verdict = "INCONCLUSIVE",
                       !.systemError = row.error]
    [] row.status \in {"COMPLETED", "TIMEOUT"} ->
         [Blank EXCEPT !.status = row.status, !.report = ReportFor(db, r),
                       !.receipt = ReceiptLink(db, r),
                       !.verdict = IF row.status = "TIMEOUT"
                                   THEN "INCONCLUSIVE"
                                   ELSE ReportFor(db, r).verdict]

(* The exceptions inflate() throws itself.                                 *)
Inflatable(db, r) ==
  /\ db[r].status \in {"COMPLETED", "TIMEOUT"} =>
       ReportFor(db, r) # None /\ ReceiptLink(db, r) # None
  /\ db[r].status = "TIMEOUT" => ReportFor(db, r).verdict = "INCONCLUSIVE"

(* RunResponseSchema: one shape per status, and its superRefine().         *)
RunResponseSchema(r, shown) ==
  LET bare == /\ shown.verdict = None /\ shown.report = None
              /\ shown.systemError = None
  IN
  /\ CASE shown.status = "QUEUED" ->
            /\ bare /\ shown.activeStage = None
            /\ shown.queuePosition \in 1..LastPosition
       [] shown.status = "RUNNING" ->
            bare /\ shown.activeStage # None /\ shown.queuePosition = 0
       [] shown.status = "COMPLETED" ->
            /\ shown.verdict \in Verdict /\ shown.report # None
            /\ shown.activeStage = None /\ shown.systemError = None
       [] shown.status = "TIMEOUT" ->
            /\ shown.verdict = "INCONCLUSIVE" /\ shown.report # None
            /\ shown.activeStage = None /\ shown.systemError = None
       [] shown.status = "SYSTEM_ERROR" ->
            /\ shown.verdict = "INCONCLUSIVE" /\ shown.report = None
            /\ shown.activeStage = None /\ shown.systemError # None
  /\ shown.report # None =>
       shown.report.run = r /\ shown.report.verdict = shown.verdict
  /\ shown.receipt # None <=> shown.status \in {"COMPLETED", "TIMEOUT"}

(* inflate(): what every read of a row returns.                            *)
Inflated(db, r) ==
  IF Inflatable(db, r) /\ RunResponseSchema(r, Shown(db, r))
  THEN Shown(db, r)
  ELSE Unreadable

-----------------------------------------------------------------------------
(* Reproducibility responses. *)

(* Fault: the identity of the run is compared as well. *)
FaultyProjection(report) == <<report.run, report.verdict>>

(* projectReproducibilityReport(): what two reports are compared by.       *)
Projection(report) == report.verdict

Pending == [status |-> "QUEUED", verdict |-> None, reasonCode |-> None,
            compared |-> FALSE]

(* What is made of two children that have ended. *)
Concluded(baseline, candidate) ==
  IF baseline.report = None \/ candidate.report = None
  THEN [Pending EXCEPT !.status = "INCONCLUSIVE", !.verdict = "INCONCLUSIVE",
                       !.reasonCode = "CHILD_RUN_UNAVAILABLE"]
  ELSE IF Projection(baseline.report) # Projection(candidate.report)
  THEN [Pending EXCEPT !.status = "INCONCLUSIVE", !.verdict = "INCONCLUSIVE",
                       !.reasonCode = "NONDETERMINISTIC_RESULT",
                       !.compared = TRUE]
  ELSE [Pending EXCEPT !.status = "COMPLETED", !.compared = TRUE,
                       !.verdict = baseline.report.verdict]

(* Fault: a child that has ended settles the job. *)
FaultySummary(baseline, candidate) ==
  LET unfinished == {"QUEUED", "RUNNING"}
  IN  CASE baseline.status = "QUEUED" /\ candidate.status = "QUEUED" -> Pending
        [] baseline.status \in unfinished /\ candidate.status \in unfinished
             /\ "RUNNING" \in {baseline.status, candidate.status} ->
             [Pending EXCEPT !.status = "RUNNING"]
        [] OTHER -> Concluded(baseline, candidate)

(* responseFor() *)
Summary(baseline, candidate) ==
  LET statuses == {baseline.status, candidate.status}
  IN  CASE statuses = {"QUEUED"} -> Pending
        [] statuses \cap {"QUEUED", "RUNNING"} # {} /\ statuses # {"QUEUED"} ->
             [Pending EXCEPT !.status = "RUNNING"]
        [] OTHER -> Concluded(baseline, candidate)

(* ReproducibilityResponseSchema, the refinement of its children included. *)
ReproducibilityResponseSchema(summary, baseline, candidate) ==
  /\ \A child \in {baseline, candidate} :
       child.status \in {"COMPLETED", "TIMEOUT"} <=> child.receipt # None
  /\ CASE summary.status \in {"QUEUED", "RUNNING"} ->
            /\ summary.verdict = None /\ summary.reasonCode = None
            /\ ~summary.compared
       [] summary.status = "COMPLETED" ->
            summary.verdict \in Verdict /\ summary.compared
       [] summary.status = "INCONCLUSIVE" ->
            /\ summary.verdict = "INCONCLUSIVE"
            /\ summary.reasonCode \in ReasonCode

(* ReproducibilityService.get(), on top of getReproducibility() and        *)
(* inflateReproducibility().                                               *)
Reproduced(db, job) ==
  LET baseline == Inflated(db, job.baseline)
      candidate == Inflated(db, job.candidate)
      summary == Summary(baseline, candidate)
  IN  IF /\ baseline # Unreadable /\ candidate # Unreadable
         /\ db[job.baseline].request = job.request
         /\ db[job.candidate].request = job.request
         /\ ReproducibilityResponseSchema(summary, baseline, candidate)
      THEN summary
      ELSE Unreadable

-----------------------------------------------------------------------------
Overfull == WaitingCount(rows) > LastPosition

(* Whatever the store has been made to write can be shown: a run that      *)
(* exists and a job that exists are readable, both schemas accept what     *)
(* they are given.  The one exception is the run that a refused dispatch   *)
(* has pushed beyond the last position (QueuePositionBounded).             *)
EverythingIsReadable ==
  /\ \A r \in Present(rows) :
       Inflated(rows, r) = Unreadable =>
         Overfull /\ QueuePosition(rows, r) > LastPosition
  /\ \A j \in Job :
       jobs[j] # None /\ Reproduced(rows, jobs[j]) = Unreadable => Overfull

Settled(summary) ==
  summary # Unreadable /\ summary.status \in {"COMPLETED", "INCONCLUSIVE"}

(* The answer for a job is final once it is COMPLETED or INCONCLUSIVE:     *)
(* whoever stops polling there has seen the last word, and later failures, *)
(* recoveries and other runs never change or hide it.                      *)
SettledIsFinal ==
  [][\A j \in Job :
       jobs[j] # None /\ Settled(Reproduced(rows, jobs[j]))
         => Reproduced(rows', jobs'[j]) = Reproduced(rows, jobs[j])]_storeVars

(* COMPLETED means what it claims: two different runs of the job's request *)
(* ended with a signed report each, and the reports agree in everything    *)
(* but the run.  Without two reports, or with two that disagree, the job   *)
(* says which of the two it is.                                            *)
SummaryIsJustified ==
  \A j \in Job : jobs[j] # None =>
    LET job == jobs[j]
        summary == Reproduced(rows, job)
        b == rows[job.baseline].report
        c == rows[job.candidate].report
        agree == [b EXCEPT !.run = job.candidate] = c
    IN  Settled(summary) =>
          /\ job.baseline # job.candidate
          /\ summary.status = "COMPLETED" <=> b # None /\ c # None /\ agree
          /\ summary.reasonCode = "NONDETERMINISTIC_RESULT"
               <=> b # None /\ c # None /\ ~agree
          /\ b # None => b = rows[job.baseline].receipt
          /\ c # None => c = rows[job.candidate].receipt

(* What the API shows of the tables is readable and justified: every      *)
(* response fits its schema, and no job claims more than its runs can     *)
(* show.                                                                  *)
ResponsesAreSound == EverythingIsReadable /\ SummaryIsJustified
=============================================================================
