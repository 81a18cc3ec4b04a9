------------------------------ MODULE Comparison ------------------------------
(***************************************************************************)
(* Comparing the receipts of two runs.  A comparison is computed for every *)
(* request from what the two stores hold then: the receipts, and beside    *)
(* them the contracts, which no receipt signs.                             *)
(*                                                                         *)
(* The payload of a receipt names its run, so its hash is that of no other *)
(* receipt, and stands here as the run itself; the version of the public   *)
(* contract is a literal that every report and request carries.            *)
(***************************************************************************)
EXTENDS Schema

CONSTANTS
  ComparedRuns,
  Subjects,            \* what is verified: [repository, skill]
  ComparedContracts,   \* [criteria, prohibitions], two sequences; their subject is the run's
  ComparedReports      \* what runs may report

CheckOutcome == {"PASSED", "FAILED", "INCONCLUSIVE", "SKIPPED"}

(* checks is a function from the ids of the checks to their outcomes, and  *)
(* artifacts the set of ids with their digests.                            *)
ComparedReportSchema(report) ==
  LET outcomes == {report.checks[id] : id \in DOMAIN report.checks}
  IN  /\ report.subject \in Subjects /\ report.verdict \in PublicVerdict
      /\ outcomes # {} /\ outcomes \subseteq CheckOutcome
      /\ report.verdict = "PASS" => outcomes \subseteq {"PASSED", "SKIPPED"}
      /\ report.verdict = "FAIL" => "FAILED" \in outcomes
      /\ report.verdict = "INCONCLUSIVE" => "INCONCLUSIVE" \in outcomes

ASSUME ReportsAssumption == \A report \in ComparedReports : ComparedReportSchema(report)
ASSUME SubjectsAssumption ==
  \A s \in Subjects : s = [repository |-> s.repository, skill |-> s.skill]
ASSUME NoneAssumption == None \notin ComparedContracts /\ None \notin CheckOutcome

VARIABLES
  runRows,       \* of each run: its subject and its contract
  receipts    \* of each run: the runs its payload and its report name, and the report

comparisonVars == <<runRows, receipts>>

Rows == [subject : Subjects, contract : ComparedContracts \union {None}]
ComparableReceipts == [id : ComparedRuns, runId : ComparedRuns, report : ComparedReports]

ASSUME NoRowAssumption == None \notin Rows /\ None \notin ComparableReceipts

ComparisonInit ==
  /\ runRows = [r \in ComparedRuns |-> None]
  /\ receipts = [r \in ComparedRuns |-> None]

(* Fault: the row of a run is written again. *)
FaultyCreateRow(r) ==
  /\ \E new \in Rows : runRows' = [runRows EXCEPT ![r] = new]
  /\ UNCHANGED receipts
(* create() of RunStore. *)
CreateRow(r) ==
  /\ runRows[r] = None
  /\ \E new \in Rows : runRows' = [runRows EXCEPT ![r] = new]
  /\ UNCHANGED receipts

(* complete() of RunStore and save() of ReceiptStore, with a report of the *)
(* row's subject; save() writes the row of a run that has none, and the    *)
(* row it writes has no contract.                                          *)
Issue(r) ==
  /\ receipts[r] = None
  /\ \E report \in ComparedReports :
       /\ receipts' = [receipts EXCEPT ![r] = [id |-> r, runId |-> r, report |-> report]]
       /\ IF runRows[r] = None
          THEN runRows' = [runRows EXCEPT ![r] = [subject |-> report.subject, contract |-> None]]
          ELSE runRows[r].subject = report.subject /\ UNCHANGED runRows

ComparisonNext == \E r \in ComparedRuns : CreateRow(r) \/ Issue(r)

ComparisonSpec == ComparisonInit /\ [][ComparisonNext]_comparisonVars

-----------------------------------------------------------------------------
Elements(seq) == {seq[k] : k \in DOMAIN seq}

(* Lists that are sorted by unique ids are the same when the sets are. *)
ContractCompatibilityProjection(contract) ==
  IF contract = None THEN None
  ELSE [criteria |-> Elements(contract.criteria), prohibitions |-> Elements(contract.prohibitions)]

Flag(condition, flag) == IF condition THEN {flag} ELSE {}

(* Fault: an absent contract goes with any. *)
FaultyCompatibilityReasons(left, right, leftContract, rightContract) ==
  Flag(left.subject.repository # right.subject.repository, "REPOSITORY_MISMATCH")
    \union Flag(/\ None \notin {leftContract, rightContract}
                /\ ContractCompatibilityProjection(leftContract)
                     # ContractCompatibilityProjection(rightContract), "CONTRACT_MISMATCH")
    \union Flag(left.subject.skill # right.subject.skill, "SKILL_MISMATCH")
    \union Flag(left.runtime # right.runtime, "RUNTIME_MISMATCH")
(* Fault: the hash of the skill does not count. *)
LooseCompatibilityReasons(left, right, leftContract, rightContract) ==
  Flag(left.subject.repository # right.subject.repository, "REPOSITORY_MISMATCH")
    \union Flag(ContractCompatibilityProjection(leftContract)
                  # ContractCompatibilityProjection(rightContract), "CONTRACT_MISMATCH")
    \union Flag(left.runtime # right.runtime, "RUNTIME_MISMATCH")
CompatibilityReasons(left, right, leftContract, rightContract) ==
  Flag(left.subject.repository # right.subject.repository, "REPOSITORY_MISMATCH")
    \union Flag(ContractCompatibilityProjection(leftContract)
                  # ContractCompatibilityProjection(rightContract), "CONTRACT_MISMATCH")
    \union Flag(left.subject.skill # right.subject.skill, "SKILL_MISMATCH")
    \union Flag(left.runtime # right.runtime, "RUNTIME_MISMATCH")

IsNonPassing(outcome) == outcome \in {"FAILED", "INCONCLUSIVE", "SKIPPED"}

OutcomeOf(report, id) == IF id \in DOMAIN report.checks THEN report.checks[id] ELSE None

(* Fault: only a failure of a check that passed is new. *)
FaultyClassification(left, right) ==
  IF left = None THEN "ADDED"
  ELSE IF right = None THEN "REMOVED"
  ELSE IF IsNonPassing(left) /\ ~IsNonPassing(right) THEN "RESOLVED"
  ELSE IF ~IsNonPassing(left) /\ right = "FAILED" THEN "NEW" ELSE "UNCHANGED"
(* Of a check with at least one outcome. *)
Classification(left, right) ==
  IF left = None THEN "ADDED"
  ELSE IF right = None THEN "REMOVED"
  ELSE IF IsNonPassing(left) = IsNonPassing(right) THEN "UNCHANGED"
  ELSE IF IsNonPassing(left) THEN "RESOLVED" ELSE "NEW"

CompareChecks(left, right) ==
  [id \in DOMAIN left.checks \union DOMAIN right.checks |->
     [classification   |-> Classification(OutcomeOf(left, id), OutcomeOf(right, id)),
      baselineOutcome  |-> OutcomeOf(left, id),
      candidateOutcome |-> OutcomeOf(right, id)]]

SetDrift(check) == check.classification \in {"ADDED", "REMOVED"}

(* Fault: an outcome drifts when its classification says so. *)
FaultyOutcomeDrift(check) == check.classification \in {"RESOLVED", "NEW"}
OutcomeDrift(check) ==
  /\ None \notin {check.baselineOutcome, check.candidateOutcome}
  /\ check.baselineOutcome # check.candidateOutcome

DriftLabels(left, right, checks) ==
  Flag(left.verdict # right.verdict, "VERDICT_DRIFT")
    \union Flag(\E id \in DOMAIN checks : SetDrift(checks[id]), "CHECK_SET_DRIFT")
    \union Flag(\E id \in DOMAIN checks : OutcomeDrift(checks[id]), "CHECK_OUTCOME_DRIFT")
    \union Flag(left.artifacts # right.artifacts, "ARTIFACT_DRIFT")

Side(signed) ==
  [runId |-> signed.runId, verdict |-> signed.report.verdict, receipt |-> signed]

(* One block for both sides, taken from the baseline. *)
Compatibility(report, contract) ==
  [subject |-> report.subject, runtime |-> report.runtime,
   verificationContract |-> ContractCompatibilityProjection(contract)]

(* What ComparisonResponseSchema asks of each side: a response it refuses  *)
(* is no answer but an internal error.                                     *)
ComparisonResponseSchema(response) ==
  \A side \in {response.baseline, response.candidate} :
    /\ side.runId = side.receipt.runId /\ side.receipt.id = side.runId
    /\ side.verdict = side.receipt.report.verdict
    /\ response.compatibility.subject = side.receipt.report.subject
    /\ response.compatibility.runtime = side.receipt.report.runtime

Response(baseline, candidate) ==
  LET left == baseline.report
      right == candidate.report
      checks == CompareChecks(left, right)
  IN  [baseline |-> Side(baseline), candidate |-> Side(candidate),
       compatibility |-> Compatibility(left, runRows[baseline.runId].contract),
       checks |-> checks, driftLabels |-> DriftLabels(left, right, checks)]

(* By run-id or by receipt-hash: each finds the receipt that names the run. *)
Resolve(r) == receipts[r]

ComparisonAnswer(status, reasons, response) == [status |-> status, reasons |-> reasons, response |-> response]

CompareVerifiedReceipts(baseline, candidate) ==
  LET reasons == CompatibilityReasons(baseline.report, candidate.report,
                                      runRows[baseline.runId].contract, runRows[candidate.runId].contract)
      response == Response(baseline, candidate)
  IN  IF reasons # {} THEN ComparisonAnswer(422, reasons, None)
      ELSE IF ComparisonResponseSchema(response) THEN ComparisonAnswer(200, {}, response)
      ELSE ComparisonAnswer(500, {}, None)

Compare(b, c) ==
  IF None \in {Resolve(b), Resolve(c)}
  THEN ComparisonAnswer(404, {}, None)
  ELSE CompareVerifiedReceipts(Resolve(b), Resolve(c))

-----------------------------------------------------------------------------
(* Rows and receipts keep their shapes: each receipt names its run, and    *)
(* its report is of the subject of the row.                                *)
ComparisonTypeOK ==
  /\ runRows \in [ComparedRuns -> Rows \union {None}]
  /\ receipts \in [ComparedRuns -> ComparableReceipts \union {None}]
  /\ \A r \in ComparedRuns : receipts[r] # None =>
       /\ runRows[r] # None /\ receipts[r].id = r /\ receipts[r].runId = r
       /\ receipts[r].report.subject = runRows[r].subject

(* One block tells what both sides have in common and is taken from the    *)
(* baseline, while the schema compares it with both receipts: what the     *)
(* reasons let through, the schema never refuses (compareVerifiedReceipts). *)
AnswersAreValid == \A b, c \in ComparedRuns : Compare(b, c).status # 500

Mirror(classification) ==
  CASE classification = "ADDED" -> "REMOVED"
    [] classification = "REMOVED" -> "ADDED"
    [] classification = "RESOLVED" -> "NEW"
    [] classification = "NEW" -> "RESOLVED"
    [] OTHER -> "UNCHANGED"

(* The other way round, a comparison tells the same story backwards: the   *)
(* same refusal for the same reasons, or the mirrored classification of    *)
(* each check under the same drift labels.                                 *)
SwappingMirrors ==
  \A b, c \in ComparedRuns :
    LET forth == Compare(b, c)
        back == Compare(c, b)
    IN  /\ forth.status = back.status /\ forth.reasons = back.reasons
        /\ forth.status = 200 =>
             /\ forth.response.driftLabels = back.response.driftLabels
             /\ DOMAIN forth.response.checks = DOMAIN back.response.checks
             /\ \A id \in DOMAIN forth.response.checks :
                  back.response.checks[id].classification
                    = Mirror(forth.response.checks[id].classification)

(* Comparable with one run in the middle is comparable: the chain of runs  *)
(* a user walks through never breaks off for a reason that no link has.    *)
ChainsAreComparable ==
  \A a, b, c \in ComparedRuns :
    Compare(a, b).status = 200 /\ Compare(b, c).status = 200 => Compare(a, c).status = 200

(* A verdict that turns to or from PASS never stands alone: the comparison *)
(* also shows a check that came, went or changed its outcome.  A check     *)
(* that was skipped and now fails is UNCHANGED, so its classification      *)
(* alone would not show it.                                                *)
VerdictDriftIsExplained ==
  \A b, c \in ComparedRuns :
    LET answer == Compare(b, c)
    IN  /\ answer.status = 200
        /\ answer.response.baseline.verdict # answer.response.candidate.verdict
        /\ "PASS" \in {answer.response.baseline.verdict, answer.response.candidate.verdict}
        => answer.response.driftLabels \intersect {"CHECK_SET_DRIFT", "CHECK_OUTCOME_DRIFT"} # {}

(* Comparisons are never an internal error, and agree with each other:     *)
(* the other way round, along a chain, and within one answer.              *)
ComparisonsAreSound ==
  /\ AnswersAreValid
  /\ SwappingMirrors
  /\ ChainsAreComparable
  /\ VerdictDriftIsExplained

(* Once two runs have receipts, their comparison is answered the same way  *)
(* for ever, although half of what it rests on, the contracts, is in no    *)
(* receipt and is looked up anew.                                          *)
ComparisonsStay ==
  [][\A b, c \in ComparedRuns : Compare(b, c).status # 404 => Compare(b, c)' = Compare(b, c)]_comparisonVars
===============================================================================
