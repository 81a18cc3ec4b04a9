------------------------------ MODULE Acceptance ------------------------------
(***************************************************************************)
(* From a signed report to an advisory decision: the contract a caller     *)
(* attached to a run, the coverage evaluateVerificationContract() derives  *)
(* from the run's report, and the decision decideAcceptance() draws.  All  *)
(* of it is computed anew at every read and parsed by schemas that throw.  *)
(*                                                                         *)
(* A contract of version 1 has at most one requirement of each kind, so it *)
(* is a function from the kinds it names to whether they are required.     *)
(***************************************************************************)
EXTENDS Schema, Naturals

CONSTANTS
  OtherCheck,   \* ids of the checks besides "build" and "test"
  Outcome       \* outcomes a check can have

Criterion == {"build", "test-suite"}
Prohibition == {"arbitrary-command", "outbound-network-during-build",
                "outbound-network-during-test"}

CheckId == {"build", "test"} \cup OtherCheck

UnverifiedReason == {"RUN_NOT_TERMINAL", "CHECK_NOT_REPORTED",
                     "CHECK_NOT_EXECUTED", "PLATFORM_CONTROL_NOT_PROVEN"}

ASSUME AcceptanceAssumption ==
  /\ {"PASSED", "FAILED", "SKIPPED", "INCONCLUSIVE"} \subseteq Outcome
  /\ {"build", "test"} \cap OtherCheck = {}
  /\ None \notin Outcome \cup {"ENFORCED", "VIOLATED"} \cup PublicVerdict
                 \cup UnverifiedReason

VARIABLES
  runContract,   \* the requirements, and whether each is required
  runVerdict,    \* of the ended run; None before
  runReport      \* what it says of checks and controls; None without a report

acceptanceVars == <<runContract, runVerdict, runReport>>

(* platformControls: the control a prohibition is proved by.               *)
Control == [kind \in Prohibition |->
  CASE kind = "arbitrary-command"             -> "COMMAND_ALLOWLIST"
    [] kind = "outbound-network-during-build" -> "BUILD_NETWORK_DISABLED"
    [] kind = "outbound-network-during-test"  -> "TEST_NETWORK_DISABLED"]

Controls == {Control[kind] : kind \in Prohibition}

(* VerificationContractSchema: at least one criterion; a prohibition is    *)
(* always required.                                                        *)
Contracts ==
  {c \in UNION {[kinds -> BOOLEAN] : kinds \in SUBSET (Criterion \cup Prohibition)} :
     /\ DOMAIN c \cap Criterion # {}
     /\ \A kind \in DOMAIN c \cap Prohibition : c[kind]}

(* The checks and controls of a report; None is one it does not mention.   *)
Reports == [checks : [CheckId -> Outcome \cup {None}],
            controls : [Controls -> {"ENFORCED", "VIOLATED", None}]]

ASSUME ReportAssumption == None \notin Reports

(* Fault: PASS does not ask how the checks ended. *)
FaultyVerificationReportSchema(v, p) ==
  LET outcomes == {p.checks[id] : id \in CheckId} \ {None}
  IN  /\ outcomes # {}
      /\ v = "FAIL" => "FAILED" \in outcomes
      /\ v = "INCONCLUSIVE" => "INCONCLUSIVE" \in outcomes
      /\ v = "PASS" => \A control \in Controls : p.controls[control] # "VIOLATED"

(* superRefine() of VerificationReportSchema. *)
VerificationReportSchema(v, p) ==
  LET outcomes == {p.checks[id] : id \in CheckId} \ {None}
  IN  /\ outcomes # {}
      /\ v = "PASS" => outcomes \subseteq {"PASSED", "SKIPPED"}
      /\ v = "FAIL" => "FAILED" \in outcomes
      /\ v = "INCONCLUSIVE" => "INCONCLUSIVE" \in outcomes
      /\ v = "PASS" => \A control \in Controls : p.controls[control] # "VIOLATED"
      /\ p.controls["BUILD_NETWORK_DISABLED"] # None => p.checks["build"] # None
      /\ p.controls["TEST_NETWORK_DISABLED"] # None => p.checks["test"] # None

-----------------------------------------------------------------------------
(* evaluateVerificationContract() *)

Unverified(reason) ==
  [status |-> "UNVERIFIED", provenance |-> None, reasonCode |-> reason]

Proved(status, fact) ==
  [status |-> status, provenance |-> fact, reasonCode |-> None]

CriterionCoverage(kind) ==
  LET id == IF kind = "build" THEN "build" ELSE "test"
  IN  IF runReport = None THEN Unverified("RUN_NOT_TERMINAL")
      ELSE IF runReport.checks[id] = None THEN Unverified("CHECK_NOT_REPORTED")
      ELSE IF runReport.checks[id] \in {"PENDING", "RUNNING", "SKIPPED"}
      THEN Unverified("CHECK_NOT_EXECUTED")
      ELSE Proved("EXECUTED", runReport.checks[id])

(* Fault: a control that was violated has been executed, too. *)
FaultyProhibitionCoverage(kind) ==
  IF runReport = None THEN Unverified("RUN_NOT_TERMINAL")
  ELSE IF runReport.controls[Control[kind]] = None
  THEN Unverified("PLATFORM_CONTROL_NOT_PROVEN")
  ELSE Proved("EXECUTED", runReport.controls[Control[kind]])

ProhibitionCoverage(kind) ==
  IF runReport = None THEN Unverified("RUN_NOT_TERMINAL")
  ELSE IF runReport.controls[Control[kind]] = None
  THEN Unverified("PLATFORM_CONTROL_NOT_PROVEN")
  ELSE Proved(IF runReport.controls[Control[kind]] = "ENFORCED"
              THEN "EXECUTED" ELSE "OBSERVED",
              runReport.controls[Control[kind]])

Coverage(kind) ==
  IF kind \in Criterion THEN CriterionCoverage(kind)
                        ELSE ProhibitionCoverage(kind)

(* CriterionCoverageSchema: what it asks of the statuses that are used.    *)
CriterionCoverageSchema(kind, c) ==
  /\ c.status = "EXECUTED" =>
       /\ c.provenance \in Outcome \/ c.provenance = "ENFORCED"
       /\ c.reasonCode = None
  /\ c.status = "OBSERVED" =>
       /\ kind \in Prohibition /\ c.provenance = "VIOLATED"
       /\ c.reasonCode = None
  /\ c.status = "UNVERIFIED" => c.provenance = None /\ c.reasonCode # None

-----------------------------------------------------------------------------
(* decideAcceptance() *)

(* A prohibition of contract c has been seen to be violated.               *)
ProhibitedConditionObserved(c) ==
  \E kind \in DOMAIN c \cap Prohibition : Coverage(kind).status = "OBSERVED"

(* Fault: one executed requirement is enough. *)
FaultyIncomplete(c) ==
  \A kind \in DOMAIN c : c[kind] => Coverage(kind).status # "EXECUTED"

Incomplete(c) ==
  \E kind \in DOMAIN c : c[kind] /\ Coverage(kind).status # "EXECUTED"

(* Fault: an inconclusive run is sent to review before the controls are    *)
(* looked at.                                                              *)
FaultyDecision(c) ==
  CASE runVerdict = "FAIL" -> "REMEDIATE"
    [] runVerdict = "INCONCLUSIVE" -> "HUMAN_REVIEW"
    [] OTHER -> IF ProhibitedConditionObserved(c) THEN "REMEDIATE"
                ELSE IF Incomplete(c) THEN "HUMAN_REVIEW" ELSE "ACCEPT"

Decision(c) ==
  IF runVerdict = "FAIL" \/ ProhibitedConditionObserved(c) THEN "REMEDIATE"
  ELSE IF runVerdict = "INCONCLUSIVE" \/ Incomplete(c) THEN "HUMAN_REVIEW"
  ELSE "ACCEPT"

-----------------------------------------------------------------------------
AcceptanceInit ==
  runContract \in Contracts /\ runVerdict = None /\ runReport = None

(* complete(): a report that has passed its schema. *)
Complete(v, p) ==
  /\ runVerdict = None
  /\ VerificationReportSchema(v, p)
  /\ runVerdict' = v /\ runReport' = p
  /\ UNCHANGED runContract

(* systemError(): a run that ends without a report is inconclusive.        *)
SystemError ==
  /\ runVerdict = None
  /\ runVerdict' = "INCONCLUSIVE"
  /\ UNCHANGED <<runContract, runReport>>

AcceptanceNext ==
  \/ \E v \in PublicVerdict, p \in Reports : Complete(v, p)
  \/ SystemError

AcceptanceSpec == AcceptanceInit /\ [][AcceptanceNext]_acceptanceVars

-----------------------------------------------------------------------------
(* The contract, the verdict and the report have the shapes of theirs.     *)
AcceptanceTypeOK ==
  /\ runContract \in Contracts
  /\ runVerdict \in PublicVerdict \cup {None}
  /\ runReport \in Reports \cup {None}

(* A signed report belongs to a verdict it agrees with; a run that ended   *)
(* without one is inconclusive.                                            *)
ReportIsValid ==
  IF runReport = None
  THEN runVerdict \in {"INCONCLUSIVE", None}
  ELSE runVerdict # None /\ VerificationReportSchema(runVerdict, runReport)

(* The coverage of every requirement passes the schema it is parsed with,  *)
(* so that no report makes its run unreadable.                             *)
CoverageIsValid ==
  \A kind \in DOMAIN runContract : CriterionCoverageSchema(kind, Coverage(kind))

(* ACCEPT is never given for less than it says: the run passed, the check  *)
(* of every required criterion PASSED (that it was executed is not enough, *)
(* a failed check is executed too), and every prohibition was enforced.    *)
AcceptedIsVerified ==
  runVerdict # None /\ Decision(runContract) = "ACCEPT" =>
    /\ runVerdict = "PASS"
    /\ \A kind \in DOMAIN runContract \cap Criterion :
         runContract[kind] =>
           runReport.checks[IF kind = "build" THEN "build" ELSE "test"] = "PASSED"
    /\ \A kind \in DOMAIN runContract \cap Prohibition :
         runReport.controls[Control[kind]] = "ENFORCED"

(* REMEDIATE is returned for FAIL or a condition the contract prohibits    *)
(* and the runner has observed, also in an inconclusive run, and for       *)
(* nothing else.                                                           *)
RemediationIsGrounded ==
  runVerdict # None =>
    (Decision(runContract) = "REMEDIATE"
       <=> \/ runVerdict = "FAIL"
           \/ /\ runReport # None
              /\ \E kind \in DOMAIN runContract \cap Prohibition :
                   runReport.controls[Control[kind]] = "VIOLATED")

(* c asks for everything that d asks for. *)
Stricter(c, d) ==
  /\ DOMAIN d \subseteq DOMAIN c
  /\ \A kind \in DOMAIN d : d[kind] => c[kind]

(* Asking for more never gets a run accepted: a stricter contract is not   *)
(* accepted unless this one is.                                            *)
StricterIsNeverKinder ==
  runVerdict # None =>
    \A c \in Contracts :
      Stricter(c, runContract) /\ Decision(c) = "ACCEPT"
        => Decision(runContract) = "ACCEPT"

(* An evaluation can always be shown, accepts only what was verified,      *)
(* asks for remediation only on evidence, and cannot be improved by        *)
(* asking for more.                                                        *)
AcceptanceIsSound ==
  /\ CoverageIsValid
  /\ AcceptedIsVerified
  /\ RemediationIsGrounded
  /\ StricterIsNeverKinder
=============================================================================
