----------------------------- MODULE MCRunStore -----------------------------
(***************************************************************************)
(* The store on its own, under a caller that invokes any method at any     *)
(* moment, and the two things the API makes of what is stored: responses,  *)
(* and comparisons of receipts.  A behaviour is one of the store or one of *)
(* the comparisons, whose view of the rows is another one; the other part  *)
(* rests, empty.                                                           *)
(***************************************************************************)
EXTENDS StoreViews, TLC

CONSTANTS r1, r2, r3, r4, f1, f2, q1, q2

VARIABLE part

MCRun == {r1, r2, r3, r4}
MCFingerprint == {f1, f2}

-----------------------------------------------------------------------------
(* Reports differ in subject, in runtime or else in what they found; two   *)
(* of the contracts ask for the same in another order.                     *)
MCSubjects == {[repository |-> 1, skill |-> 1], [repository |-> 2, skill |-> 1], [repository |-> 1, skill |-> 2]}

MCContracts ==
  {[criteria |-> <<"build", "test">>, prohibitions |-> <<"network">>],
   [criteria |-> <<"test", "build">>, prohibitions |-> <<"network">>],
   [criteria |-> <<"build", "test">>, prohibitions |-> << >>]}

MCReport(subject, runtime, verdict, checks, artifacts) ==
  [subject |-> subject, runtime |-> runtime, verdict |-> verdict, checks |-> checks, artifacts |-> artifacts]

Same == [repository |-> 1, skill |-> 1]

MCReports ==
  LET drafts ==
        {MCReport(subject, 1, "PASS", [build |-> "PASSED"], {}) : subject \in MCSubjects}
          \union {MCReport(Same, 2, "PASS", [build |-> "PASSED"], {})}
          \union {MCReport(Same, 1, verdict, [build |-> outcome], {}) : verdict \in PublicVerdict, outcome \in CheckOutcome}
          \union {MCReport(Same, 1, "FAIL", [build |-> "PASSED", test |-> "FAILED"], {})}
          \union {MCReport(Same, 1, verdict, [build |-> "FAILED", test |-> "INCONCLUSIVE"], {}) :
                    verdict \in {"FAIL", "INCONCLUSIVE"}}
          \union {MCReport(Same, 1, "FAIL", [build |-> "FAILED", test |-> "INCONCLUSIVE"], {<<"dist", "digest">>})}
  IN  {report \in drafts : ComparedReportSchema(report)}

-----------------------------------------------------------------------------
(* Four runs are needed to fill the queue behind a running one, and then   *)
(* what the queue does not look at is the same for all of them.            *)
Few == Cardinality(Present(rows)) <= 3
Uniform ==
  \A r \in Run :
    /\ rows[r].request \in {q1, None} /\ rows[r].stage \in {"SANDBOX", None}
    /\ rows[r].report # None => rows[r].report.verdict = "INCONCLUSIVE"
    /\ rows[r].fingerprint \in {f1, None} /\ rows[r].error \in {"API_RESTARTED", None}

(* Three runs are enough for a chain of comparisons.                       *)
ThreeCompared == Cardinality({r \in ComparedRuns : runRows[r] # None}) <= 3

Init ==
  /\ part \in {"store", "comparison"}
  /\ StoreInit /\ ComparisonInit

Next ==
  /\ UNCHANGED part
  /\ \/ part = "store" /\ StoreNext /\ (Few \/ Uniform)' /\ UNCHANGED comparisonVars
     \/ part = "comparison" /\ ComparisonNext /\ ThreeCompared' /\ UNCHANGED storeVars

vars == <<part, storeVars, comparisonVars>>

Spec == Init /\ [][Next]_vars

(* Runs and fingerprints are only ever compared with each other.           *)
Interchangeable == Permutations(MCRun) \cup Permutations(MCFingerprint)
=============================================================================
