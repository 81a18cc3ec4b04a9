------------------------------- MODULE Periphery -------------------------------
(***************************************************************************)
(* What is asked of the parts that stand around the service, taken         *)
(* together: its pages, its start, the inspection of repositories and the  *)
(* commands it runs.  The parts share no variable.                         *)
(***************************************************************************)
EXTENDS RunPage, ComparisonPage, EvidencePage, Migrations, Inspection, ProcessCommand

(* Every variable of every part has its type. *)
PeripheryTypeOK ==
  /\ RunPageTypeOK
  /\ ComparisonPageTypeOK
  /\ EvidencePageTypeOK
  /\ MigrationsTypeOK
  /\ InspectionTypeOK
  /\ ProcessTypeOK

(* Late answers and quick clicks: no page shows a comparison, or the     *)
(* verification of an archive, of another route or selection than its    *)
(* own, and one that verifies waits for its own.  The run page shows     *)
(* what it showed before a navigation until the first poll of the new    *)
(* route has come to something; from then on it shows the run of its     *)
(* route, and stops asking only at its outcome or at the error it shows. *)
PagesShowTheirOwn ==
  /\ TheRouteIsShownOnceHeard
  /\ ComparisonIsOfTheRoute
  /\ ResultIsOfTheSelection
  /\ VerifyingTheSelection

(* A late answer never takes a page to another run or comparison, nor    *)
(* back to an earlier state of the same run.                             *)
PagesOnlyMoveForward ==
  /\ OnlyTheRouteIsShown
  /\ ShownStateAdvances
  /\ ShownIsKept

(* Nothing hangs: pages show an outcome or an error, an intact database  *)
(* is served in the end, inspections and commands end.                   *)
EverythingSettles ==
  /\ OutcomeIsShown
  /\ PageSettles
  /\ VerificationEnds
  /\ EveryStartSucceeds
  /\ InspectionsEnd
  /\ EveryCommandSettles
================================================================================
