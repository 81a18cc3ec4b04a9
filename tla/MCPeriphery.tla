------------------------------ MODULE MCPeriphery ------------------------------
(***************************************************************************)
(* What stands around the service: its pages, its start, the inspection of *)
(* repositories and the commands it runs.  A behaviour is one of a single  *)
(* part, while the others rest in a state where nothing of theirs is due:  *)
(* the parts share no variable, so nothing is lost by not interleaving     *)
(* them.                                                                   *)
(***************************************************************************)
EXTENDS Periphery

CONSTANTS a, b, commit1, commit2

VARIABLE part

-----------------------------------------------------------------------------
(* Two commits, one with a good tree, the other with any of some twenty:   *)
(* the good one, and what differs from it in one respect, or in the two    *)
(* that belong together.                                                   *)
MCCommits == {commit1, commit2}

Manifest == [kind |-> "object", lifecycle |-> FALSE, manager |-> None,
             node |-> None, build |-> "tsc", typescript |-> FALSE]
NpmOnly == [f \in InspectedFiles |-> IF f = "package-lock.json" THEN "" ELSE None]

Tree(manifest, found, obstacle) == [manifest |-> manifest, files |-> found, obstacle |-> obstacle]
GoodTree == Tree(Manifest, NpmOnly, None)

MCTrees ==
  {Tree([kind |-> kind], NpmOnly, None) : kind \in {"absent", "invalid", "null"}}
    \union {Tree([Manifest EXCEPT !.manager = manager], NpmOnly, None) :
              manager \in {None, "npm", "pnpm", "", "object"}}
    \union {Tree([Manifest EXCEPT !.lifecycle = TRUE], NpmOnly, None)}
    \union {Tree([Manifest EXCEPT !.build = ""], NpmOnly, None)}
    \union {Tree([Manifest EXCEPT !.node = ""], NpmOnly, None)}
    \union {Tree([Manifest EXCEPT !.manager = manager],
                 [NpmOnly EXCEPT !["package-lock.json"] = npm, !["pnpm-lock.yaml"] = pnpm], None) :
              manager \in {None, "pnpm"}, npm \in {None, "22"}, pnpm \in {None, "22"}}
    \union {Tree(Manifest, [NpmOnly EXCEPT !["tsconfig.json"] = "", ![".nvmrc"] = nvmrc], None) :
              nvmrc \in {"", "22"}}
    \union {Tree(Manifest, NpmOnly, obstacle) : obstacle \in {"SYMLINKS_UNSUPPORTED", "GIT_LFS_UNSUPPORTED"}}

-----------------------------------------------------------------------------
(* Every run has ended and nobody looks; no run is compared; every process *)
(* serves; the inspection was unavailable; the command was never started.  *)
RunPageRests ==
  /\ server = [id \in Ids |-> [status |-> "COMPLETED", version |-> 2]]
  /\ route = None /\ visits = <<>> /\ shownRun = NoRun /\ pollError = 0 /\ lost = 0

ComparisonPageRests ==
  comparisonRoute = None /\ comparisonState = RouteChanged(None) /\ requests = <<>> /\ effectPending = FALSE

MigrationsRest ==
  /\ schema = UNION {Objects(v) : v \in Version} /\ recorded = Version
  /\ position = [p \in Processes |-> Serving] /\ looked = [p \in Processes |-> None] /\ crashes = 0

InspectionRests ==
  /\ tree = [c \in Commits |-> GoodTree] /\ branch = commit1 /\ heads = {commit1}
  /\ at = "done" /\ commit = None /\ received = [f \in {} |-> None]
  /\ answer = Unavailable /\ runOutcome = None

(* Each run ends in one way, and only the first may be requeued: what the  *)
(* page does depends on whether a run has ended, not on how.               *)
FewStates ==
  /\ server[a].status \notin {"TIMEOUT", "SYSTEM_ERROR"}
  /\ server[b].status \notin {"COMPLETED", "TIMEOUT"}
  /\ server[b].status = "QUEUED" => server[b].version = 0

Init ==
  /\ part \in {"run page", "comparison page", "evidence page", "migrations", "inspection", "command"}
  /\ IF part = "run page" THEN RunPageInit ELSE RunPageRests
  /\ IF part = "comparison page" THEN ComparisonPageInit ELSE ComparisonPageRests
  /\ EvidencePageInit
  /\ IF part = "migrations" THEN MigrationsInit ELSE MigrationsRest
  /\ IF part = "inspection" THEN InspectionInit /\ GoodTree \in {tree[c] : c \in Commits} ELSE InspectionRests
  /\ ProcessInit /\ (part # "command" => aborted /\ child = "unborn")

pageVars == <<runPageVars, comparisonPageVars, evidencePageVars>>

Next ==
  /\ UNCHANGED part
  /\ \/ /\ part = "run page" /\ RunPageNext /\ FewStates'
        /\ UNCHANGED <<comparisonPageVars, evidencePageVars, migrationsVars, inspectionVars, processVars>>
     \/ /\ part = "comparison page" /\ ComparisonPageNext
        /\ UNCHANGED <<runPageVars, evidencePageVars, migrationsVars, inspectionVars, processVars>>
     \/ /\ part = "evidence page" /\ EvidencePageNext
        /\ UNCHANGED <<runPageVars, comparisonPageVars, migrationsVars, inspectionVars, processVars>>
     \/ /\ part = "migrations" /\ MigrationsNext
        /\ UNCHANGED <<pageVars, inspectionVars, processVars>>
     \/ /\ part = "inspection" /\ InspectionNext
        /\ UNCHANGED <<pageVars, migrationsVars, processVars>>
     \/ /\ part = "command" /\ ProcessNext
        /\ UNCHANGED <<pageVars, migrationsVars, inspectionVars>>

vars == <<part, pageVars, migrationsVars, inspectionVars, processVars>>

Spec ==
  /\ Init /\ [][Next]_vars
  /\ RunPageFairness /\ ComparisonPageFairness /\ EvidencePageFairness
  /\ MigrationsFairness /\ InspectionFairness /\ ProcessFairness
===============================================================================
