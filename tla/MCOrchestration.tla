--------------------------- MODULE MCOrchestration ---------------------------
(* Orchestrator, runner and network on small instances.                    *)
EXTENDS Orchestration, TLC

(* Runs, which are also the fingerprints of their results, are only ever   *)
(* compared with each other.                                               *)
Interchangeable == Permutations(Run)

(* Two scenarios in one instance: runs that compete, one crash of the API  *)
(* and the plainest result; or a single run with every kind of result,     *)
(* with heartbeats that announce a stage, and two crashes.                 *)
Competing ==
  /\ apiCrashes <= 1
  /\ \A r \in Run : delivery[r] \in {None, [status |-> "COMPLETED", verdict |-> "INCONCLUSIVE"]}
  /\ \A r \in Run : rows[r].stage \notin Stage

Single == \E r \in Run : \A s \in Run \ {r} : rows[s] = NoRow

CompetingOrSingle == Competing \/ Single
==============================================================================
