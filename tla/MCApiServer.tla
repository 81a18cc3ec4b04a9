---------------------------- MODULE MCApiServer ----------------------------
(* A few callers with one key, one run's results and the usual mistakes.   *)
EXTENDS ApiServer, TLC

CONSTANTS k1, q1, q2, r1, j1, f1, f2

Base == [route |-> "verify", key |-> None, request |-> None, id |-> None,
         print |-> None, verdict |-> None, authentic |-> TRUE,
         body |-> "valid"]

MCCall ==
  {[Base EXCEPT !.route = route, !.key = k1, !.request = q1] :
     route \in {"verify", "a2mcp", "reproducibility"}}
  \cup {[Base EXCEPT !.key = k1, !.request = q2],
        [Base EXCEPT !.request = q1],
        [Base EXCEPT !.key = k1, !.request = q1, !.body = "garbled"],
        [Base EXCEPT !.route = "inspect"],
        [Base EXCEPT !.route = "inspect", !.body = "declared too long"],
        [Base EXCEPT !.route = "run", !.id = r1],
        [Base EXCEPT !.route = "job", !.id = j1],
        [Base EXCEPT !.route = "heartbeat", !.id = r1]}
  \cup {[Base EXCEPT !.route = "result", !.id = r1, !.print = print,
                     !.verdict = "PASS", !.authentic = authentic] :
          print \in {f1, f2}, authentic \in BOOLEAN}

(* Only r1 is named by a call. *)
OtherRuns == Permutations(Run \ {r1})
=============================================================================
