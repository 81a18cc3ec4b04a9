-------------------------------- MODULE RunPage --------------------------------
(***************************************************************************)
(* The live run page: one polling loop per visit of a route, whose answers *)
(* may be late, against runs that go on on the server.  A reply holds the  *)
(* state of its run when the server wrote it.  A run can be QUEUED and     *)
(* RUNNING more than once, so a state has a version, the number of changes *)
(* before it; the code has no such number, and only properties read it.    *)
(***************************************************************************)
EXTENDS Schema, Naturals, SequencesExt

CONSTANTS Ids, MaxVisits, MaxLost, MaxRequeues

ASSUME RunPageAssumption ==
  MaxVisits \in Nat /\ MaxLost \in Nat /\ MaxRequeues \in Nat /\ None \notin Ids

Outcomes == {"COMPLETED", "TIMEOUT", "SYSTEM_ERROR"}
RunStates == [status : {"QUEUED", "RUNNING"} \union Outcomes, version : Nat]
Live(state) == state.status \in {"QUEUED", "RUNNING"}

VARIABLES
  server,    \* the state of every run
  route,     \* the id in the address bar, or None after leaving the page
  visits,    \* one record per effect: its id, cancelled, its step and its reply
  shownRun,
  pollError, \* the visit whose error is shown, or 0
  lost       \* failed requests so far

runPageVars == <<server, route, visits, shownRun, pollError, lost>>

CurrentVisit == Len(visits)
Created == [status |-> "QUEUED", version |-> 0]
NoRun == [id |-> None, state |-> Created]

RunPageInit ==
  /\ server = [id \in Ids |-> Created]
  /\ route = None /\ visits = <<>> /\ shownRun = NoRun /\ pollError = 0 /\ lost = 0

Becomes(id, status) ==
  /\ server' = [server EXCEPT ![id] = [status |-> status, version |-> @.version + 1]]
  /\ UNCHANGED <<route, visits, shownRun, pollError, lost>>

(* claimNext(), where the order of the queue is left open. *)
Claim(id) ==
  /\ server[id].status = "QUEUED" /\ \A i \in Ids : server[i].status # "RUNNING"
  /\ Becomes(id, "RUNNING")

(* requeue(): the runner was busy when the run was dispatched. *)
Requeue(id) ==
  /\ server[id].status = "RUNNING" /\ server[id].version < 2 * MaxRequeues
  /\ Becomes(id, "QUEUED")

(* complete(), systemError() and recoverInterruptedRuns() *)
Settle(id) ==
  /\ server[id].status = "RUNNING"
  /\ \E s \in Outcomes : Becomes(id, s)

(* The clean-up function of the effect. *)
CleanedUp ==
  IF CurrentVisit = 0 THEN visits
  ELSE [visits EXCEPT ![CurrentVisit].cancelled = TRUE,
                      ![CurrentVisit].step = IF @ = "armed" THEN "ended" ELSE @]

(* A route of the application: the component stays, and what it shows. *)
Visit(id) ==
  /\ CurrentVisit < MaxVisits /\ id # route
  /\ route' = id
  /\ visits' = Append(CleanedUp, [id |-> id, cancelled |-> FALSE, step |-> "asking", reply |-> None])
  /\ UNCHANGED <<server, shownRun, pollError, lost>>

(* The component is unmounted, and its state is gone. *)
Leave ==
  /\ route # None /\ route' = None
  /\ visits' = CleanedUp
  /\ shownRun' = NoRun /\ pollError' = 0
  /\ UNCHANGED <<server, lost>>

Serve(v) ==
  /\ visits[v].step = "asking"
  /\ visits' = [visits EXCEPT ![v].step = "answered", ![v].reply = server[visits[v].id]]
  /\ UNCHANGED <<server, route, shownRun, pollError, lost>>

(* Fault: the request fails, and the error is lost with it. *)
FaultyFailPoll(v) ==
  /\ visits[v].step \in {"asking", "answered"} /\ lost < MaxLost
  /\ lost' = lost + 1
  /\ visits' = [visits EXCEPT ![v].step = "ended", ![v].reply = None]
  /\ UNCHANGED <<server, route, shownRun, pollError>>

(* The request, its answer or the body of the answer is lost. *)
FailPoll(v) ==
  /\ visits[v].step \in {"asking", "answered"} /\ lost < MaxLost
  /\ lost' = lost + 1
  /\ visits' = [visits EXCEPT ![v].step = "ended", ![v].reply = None]
  /\ pollError' = IF visits[v].cancelled THEN pollError ELSE v
  /\ UNCHANGED <<server, route, shownRun>>

PollsOn(state) == Live(state)

HasAnswered(v) == visits[v].step = "answered"

(* Fault: the error of an earlier poll is not cleared. *)
FaultyAccept(v) ==
  /\ shownRun' = [id |-> visits[v].id, state |-> visits[v].reply]
  /\ visits' = [visits EXCEPT ![v].step = IF PollsOn(visits[v].reply) THEN "armed" ELSE "ended",
                              ![v].reply = None]
  /\ UNCHANGED <<server, route, pollError, lost>>

Accept(v) ==
  /\ shownRun' = [id |-> visits[v].id, state |-> visits[v].reply]
  /\ pollError' = 0
  /\ visits' = [visits EXCEPT ![v].step = IF PollsOn(visits[v].reply) THEN "armed" ELSE "ended",
                              ![v].reply = None]
  /\ UNCHANGED <<server, route, lost>>

(* Fault: whatever arrives is shown. *)
FaultyShow(v) == HasAnswered(v) /\ Accept(v)

(* Fault: what arrives is shown while the page is polling for its id. *)
FaultyShowById(v) ==
  /\ HasAnswered(v)
  /\ IF visits[v].id = route /\ visits[CurrentVisit].step # "ended"
     THEN Accept(v)
     ELSE /\ visits' = [visits EXCEPT ![v].step = "ended", ![v].reply = None]
          /\ UNCHANGED <<server, route, shownRun, pollError, lost>>

Show(v) ==
  /\ HasAnswered(v)
  /\ IF ~visits[v].cancelled
     THEN Accept(v)
     ELSE /\ visits' = [visits EXCEPT ![v].step = "ended", ![v].reply = None]
          /\ UNCHANGED <<server, route, shownRun, pollError, lost>>

(* Fault: in a hidden tab the timer only arms itself again. *)
FaultyTimerFires(v) == visits[v].step = "armed" /\ UNCHANGED runPageVars

TimerFires(v) ==
  /\ visits[v].step = "armed"
  /\ visits' = [visits EXCEPT ![v].step = "asking"]
  /\ UNCHANGED <<server, route, shownRun, pollError, lost>>

RunPageNext ==
  \/ \E id \in Ids : Claim(id) \/ Requeue(id) \/ Settle(id) \/ Visit(id)
  \/ Leave
  \/ \E v \in DOMAIN visits : Serve(v) \/ FailPoll(v) \/ Show(v) \/ TimerFires(v)

(* The server answers and timers fire.  The orchestrator claims what is    *)
(* queued and ends what runs: a run is put back finitely often, as         *)
(* EveryRunEnds of the orchestrator's model says.                          *)
RunPageFairness ==
  /\ \A id \in Ids : WF_runPageVars(Claim(id)) /\ WF_runPageVars(Settle(id))
  /\ \A v \in 1..MaxVisits : WF_runPageVars(v \in DOMAIN visits /\ (Serve(v) \/ Show(v) \/ TimerFires(v)))

RunPageSpec == RunPageInit /\ [][RunPageNext]_runPageVars /\ RunPageFairness

-----------------------------------------------------------------------------
(* Every visit but the one that is on is cancelled, and a reply exists     *)
(* only while it is on its way.                                            *)
RunPageTypeOK ==
  /\ server \in [Ids -> RunStates]
  /\ route \in Ids \union {None} /\ pollError \in 0..CurrentVisit /\ lost \in 0..MaxLost
  /\ shownRun = NoRun \/ shownRun \in [id : Ids, state : RunStates]
  /\ CurrentVisit <= MaxVisits
  /\ \A v \in DOMAIN visits :
       /\ visits[v].id \in Ids
       /\ visits[v].cancelled <=> (v < CurrentVisit \/ route = None)
       /\ visits[v].step \in {"asking", "answered", "armed", "ended"}
       /\ IF visits[v].step = "answered" THEN visits[v].reply \in RunStates ELSE visits[v].reply = None

(* A state of a run, and the same or a later one; an outcome is the last. *)
Precedes(earlier, later) ==
  earlier = later \/ (Live(earlier) /\ earlier.version < later.version)

(* Whatever is still on its way from earlier visits, the page is only ever *)
(* changed to the run of its route, and never goes back in the history of  *)
(* a run it shows.  Its status may go from RUNNING to QUEUED, but only     *)
(* because the run has been put back into the queue since; an outcome      *)
(* stays.                                                                  *)
OnlyTheRouteIsShown ==
  [][shownRun' # shownRun /\ route' # None => shownRun'.id = route']_runPageVars
ShownStateAdvances ==
  [][shownRun'.id = shownRun.id => Precedes(shownRun.state, shownRun'.state)]_runPageVars

(* What the loop of the route has heard is what the page shows: between    *)
(* two polls a live state of its run, and once the loop has ended, the     *)
(* outcome of its run or the error that has ended it.  So the page never   *)
(* goes quiet, and a run or an error from before the navigation is shown   *)
(* no longer than until the first poll has come to something: the code     *)
(* clears neither when the route changes.                                  *)
TheRouteIsShownOnceHeard ==
  route # None =>
    LET step == visits[CurrentVisit].step
        showsIt == pollError = 0 /\ shownRun.id = route
    IN  /\ step = "armed" => showsIt /\ Live(shownRun.state)
        /\ step = "ended" => pollError = CurrentVisit \/ (showsIt /\ ~Live(shownRun.state))

OutcomeShown(id) ==
  pollError = 0 /\ ~Live(shownRun.state) /\ shownRun = [id |-> id, state |-> server[id]]

(* A page that is not left shows the outcome of its run, or the error of   *)
(* the poll that has ended its loop.                                       *)
OutcomeIsShown ==
  \A id \in Ids : route = id ~> (route # id \/ pollError = CurrentVisit \/ OutcomeShown(id))
=============================================================================
