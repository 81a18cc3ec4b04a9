---------------------------- MODULE ComparisonPage ----------------------------
(***************************************************************************)
(* The comparison page: a reducer, one request per visit of a route, and   *)
(* a render that may come before the effect has told the reducer of a new  *)
(* route.  A route is a pair of run IDs; None is one that lacks an ID.     *)
(***************************************************************************)
EXTENDS Schema, Naturals, Sequences

CONSTANTS Routes, MaxNavigations

ASSUME ComparisonPageAssumption == MaxNavigations \in Nat /\ None \notin Routes

VARIABLES
  comparisonRoute,      \* of the last render
  comparisonState,      \* of the reducer: the route it is for, comparison, error, loading
  requests,   \* one per effect: its route, cancelled, and whether it is on its way
  effectPending       \* rendered with a new route, whose effect has not run yet

comparisonPageVars == <<comparisonRoute, comparisonState, requests, effectPending>>

For(r, comparison, error, loading) ==
  [route |-> r, comparison |-> comparison, error |-> error, loading |-> loading]

RouteChanged(r) == IF r = None THEN For(r, None, TRUE, FALSE) ELSE For(r, None, FALSE, TRUE)

(* Every pair of runs has one comparison, named by its route. *)
FetchSuccess(s, r) == IF r # s.route THEN s ELSE For(r, r, FALSE, FALSE)

(* Fault: a failure is not reported. *)
SilentFetchError(s, r) == s
FetchError(s, r) == IF r # s.route THEN s ELSE For(r, None, TRUE, FALSE)

(* Fault: the state is shown as it is. *)
FaultyShown(s, r) == s
(* What is rendered: the state, unless it is for another route. *)
Shown(s, r) == IF s.route # r THEN RouteChanged(r) ELSE s

(* The first render and its effect. *)
ComparisonPageInit ==
  /\ comparisonRoute \in Routes \union {None}
  /\ comparisonState = For(None, None, FALSE, FALSE)
  /\ requests = <<>>
  /\ effectPending = TRUE

Navigate(r) ==
  /\ r # comparisonRoute /\ Len(requests) < MaxNavigations
  /\ comparisonRoute' = r /\ effectPending' = TRUE
  /\ UNCHANGED <<comparisonState, requests>>

(* Fault: earlier requests are left alone. *)
FaultyCancelled(rs) == rs
Cancelled(rs) == [k \in DOMAIN rs |-> [rs[k] EXCEPT !.cancelled = TRUE]]

(* The clean-up of the last effect, and the new one. *)
RunEffect ==
  /\ effectPending /\ effectPending' = FALSE
  /\ comparisonState' = RouteChanged(comparisonRoute)
  /\ requests' = IF comparisonRoute = None THEN Cancelled(requests)
                 ELSE Append(Cancelled(requests), [route |-> comparisonRoute, cancelled |-> FALSE, open |-> TRUE])
  /\ UNCHANGED comparisonRoute

(* The answer of a request, or its failure. *)
AnswerRequest(k) ==
  /\ requests[k].open
  /\ requests' = [requests EXCEPT ![k].open = FALSE]
  /\ IF requests[k].cancelled
     THEN UNCHANGED comparisonState
     ELSE \/ comparisonState' = FetchSuccess(comparisonState, requests[k].route)
          \/ comparisonState' = FetchError(comparisonState, requests[k].route)
  /\ UNCHANGED <<comparisonRoute, effectPending>>

ComparisonPageNext ==
  \/ \E r \in Routes \union {None} : Navigate(r)
  \/ RunEffect
  \/ \E k \in DOMAIN requests : AnswerRequest(k)

(* React runs its effects, and requests end. *)
ComparisonPageFairness ==
  /\ WF_comparisonPageVars(RunEffect)
  /\ \A k \in 1..MaxNavigations : WF_comparisonPageVars(k \in DOMAIN requests /\ AnswerRequest(k))

ComparisonPageSpec ==
  ComparisonPageInit /\ [][ComparisonPageNext]_comparisonPageVars /\ ComparisonPageFairness

Page == Shown(comparisonState, comparisonRoute)
-----------------------------------------------------------------------------
(* The state is loading, a comparison, an error, or the initial one.       *)
ComparisonPageTypeOK ==
  /\ comparisonRoute \in Routes \union {None} /\ effectPending \in BOOLEAN
  /\ comparisonState.route \in Routes \union {None}
  /\ comparisonState.comparison \in {None, comparisonState.route}
  /\ comparisonState.loading => comparisonState.route # None /\ comparisonState.comparison = None /\ ~comparisonState.error
  /\ comparisonState.error => comparisonState.comparison = None

(* In no render, not even one between a navigation and its effect, is a    *)
(* comparison shown under the route of another pair.                       *)
ComparisonIsOfTheRoute == Page.comparison \in {None, comparisonRoute}

(* What a page shows, it keeps showing until the route changes: the late   *)
(* answer of an earlier visit of the same pair does not replace it.        *)
ShownIsKept ==
  [][comparisonRoute' = comparisonRoute /\ ~effectPending /\ ~Page.loading => Page' = Page]_comparisonPageVars

(* Every page ends with a comparison or an error. *)
PageSettles == []<>(~Page.loading)
=============================================================================
