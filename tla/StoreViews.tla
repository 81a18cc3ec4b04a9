----------------------------- MODULE StoreViews -----------------------------
(***************************************************************************)
(* What is made of the tables that outlives them in a caller's notes: the  *)
(* responses, the line in which runs are served, and the comparisons of    *)
(* receipts, which look at rows of their own.                              *)
(***************************************************************************)
EXTENDS Responses, StoreQueue, Comparison

(* What the API has told about something that has ended is told again      *)
(* for ever: the summary of a job, and the comparison of two runs.         *)
ShownIsFinal == SettledIsFinal /\ ComparisonsStay
=============================================================================
