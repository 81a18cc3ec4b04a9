-------------------------- MODULE VerificationQueue --------------------------
(***************************************************************************)
(* What the store promises its callers, without tables, columns or         *)
(* sequence numbers: a bounded first-come first-served line of runs, one   *)
(* of which is being served.  The run being served may be put back at the  *)
(* head of the line; a finished run is finished for ever.                  *)
(***************************************************************************)
EXTENDS Integers, Sequences

CONSTANTS Run, Limit, Nobody

VARIABLES
  line,      \* runs waiting, next one first
  serving,   \* the run being served, or Nobody
  finished   \* runs with a terminal outcome

queueVars == <<line, serving, finished>>

InLine == {line[i] : i \in DOMAIN line}

Unknown == Run \ (InLine \cup {serving} \cup finished)

QueueInit == line = <<>> /\ serving = Nobody /\ finished = {}

Admit ==
  \E r \in Unknown :
    /\ Len(line) < Limit
    /\ line' = Append(line, r)
    /\ UNCHANGED <<serving, finished>>

(* The two runs of a reproducibility job enter together.                   *)
AdmitPair ==
  \E b, c \in Unknown :
    /\ b # c
    /\ Len(line) + 2 <= Limit
    /\ line' = line \o <<b, c>>
    /\ UNCHANGED <<serving, finished>>

Serve ==
  /\ serving = Nobody /\ line # <<>>
  /\ serving' = Head(line)
  /\ line' = Tail(line)
  /\ UNCHANGED finished

PutBack ==
  /\ serving # Nobody
  /\ line' = <<serving>> \o line
  /\ serving' = Nobody
  /\ UNCHANGED finished

Finish ==
  /\ serving # Nobody
  /\ finished' = finished \cup {serving}
  /\ serving' = Nobody
  /\ UNCHANGED line

QueueNext == Admit \/ AdmitPair \/ Serve \/ PutBack \/ Finish

QueueSpec == QueueInit /\ [][QueueNext]_queueVars
==============================================================================
