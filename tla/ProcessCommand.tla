---------------------------- MODULE ProcessCommand ----------------------------
(***************************************************************************)
(* runCommand(): one child process whose end, time-out, abort signal,      *)
(* output limit, spawn error and asynchronous ticker all try to settle one *)
(* promise.  Every callback is an action; node runs them one at a time.    *)
(***************************************************************************)
EXTENDS Schema, Naturals

CONSTANT OutputLimit   \* chunks of output the command may write

Results == {"resolved", "error", "TIMEOUT", "CANCELLED", "OUTPUT_LIMIT_EXCEEDED", "RUNNER_FAILURE"}

ASSUME ProcessCommandAssumption == OutputLimit \in Nat /\ None \notin Results

VARIABLES
  child,     \* running, exited (its pipes still open), closed, or unborn
  killed,    \* SIGKILL has been sent
  written,   \* chunks received; the limit and one more are told apart
  kept,      \* chunks that will be in the output
  outcome,   \* of the promise: None, "resolved" or the code of an error
  timeout, ticker, listening,   \* timers armed, and the abort listener
  tick,      \* onTick() is being awaited
  aborted    \* of the signal

timers == <<timeout, ticker, listening>>
processVars == <<child, killed, written, kept, outcome, timers, tick, aborted>>

(* The early return after abort(). *)
Armed(abortedBefore) == ~abortedBefore

ProcessInit ==
  /\ child \in {"running", "unborn"}
  /\ aborted \in BOOLEAN
  /\ killed = aborted
  /\ written = 0 /\ kept = 0
  /\ outcome = IF aborted THEN "CANCELLED" ELSE None
  /\ timeout = Armed(aborted) /\ ticker = Armed(aborted) /\ listening = ~aborted
  /\ tick = FALSE

(* Fault: the ticker is left to itself. *)
FaultyFinish(result) ==
  IF outcome # None
  THEN UNCHANGED <<outcome, timers>>
  ELSE /\ outcome' = result
       /\ timeout' = FALSE /\ listening' = FALSE
       /\ UNCHANGED ticker

Finish(result) ==
  IF outcome # None
  THEN UNCHANGED <<outcome, timers>>
  ELSE /\ outcome' = result
       /\ timeout' = FALSE /\ ticker' = FALSE /\ listening' = FALSE

Terminate(code) == killed' = TRUE /\ Finish(code)

(* Fault: the chunk that passes the limit ends the command with its output. *)
FaultyCollect ==
  /\ child \in {"running", "exited"} /\ written <= OutputLimit
  /\ written' = written + 1
  /\ IF written' > OutputLimit
     THEN UNCHANGED <<kept, killed, outcome, timers>>
     ELSE kept' = kept + 1 /\ UNCHANGED <<killed, outcome, timers>>
  /\ UNCHANGED <<child, tick, aborted>>

Collect ==
  /\ child \in {"running", "exited"} /\ written <= OutputLimit
  /\ written' = written + 1
  /\ IF written' > OutputLimit
     THEN Terminate("OUTPUT_LIMIT_EXCEEDED") /\ UNCHANGED kept
     ELSE kept' = kept + 1 /\ UNCHANGED <<killed, outcome, timers>>
  /\ UNCHANGED <<child, tick, aborted>>

(* The process is gone, but its pipes may still hold output. *)
Exit ==
  /\ child = "running" /\ child' = "exited"
  /\ UNCHANGED <<killed, written, kept, outcome, timers, tick, aborted>>

(* The close and error events. *)
Close ==
  /\ \/ child = "exited" /\ Finish("resolved")
     \/ child = "unborn" /\ Finish("error")
  /\ child' = "closed"
  /\ UNCHANGED <<killed, written, kept, tick, aborted>>

Abort ==
  /\ ~aborted /\ aborted' = TRUE
  /\ IF listening THEN Terminate("CANCELLED")
                  ELSE UNCHANGED <<killed, outcome, timers>>
  /\ UNCHANGED <<child, written, kept, tick>>

(* Fault: likewise. *)
FaultyTimeoutFires ==
  /\ timeout /\ timeout' = FALSE
  /\ killed' = TRUE
  /\ UNCHANGED <<child, written, kept, tick, aborted, outcome, ticker, listening>>

TimeoutFires ==
  /\ timeout
  /\ Terminate("TIMEOUT")
  /\ UNCHANGED <<child, written, kept, tick, aborted>>

StartTick ==
  /\ ticker /\ ~tick /\ tick' = TRUE
  /\ UNCHANGED <<child, killed, written, kept, outcome, timers, aborted>>

(* onTick() may end long after the command has. *)
EndTick ==
  /\ tick /\ tick' = FALSE
  /\ \/ UNCHANGED <<killed, outcome, timers>>
     \/ Terminate("RUNNER_FAILURE")
  /\ UNCHANGED <<child, written, kept, aborted>>

ProcessNext ==
  \/ Collect \/ Exit \/ Close \/ Abort \/ TimeoutFires \/ StartTick \/ EndTick

(* Of everything that may settle the command only its timer is reliable. *)
ProcessFairness == WF_processVars(TimeoutFires)

ProcessSpec == ProcessInit /\ [][ProcessNext]_processVars /\ ProcessFairness

-----------------------------------------------------------------------------
(* The chunks that are kept are those received within the limit, and a     *)
(* signal that has been seen is not listened to.                           *)
ProcessTypeOK ==
  /\ child \in {"running", "exited", "closed", "unborn"}
  /\ outcome \in Results \cup {None}
  /\ killed \in BOOLEAN /\ tick \in BOOLEAN /\ aborted \in BOOLEAN
  /\ timeout \in BOOLEAN /\ ticker \in BOOLEAN /\ listening \in BOOLEAN
  /\ written \in 0..OutputLimit + 1
  /\ kept = IF written > OutputLimit THEN OutputLimit ELSE written
  /\ aborted => ~listening

(* A command that is settled leaves no timer and no listener behind, and   *)
(* no process that has not been killed.                                    *)
SettledLeavesNothing ==
  outcome # None =>
    /\ ~timeout /\ ~ticker /\ ~listening
    /\ child \in {"running", "exited"} => killed

(* A resolved command ended by itself, within its limit, and its output is *)
(* all it has written.                                                     *)
ResolvedIsWhole ==
  outcome = "resolved" => child = "closed" /\ kept = written

(* However many events race to settle a command, it leaves nothing behind *)
(* and never passes part of an output for all of it.                      *)
CommandsEndWhole == SettledLeavesNothing /\ ResolvedIsWhole

(* Every command is settled, even if it hangs. *)
EveryCommandSettles == <>(outcome # None)
=============================================================================
