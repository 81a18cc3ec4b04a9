------------------------------- MODULE Sandbox -------------------------------
(***************************************************************************)
(* DockerSandbox.execute(): one run in its disposable Docker resources.    *)
(*                                                                         *)
(* step is the await execute() stands at; an action takes it from there to *)
(* the next one.  A docker command succeeds, fails or is killed by its     *)
(* time-out, in which case its effect may have happened or not.  The       *)
(* daemon is external: it does not remove what is in use, it says that     *)
(* something is absent only when it is, and it has no command of a killed  *)
(* client still to carry out.                                              *)
(***************************************************************************)
EXTENDS Schema, Integers, Sequences

CONSTANTS
  Attempts,       \* attempts at removing a resource (3 in the code)
  ReadyAttempts,  \* attempts at finding the proxy ready (30)
  MaxFaults       \* docker commands that go wrong for reasons of their own

ASSUME SandboxAssumption ==
  /\ Attempts \in Nat \ {0} /\ ReadyAttempts \in Nat \ {0}
  /\ MaxFaults \in Nat

VARIABLES
  step,
  job,        \* the container of runContainer(): launch, running, measure
  live,       \* Docker resources of this run that exist
  attempt,    \* attempts made in the loop that execute() is in
  target,     \* the resource that cleanup() is at
  failures,   \* resources that cleanup() has not removed
  exit,       \* how the last docker run of a job has ended
  project,    \* what the inspector has found
  checks, verdict, reason, status,
  thrown,     \* the error that runContainer() is about to rethrow
  overdue,    \* the deadline of the execution has passed
  cancelled,  \* cancellationRequested, and the abort signal
  leaseOver,
  faults

reportVars == <<checks, verdict, reason, status>>
jobVars == <<job, exit, thrown>>
loopVars == <<attempt, target, failures>>
clockVars == <<overdue, cancelled, leaseOver>>
vars == <<step, live, project, faults, reportVars, jobVars, loopVars,
          clockVars>>

Step == {"begin", "runtime", "volume", "keeper", "internal", "egress",
         "proxy", "connect", "ready", "clone", "inspect", "install",
         "stop proxy", "remove egress", "build", "test",
         "remove job", "cleanup", "ended"}

(* What exists on the Docker host: the run's own resources, its job        *)
(* container with and without a network, and the anonymous containers of   *)
(* inspectWorkspace() and assertDiskLimit().                               *)
Resource == {"volume", "keeper", "internal", "egress", "proxy",
             "online job", "offline job", "helper"}

(* The containers on whose account Docker refuses to remove a resource.    *)
Users(r) ==
  CASE r = "volume"   -> {"keeper", "online job", "offline job", "helper"}
    [] r = "internal" -> {"proxy", "online job"}
    [] r = "egress"   -> {"proxy"}
    [] OTHER          -> {}

CheckOrder == [repository |-> 1, sandbox |-> 2, install |-> 3, build |-> 4,
               test |-> 5]
CheckId == DOMAIN CheckOrder
Outcome == {"PENDING", "RUNNING", "PASSED", "FAILED", "SKIPPED", "INCONCLUSIVE"}

JobStep == {"clone", "install", "build", "test"}

(* The job container of the current step: --network none from BUILD on.    *)
Container == IF step \in {"clone", "install"} THEN "online job"
                                              ELSE "offline job"

(* The order of cleanup(). *)
CleanupOrder == <<"proxy", "keeper", "internal", "egress", "volume">>

-----------------------------------------------------------------------------
Init ==
  /\ step = "begin" /\ job = "launch" /\ live = {}
  /\ attempt = 0 /\ target = 1 /\ failures = 0
  /\ exit = None /\ project = None /\ thrown = None
  /\ checks = [c \in CheckId |-> "PENDING"]
  /\ verdict = "INCONCLUSIVE" /\ reason = None /\ status = "COMPLETED"
  /\ overdue = FALSE /\ cancelled = FALSE /\ leaseOver = FALSE
  /\ faults = 0

(* Something goes wrong with Docker itself. *)
Fault == faults < MaxFaults /\ faults' = faults + 1

(* Fault: only a running check is settled. *)
FaultyAbandoned(cs) ==
  [c \in CheckId |-> CASE cs[c] = "RUNNING" -> "INCONCLUSIVE"
                       [] cs[c] = "PENDING" -> "SKIPPED"
                       [] OTHER -> cs[c]]

(* The checks after the catch clause: the running check, or else the first *)
(* pending one, is inconclusive, and what is still pending is skipped.     *)
Abandoned(cs) ==
  LET running == {c \in CheckId : cs[c] = "RUNNING"}
      pending == {c \in CheckId : cs[c] = "PENDING"}
      first   == {c \in pending : \A d \in pending :
                                    CheckOrder[c] <= CheckOrder[d]}
      hit     == IF running # {} THEN running ELSE first
  IN  [c \in CheckId |-> CASE c \in hit -> "INCONCLUSIVE"
                           [] c \in pending \ hit -> "SKIPPED"
                           [] OTHER -> cs[c]]

GoTo(s) == step' = s /\ attempt' = 0 /\ UNCHANGED <<target, failures>>

(* The catch clause of execute(). *)
Throw(code) ==
  /\ reason' = code
  /\ status' = IF code = "TIMEOUT" THEN "TIMEOUT" ELSE "COMPLETED"
  /\ verdict' = "INCONCLUSIVE"
  /\ checks' = Abandoned(checks)
  /\ GoTo("cleanup")

(* The execution goes on to s with the checks cs. *)
Proceed(s, cs) ==
  /\ checks' = cs
  /\ GoTo(s)
  /\ UNCHANGED <<verdict, reason, status>>

(* return this.result(...) *)
Return(v, why, cs) ==
  /\ verdict' = v /\ reason' = why /\ checks' = cs
  /\ GoTo("cleanup")
  /\ UNCHANGED status

(* docker() with the deadline of the execution: the effect of a command    *)
(* that succeeds is sure, that of any other one is not.                    *)
Docker(effect, s, cs) ==
  \/ /\ ~overdue
     /\ live' = live \cup effect
     /\ Proceed(s, cs)
     /\ UNCHANGED faults
  \/ /\ Fault
     /\ live' \in {live, live \cup effect}
     /\ Throw("RUNNER_FAILURE")
  \/ /\ overdue
     /\ live' \in {live, live \cup effect}
     /\ Throw("TIMEOUT")
     /\ UNCHANGED faults

-----------------------------------------------------------------------------
(* From the start to the first job. *)

(* The URL and the hash of the skill; any error of either stands for all.  *)
Begin ==
  /\ step = "begin"
  /\ \/ Throw("SKILL_HASH_MISMATCH")
     \/ Proceed("runtime", [checks EXCEPT !.sandbox = "RUNNING"])
  /\ UNCHANGED <<live, project, faults, jobVars, clockVars>>

(* runtimeImageDigest(), which has a time-out of its own. *)
InspectRuntime ==
  /\ step = "runtime"
  /\ \/ Proceed("volume", checks) /\ UNCHANGED faults
     \/ /\ status' = "SYSTEM_ERROR" /\ reason' = "RUNTIME_IMAGE_MISMATCH"
        /\ GoTo("cleanup")
        /\ UNCHANGED <<checks, verdict, faults>>
     \/ Fault /\ \E code \in {"RUNNER_FAILURE", "TIMEOUT"} : Throw(code)
  /\ UNCHANGED <<live, project, jobVars, clockVars>>

After == [volume |-> "keeper", keeper |-> "internal", internal |-> "egress",
          egress |-> "proxy", proxy |-> "connect"]

CreateResource ==
  /\ step \in DOMAIN After
  /\ Docker({step}, After[step], checks)
  /\ UNCHANGED <<project, jobVars, clockVars>>

ConnectProxy ==
  /\ step = "connect"
  /\ Docker({}, "ready", checks)
  /\ UNCHANGED <<project, jobVars, clockVars>>

(* Fault: an attempt is not counted. *)
FaultyCountAttempt == attempt' = attempt

CountAttempt == attempt' = attempt + 1

(* The polling loop of startProxy(). *)
AwaitProxy ==
  /\ step = "ready"
  /\ \/ Docker({}, "clone", [checks EXCEPT !.sandbox = "PASSED",
                                           !.repository = "RUNNING"])
     \/ /\ ~overdue /\ attempt + 1 < ReadyAttempts
        /\ CountAttempt
        /\ UNCHANGED <<step, target, failures, reportVars, live, faults>>
     \/ /\ ~overdue /\ attempt + 1 = ReadyAttempts
        /\ Throw("RUNNER_FAILURE")
        /\ UNCHANGED <<live, faults>>
  /\ UNCHANGED <<project, jobVars, clockVars>>

(* inspectWorkspace(); one of the inspector's verdicts stands for all.     *)
InspectWorkspace ==
  /\ step = "inspect"
  /\ \/ /\ \E p \in [hasBuild : BOOLEAN, hasTest : BOOLEAN] : project' = p
        /\ ~overdue
        /\ Proceed("install", [checks EXCEPT !.repository = "PASSED",
                                             !.install = "RUNNING"])
        /\ UNCHANGED <<live, faults>>
     \/ /\ ~overdue /\ Throw("LOCKFILE_MISSING")
        /\ UNCHANGED <<project, live, faults>>
     \/ /\ Fault /\ Throw("RUNNER_FAILURE")
        /\ UNCHANGED <<project, live>>
     \/ /\ overdue /\ Throw("TIMEOUT")
        /\ live' \in {live, live \cup {"helper"}}
        /\ UNCHANGED <<project, faults>>
  /\ UNCHANGED <<jobVars, clockVars>>

-----------------------------------------------------------------------------
(* runContainer() *)

(* Its catch clause; the container may be running on. *)
Rethrow(code) ==
  /\ thrown' = code
  /\ step' = "remove job" /\ job' = "launch"
  /\ UNCHANGED <<loopVars, reportVars>>

(* Within the current step. *)
Stay(j) ==
  /\ job' = j
  /\ UNCHANGED <<step, thrown, loopVars, reportVars>>

(* assertActive(), remaining(), spawn.  An expired lease cancels the run.  *)
LaunchJob ==
  /\ step \in JobStep /\ job = "launch"
  /\ cancelled' = (cancelled \/ leaseOver)
  /\ \/ /\ cancelled' /\ UNCHANGED <<live, job, thrown>>
        /\ Throw(IF cancelled THEN "CANCELLED" ELSE "LEASE_EXPIRED")
     \/ ~cancelled' /\ overdue /\ Rethrow("TIMEOUT") /\ UNCHANGED live
     \/ /\ ~cancelled' /\ ~overdue /\ Stay("running")
        /\ live' \in {live, live \cup {Container}}
  /\ UNCHANGED <<exit, project, faults, overdue, leaseOver>>

(* The container ends and --rm removes it; or Docker has refused to run    *)
(* it, which is an exit code like any other.  The output may tell of a     *)
(* full disk.                                                              *)
FinishJob ==
  /\ step \in JobStep /\ job = "running"
  /\ \/ /\ Container \in live /\ live' = live \ {Container}
        /\ exit' \in {"zero", "nonzero"}
        /\ UNCHANGED faults
     \/ /\ Container \notin live /\ UNCHANGED live
        /\ exit' = "refused"
        /\ Fault
  /\ Stay("measure") \/ Rethrow("DISK_LIMIT_EXCEEDED")
  /\ UNCHANGED <<project, clockVars>>

(* runCommand() kills the client: the container keeps running.  When the   *)
(* lease has expired, the abort signal overtakes the error of              *)
(* assertActive().                                                         *)
KillJob ==
  /\ step \in JobStep /\ job = "running"
  /\ \/ overdue /\ Rethrow("TIMEOUT") /\ UNCHANGED cancelled
     \/ (cancelled \/ leaseOver) /\ Rethrow("CANCELLED") /\ cancelled' = TRUE
  /\ UNCHANGED <<live, exit, project, faults, overdue, leaseOver>>

(* ... because of what it has printed. *)
ExceedOutput ==
  /\ step \in JobStep /\ job = "running"
  /\ Rethrow("OUTPUT_LIMIT_EXCEEDED")
  /\ UNCHANGED <<live, exit, project, faults, clockVars>>

(* docker rm -f: its exit code is ignored, its own error is not. *)
RemoveJob ==
  /\ step = "remove job"
  /\ \/ /\ live' = live \ {"online job", "offline job"}
        /\ Throw(thrown)
        /\ UNCHANGED faults
     \/ /\ Fault
        /\ UNCHANGED live
        /\ \E code \in {thrown, "TIMEOUT", "RUNNER_FAILURE"} : Throw(code)
  /\ UNCHANGED <<project, jobVars, clockVars>>

(* What execute() does with the exit code of a job. *)
Judge ==
  LET passed == exit = "zero"
      built  == [checks EXCEPT !.build = "PASSED"]
  IN  CASE step = "clone" ->
             IF passed THEN Proceed("inspect", checks)
                       ELSE Throw("RUNNER_FAILURE")
        [] step = "install" ->
             IF passed
             THEN Proceed("stop proxy", [checks EXCEPT !.install = "PASSED"])
             ELSE Throw("REGISTRY_FAILURE")
        [] step = "build" ->
             IF ~passed
             THEN Return("FAIL", None, [checks EXCEPT !.build = "FAILED",
                                                      !.test = "SKIPPED"])
             ELSE IF project.hasTest
                  THEN Proceed("test", [built EXCEPT !.test = "RUNNING"])
                  ELSE Return("PASS", None, [built EXCEPT !.test = "SKIPPED"])
        [] step = "test" ->
             IF passed
             THEN Return("PASS", None, [checks EXCEPT !.test = "PASSED"])
             ELSE Return("FAIL", None, [checks EXCEPT !.test = "FAILED"])

(* assertDiskLimit(), and the rest of the step. *)
MeasureDisk ==
  /\ step \in JobStep /\ job = "measure"
  /\ \/ /\ ~overdue /\ Judge /\ job' = "launch"
        /\ UNCHANGED <<live, thrown, faults>>
     \/ ~overdue /\ Rethrow("DISK_LIMIT_EXCEEDED") /\ UNCHANGED <<live, faults>>
     \/ Fault /\ Rethrow("RUNNER_FAILURE") /\ UNCHANGED live
     \/ /\ overdue /\ Rethrow("TIMEOUT")
        /\ live' \in {live, live \cup {"helper"}}
        /\ UNCHANGED faults
  /\ UNCHANGED <<exit, project, clockVars>>

-----------------------------------------------------------------------------
(* stopContainer(), removeNetwork(), removeVolume() *)

Answer == {"absent", "present", "unclear", "rejected"}

(* Fault: every failure of docker inspect is taken for an absence. *)
FaultyConfirmsResourceAbsent(answer) == answer \in {"absent", "unclear"}

(* confirmsResourceAbsent() *)
ConfirmsResourceAbsent(answer) == answer = "absent"

(* One attempt: docker rm, whose failure is ignored, and docker inspect.   *)
Attempt(r, answer) ==
  LET removable == Users(r) \cap live = {}
  IN  \E removed \in BOOLEAN :
        /\ removed => removable
        /\ live' = IF removed THEN live \ {r} ELSE live
        /\ answer = "absent" => r \notin live'
        /\ answer = "present" => r \in live'
        /\ \/ /\ removed = removable /\ answer \in {"absent", "present"}
              /\ UNCHANGED faults
           \/ Fault

(* Another attempt follows; an inspect that rejects ends the loop. *)
Retries(answer) ==
  /\ ~ConfirmsResourceAbsent(answer)
  /\ answer # "rejected"
  /\ attempt + 1 < Attempts

TryAgain == CountAttempt /\ UNCHANGED <<step, target, failures, reportVars>>

(* The errors that end the loop otherwise. *)
Complaint(answer) ==
  IF answer = "rejected" THEN {"RUNNER_FAILURE", "TIMEOUT"}
                         ELSE {"RUNNER_FAILURE"}

StopProxy ==
  /\ step = "stop proxy"
  /\ \E answer \in Answer :
       /\ Attempt("proxy", answer)
       /\ \/ /\ ConfirmsResourceAbsent(answer)
             /\ Proceed("remove egress", checks)
          \/ Retries(answer) /\ TryAgain
          \/ /\ ~ConfirmsResourceAbsent(answer) /\ ~Retries(answer)
             /\ \E code \in Complaint(answer) : Throw(code)
  /\ UNCHANGED <<project, jobVars, clockVars>>

(* Fault: a project without scripts passes. *)
FaultyAfterInstall ==
  IF project.hasBuild
  THEN Proceed("build", [checks EXCEPT !.build = "RUNNING"])
  ELSE IF project.hasTest
  THEN Proceed("test", [checks EXCEPT !.build = "SKIPPED", !.test = "RUNNING"])
  ELSE Return("PASS", None, [checks EXCEPT !.build = "SKIPPED",
                                           !.test = "SKIPPED"])

(* What there is to run without a network. *)
AfterInstall ==
  IF project.hasBuild
  THEN Proceed("build", [checks EXCEPT !.build = "RUNNING"])
  ELSE IF project.hasTest
  THEN Proceed("test", [checks EXCEPT !.build = "SKIPPED", !.test = "RUNNING"])
  ELSE Return("INCONCLUSIVE", "INDETERMINATE_SKILL_RESULT",
              [checks EXCEPT !.build = "SKIPPED", !.test = "INCONCLUSIVE"])

(* Fault: a network that cannot be removed is left to cleanup(). *)
FaultyRemoveEgress ==
  /\ step = "remove egress"
  /\ \E answer \in Answer :
       /\ Attempt("egress", answer)
       /\ \/ Retries(answer) /\ TryAgain
          \/ ~Retries(answer) /\ AfterInstall
  /\ UNCHANGED <<project, jobVars, clockVars>>

RemoveEgress ==
  /\ step = "remove egress"
  /\ \E answer \in Answer :
       /\ Attempt("egress", answer)
       /\ \/ ConfirmsResourceAbsent(answer) /\ AfterInstall
          \/ Retries(answer) /\ TryAgain
          \/ /\ ~ConfirmsResourceAbsent(answer) /\ ~Retries(answer)
             /\ \E code \in Complaint(answer) : Throw(code)
  /\ UNCHANGED <<project, jobVars, clockVars>>

(* cleanup(): on to the next resource, or to the end of execute(). *)
NextTarget ==
  /\ target' = target + 1 /\ attempt' = 0
  /\ step' = IF target = Len(CleanupOrder) THEN "ended" ELSE step
  /\ UNCHANGED reportVars

(* cleanup(): one attempt at one resource. *)
Cleanup ==
  /\ step = "cleanup"
  /\ \E answer \in Answer :
       /\ Attempt(CleanupOrder[target], answer)
       /\ \/ ConfirmsResourceAbsent(answer) /\ NextTarget /\ UNCHANGED failures
          \/ Retries(answer) /\ TryAgain
          \/ /\ ~ConfirmsResourceAbsent(answer) /\ ~Retries(answer)
             /\ NextTarget /\ failures' = failures + 1
  /\ UNCHANGED <<project, jobVars, clockVars>>

-----------------------------------------------------------------------------
(* What happens around execute(). *)

DeadlinePasses ==
  /\ step # "ended" /\ ~overdue /\ overdue' = TRUE
  /\ UNCHANGED <<step, live, project, faults, reportVars, jobVars, loopVars,
                 cancelled, leaseOver>>

Cancel ==
  /\ step # "ended" /\ ~cancelled /\ cancelled' = TRUE
  /\ UNCHANGED <<step, live, project, faults, reportVars, jobVars, loopVars,
                 overdue, leaseOver>>

LeaseExpires ==
  /\ step # "ended" /\ ~leaseOver /\ leaseOver' = TRUE
  /\ UNCHANGED <<step, live, project, faults, reportVars, jobVars, loopVars,
                 overdue, cancelled>>

(* A container whose client has been killed ends, and --rm removes it.     *)
AbandonedExits ==
  /\ step \in {"remove job", "cleanup", "ended"}
  /\ \E c \in live \cap {"online job", "offline job", "helper"} :
       live' = live \ {c}
  /\ UNCHANGED <<step, project, faults, reportVars, jobVars, loopVars,
                 clockVars>>

-----------------------------------------------------------------------------
(* What execute() does on its own, or is made to do by its deadline. *)
Progress ==
  \/ Begin \/ InspectRuntime \/ CreateResource \/ ConnectProxy \/ AwaitProxy
  \/ InspectWorkspace \/ LaunchJob \/ KillJob \/ RemoveJob \/ MeasureDisk
  \/ StopProxy \/ RemoveEgress \/ Cleanup

Next ==
  \/ Progress \/ FinishJob \/ ExceedOutput
  \/ DeadlinePasses \/ Cancel \/ LeaseExpires \/ AbandonedExits

Spec == Init /\ [][Next]_vars

(* Every call to docker has a time-out, and so has the execution.  That a  *)
(* job ends by itself is not assumed.                                      *)
FairSpec == Spec /\ WF_vars(Progress) /\ WF_vars(DeadlinePasses)

-----------------------------------------------------------------------------
Code == {"SKILL_HASH_MISMATCH", "RUNTIME_IMAGE_MISMATCH", "RUNNER_FAILURE",
         "TIMEOUT", "LOCKFILE_MISSING", "CANCELLED", "LEASE_EXPIRED",
         "OUTPUT_LIMIT_EXCEEDED", "DISK_LIMIT_EXCEEDED", "REGISTRY_FAILURE",
         "INDETERMINATE_SKILL_RESULT"}

Project == [hasBuild : BOOLEAN, hasTest : BOOLEAN]

(* The types of the variables; the loops of execute() stay within their    *)
(* bounds.                                                                 *)
SandboxTypeOK ==
  /\ step \in Step /\ job \in {"launch", "running", "measure"}
  /\ live \subseteq Resource
  /\ attempt \in Nat
  /\ target \in 1..(Len(CleanupOrder) + 1) /\ failures \in 0..(target - 1)
  /\ exit \in {None, "zero", "nonzero", "refused"}
  /\ project \in Project \cup {None}
  /\ thrown \in Code \cup {None}
  /\ checks \in [CheckId -> Outcome]
  /\ verdict \in {"PASS", "FAIL", "INCONCLUSIVE"}
  /\ reason \in Code \cup {None}
  /\ status \in {"COMPLETED", "TIMEOUT", "SYSTEM_ERROR"}
  /\ overdue \in BOOLEAN /\ cancelled \in BOOLEAN /\ leaseOver \in BOOLEAN
  /\ faults \in Nat

(* An execution that does not reject has left nothing on the Docker host:  *)
(* neither what cleanup() removes, nor the job and helper containers that  *)
(* it does not know of, because the volume they use would not have gone.   *)
ResolvedMeansClean == step = "ended" /\ failures = 0 => live = {}

(* The report satisfies the schema that the API parses it with, and no     *)
(* check is left open, whichever await an error came from.                 *)
ReportValid ==
  step = "ended" /\ status # "SYSTEM_ERROR" =>
    LET outcomes == {checks[c] : c \in CheckId}
    IN  /\ outcomes \cap {"PENDING", "RUNNING"} = {}
        /\ verdict = "PASS" => outcomes \subseteq {"PASSED", "SKIPPED"}
        /\ verdict = "FAIL" => "FAILED" \in outcomes
        /\ verdict = "INCONCLUSIVE" => "INCONCLUSIVE" \in outcomes

(* A project passes only if it has something to run and all of it passed.  *)
PassIsEarned ==
  verdict = "PASS" =>
    /\ project \in Project /\ (project.hasBuild \/ project.hasTest)
    /\ project.hasBuild => checks.build = "PASSED"
    /\ project.hasTest => checks.test = "PASSED"

(* While the build or the tests of a project run, the proxy and its way    *)
(* out do not exist any more.                                              *)
UntrustedOffline ==
  "offline job" \in live => live \cap {"proxy", "egress", "online job"} = {}

(* execute() settles, also when a job hangs and Docker answers nothing.    *)
EveryExecutionEnds == <>(step = "ended")

(* apps/runner/README.md: nothing is left after any terminal path.         *)
NothingLeftBehind == step = "ended" => live = {}

(* public/skill.md: a failure of the runner is never a FAIL.               *)
RunnerFailureNeverFails == verdict = "FAIL" => exit # "refused"
=============================================================================
