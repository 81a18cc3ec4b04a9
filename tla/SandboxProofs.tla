---------------------------- MODULE SandboxProofs ----------------------------
(***************************************************************************)
(* What every execution keeps true, whatever fails and however often: an   *)
(* execution that resolves has cleaned up, the code of the repository runs *)
(* offline, and no project passes without having run.                      *)
(***************************************************************************)
EXTENDS Sandbox, TLAPS

Closing == {"cleanup", "ended"}
Removing == Closing \cup {"remove job"}

LEMMA OrderOfCleanup ==
  /\ Len(CleanupOrder) = 5
  /\ CleanupOrder[1] = "proxy" /\ CleanupOrder[2] = "keeper"
  /\ CleanupOrder[3] = "internal" /\ CleanupOrder[4] = "egress"
  /\ CleanupOrder[5] = "volume"
BY DEF CleanupOrder

LEMMA FirstTarget == 1 \in 1..5
OBVIOUS

(* The checks as they are named. *)
LEMMA CheckIds ==
  CheckId = {"repository", "sandbox", "install", "build", "test"}
BY DEF CheckId, CheckOrder

(* cleanup() starts at its first resource and ends after its last; what    *)
(* runContainer() rethrows is an error.                                    *)
TargetOK ==
  /\ step = "remove job" => thrown \in Code
  /\ step \notin Closing => target = 1 /\ failures = 0
  /\ step = "cleanup" => target \in 1..5
  /\ step = "ended" => target = 6

Inv == SandboxTypeOK /\ TargetOK

-----------------------------------------------------------------------------
(* The ways in which an action leaves its step, for any action that keeps  *)
(* the types of the other variables.                                       *)
Moves ==
  /\ step' \in Step
  /\ attempt' \in Nat
  /\ checks' \in [CheckId -> Outcome]
  /\ verdict' \in {"PASS", "FAIL", "INCONCLUSIVE"}
  /\ reason' \in Code \cup {None}
  /\ status' \in {"COMPLETED", "TIMEOUT", "SYSTEM_ERROR"}
  /\ step' # "ended" /\ UNCHANGED <<target, failures>>

LEMMA ThrowMoves ==
  ASSUME Inv, step \notin Closing, NEW code \in Code, Throw(code)
  PROVE  Moves /\ step' = "cleanup" /\ verdict' = "INCONCLUSIVE"
<1>1. Abandoned(checks) \in [CheckId -> Outcome]
  BY DEF Abandoned, Inv, SandboxTypeOK, Outcome
<1> QED
  BY <1>1 DEF Throw, GoTo, Moves, Step, Inv, SandboxTypeOK

LEMMA ProceedMoves ==
  ASSUME Inv, NEW s \in Step \ Closing, NEW cs \in [CheckId -> Outcome],
         Proceed(s, cs)
  PROVE  Moves /\ step' = s /\ checks' = cs /\ verdict' = verdict
BY DEF Proceed, GoTo, Moves, Inv, SandboxTypeOK, Closing

LEMMA ReturnMoves ==
  ASSUME Inv, NEW v \in {"PASS", "FAIL", "INCONCLUSIVE"},
         NEW why \in Code \cup {None}, NEW cs \in [CheckId -> Outcome],
         Return(v, why, cs)
  PROVE  Moves /\ step' = "cleanup" /\ checks' = cs /\ verdict' = v
BY DEF Return, GoTo, Moves, Step, Inv, SandboxTypeOK

LEMMA RethrowMoves ==
  ASSUME Inv, step \notin Closing, NEW code \in Code, Rethrow(code)
  PROVE  /\ Moves /\ step' = "remove job" /\ job' = "launch"
         /\ thrown' \in Code /\ verdict' = verdict /\ checks' = checks
BY DEF Rethrow, Moves, Step, Inv, SandboxTypeOK, loopVars, reportVars, Closing

LEMMA TryAgainMoves ==
  ASSUME Inv, TryAgain, step # "ended"
  PROVE  Moves /\ step' = step /\ verdict' = verdict /\ checks' = checks
BY DEF TryAgain, CountAttempt, Moves, Inv, SandboxTypeOK, reportVars

(* One attempt removes the resource or nothing.                            *)
LEMMA AttemptRemoves ==
  ASSUME Inv, NEW r, NEW answer, Attempt(r, answer)
  PROVE  /\ faults' \in Nat
         /\ live' = live \/ (live' = live \ {r} /\ Users(r) \cap live = {})
         /\ ConfirmsResourceAbsent(answer) => r \notin live'
BY DEF Attempt, Fault, ConfirmsResourceAbsent, Inv, SandboxTypeOK

(* The types of what Moves does not speak of.                              *)
Rest ==
  /\ job' \in {"launch", "running", "measure"} /\ live' \subseteq Resource
  /\ exit' \in {None, "zero", "nonzero", "refused"}
  /\ project' \in Project \cup {None}
  /\ thrown' \in Code \cup {None}
  /\ overdue' \in BOOLEAN /\ cancelled' \in BOOLEAN /\ leaseOver' \in BOOLEAN
  /\ faults' \in Nat

LEMMA MovesInv ==
  ASSUME Inv, Moves, Rest,
         step = "cleanup" => step' = "cleanup",
         step # "ended",
         step' = "remove job" => thrown' \in Code
  PROVE  Inv'
<1>1. SandboxTypeOK'
  BY DEF Inv, SandboxTypeOK, Moves, Rest
<1>2. TargetOK'
  <2>1. target' = target /\ failures' = failures /\ step' # "ended"
    BY DEF Moves
  <2>2. CASE step = "cleanup"
    BY <2>1, <2>2 DEF Inv, TargetOK, Closing
  <2>3. CASE step # "cleanup"
    <3>1. target = 1 /\ failures = 0
      BY <2>3 DEF Inv, TargetOK, Closing
    <3> QED
      BY <2>1, <3>1, FirstTarget, Zenon DEF TargetOK
  <2> QED
    BY <2>2, <2>3
<1> QED
  BY <1>1, <1>2 DEF Inv

(* docker() with the deadline of the execution.                            *)
LEMMA DockerMoves ==
  ASSUME Inv, step \notin Closing, NEW effect \in SUBSET Resource,
         NEW s \in Step \ Closing, NEW cs \in [CheckId -> Outcome],
         Docker(effect, s, cs)
  PROVE  /\ Moves /\ faults' \in Nat
         /\ \/ step' = s /\ live' = live \cup effect /\ verdict' = verdict
               /\ checks' = cs
            \/ /\ step' = "cleanup" /\ live' \in {live, live \cup effect}
               /\ verdict' = "INCONCLUSIVE"
<1>1. "RUNNER_FAILURE" \in Code /\ "TIMEOUT" \in Code
  BY DEF Code
<1>2. CASE Proceed(s, cs) /\ live' = live \cup effect /\ UNCHANGED faults
  BY <1>2, ProceedMoves DEF Inv, SandboxTypeOK
<1>3. CASE Fault /\ live' \in {live, live \cup effect} /\ Throw("RUNNER_FAILURE")
  BY <1>1, <1>3, ThrowMoves DEF Inv, SandboxTypeOK, Fault
<1>4. CASE UNCHANGED faults /\ live' \in {live, live \cup effect} /\ Throw("TIMEOUT")
  BY <1>1, <1>4, ThrowMoves DEF Inv, SandboxTypeOK
<1> QED
  BY <1>2, <1>3, <1>4 DEF Docker

-----------------------------------------------------------------------------
(* Every action keeps the types. *)

LEMMA BeginInv == ASSUME Inv, Begin PROVE Inv'
<1> USE DEF Begin
<1>1. Moves /\ step' \in {"runtime", "cleanup"}
  <2>1. CASE Throw("SKILL_HASH_MISMATCH")
    BY <2>1, ThrowMoves DEF Code, Closing
  <2>2. CASE Proceed("runtime", [checks EXCEPT !.sandbox = "RUNNING"])
    <3>1. [checks EXCEPT !.sandbox = "RUNNING"] \in [CheckId -> Outcome]
      BY CheckIds DEF Inv, SandboxTypeOK, Outcome
    <3> QED
      BY <2>2, <3>1, ProceedMoves DEF Step, Closing
  <2> QED
    BY <2>1, <2>2
<1>2. Rest
  BY DEF Rest, Inv, SandboxTypeOK, jobVars, clockVars
<1> QED
  BY <1>1, <1>2, MovesInv

LEMMA InspectRuntimeInv == ASSUME Inv, InspectRuntime PROVE Inv'
<1> USE DEF InspectRuntime
<1>1. Moves /\ step' \in {"volume", "cleanup"} /\ faults' \in Nat
  <2>1. CASE Proceed("volume", checks) /\ UNCHANGED faults
    BY <2>1, ProceedMoves DEF Step, Closing, Inv, SandboxTypeOK
  <2>2. CASE \E code \in {"RUNNER_FAILURE", "TIMEOUT"} : Fault /\ Throw(code)
    BY <2>2, ThrowMoves DEF Code, Closing, Fault, Inv, SandboxTypeOK
  <2>3. CASE /\ status' = "SYSTEM_ERROR" /\ reason' = "RUNTIME_IMAGE_MISMATCH"
             /\ GoTo("cleanup") /\ UNCHANGED <<checks, verdict, faults>>
    BY <2>3 DEF GoTo, Moves, Step, Code, Inv, SandboxTypeOK
  <2> QED
    BY <2>1, <2>2, <2>3
<1>2. Rest
  BY <1>1 DEF Rest, Inv, SandboxTypeOK, jobVars, clockVars
<1> QED
  BY <1>1, <1>2, MovesInv

(* A step that execute() leaves for a later one, or for cleanup().         *)
LEMMA DockerInv ==
  ASSUME Inv, step \notin Removing, NEW effect \in SUBSET Resource,
         NEW s \in Step \ Removing, NEW cs \in [CheckId -> Outcome],
         Docker(effect, s, cs), UNCHANGED <<project, jobVars, clockVars>>
  PROVE  Inv'
<1>1. Moves /\ faults' \in Nat /\ live' \subseteq Resource /\ step' \in {s, "cleanup"}
  BY DockerMoves DEF Removing, Closing, Inv, SandboxTypeOK
<1>2. Rest
  BY <1>1 DEF Rest, Inv, SandboxTypeOK, jobVars, clockVars
<1> QED
  BY <1>1, <1>2, MovesInv DEF Removing, Closing

LEMMA AfterSteps ==
  /\ DOMAIN After = {"volume", "keeper", "internal", "egress", "proxy"}
  /\ \A s \in DOMAIN After : After[s] \in {"keeper", "internal", "egress",
                                          "proxy", "connect"}
BY DEF After

LEMMA CreateResourceInv == ASSUME Inv, CreateResource PROVE Inv'
<1>1. /\ step \notin Removing /\ {step} \in SUBSET Resource
      /\ After[step] \in Step \ Removing /\ checks \in [CheckId -> Outcome]
  BY AfterSteps
     DEF CreateResource, Removing, Closing, Resource, Step, Inv, SandboxTypeOK
<1> QED
  BY <1>1, DockerInv DEF CreateResource

LEMMA ConnectProxyInv == ASSUME Inv, ConnectProxy PROVE Inv'
<1>1. /\ step \notin Removing /\ {} \in SUBSET Resource
      /\ "ready" \in Step \ Removing /\ checks \in [CheckId -> Outcome]
  BY DEF ConnectProxy, Removing, Closing, Step, Inv, SandboxTypeOK
<1> QED
  BY <1>1, DockerInv DEF ConnectProxy

LEMMA AwaitProxyInv == ASSUME Inv, AwaitProxy PROVE Inv'
<1> DEFINE cs == [checks EXCEPT !.sandbox = "PASSED", !.repository = "RUNNING"]
<1>1. /\ step \notin Removing /\ {} \in SUBSET Resource
      /\ "clone" \in Step \ Removing /\ step = "ready"
  BY DEF AwaitProxy, Removing, Closing, Step
<1>2. cs \in [CheckId -> Outcome]
  BY CheckIds DEF Inv, SandboxTypeOK, Outcome
<1>3. UNCHANGED <<project, jobVars, clockVars>>
  BY DEF AwaitProxy
<1>4. CASE Docker({}, "clone", cs)
  <2> HIDE DEF cs
  <2> QED
    BY <1>1, <1>2, <1>3, <1>4, DockerInv
<1>5. CASE CountAttempt /\ UNCHANGED <<step, target, failures, reportVars, live, faults>>
  <2>1. Moves
    BY <1>1, <1>5, TryAgainMoves DEF TryAgain
  <2>2. Rest
    BY <1>3, <1>5 DEF Rest, Inv, SandboxTypeOK, jobVars, clockVars
  <2> QED
    BY <1>1, <1>5, <2>1, <2>2, MovesInv
<1>6. CASE Throw("RUNNER_FAILURE") /\ UNCHANGED <<live, faults>>
  <2>1. Moves /\ step' = "cleanup"
    BY <1>1, <1>6, ThrowMoves DEF Code, Removing, Closing
  <2>2. Rest
    BY <1>3, <1>6 DEF Rest, Inv, SandboxTypeOK, jobVars, clockVars
  <2> QED
    BY <1>1, <2>1, <2>2, MovesInv
<1> QED
  BY <1>4, <1>5, <1>6 DEF AwaitProxy

LEMMA InspectWorkspaceInv == ASSUME Inv, InspectWorkspace PROVE Inv'
<1> DEFINE cs == [checks EXCEPT !.repository = "PASSED", !.install = "RUNNING"]
<1>1. step = "inspect" /\ step \notin Closing
  BY DEF InspectWorkspace, Closing
<1>2. cs \in [CheckId -> Outcome]
  BY CheckIds DEF Inv, SandboxTypeOK, Outcome
<1>3. Moves /\ step' \in {"install", "cleanup"}
  <2>1. CASE Proceed("install", cs)
    <3> HIDE DEF cs
    <3> QED
      BY <1>2, <2>1, ProceedMoves DEF Step, Closing
  <2>2. CASE \E code \in {"LOCKFILE_MISSING", "RUNNER_FAILURE", "TIMEOUT"} :
               Throw(code)
    BY <1>1, <2>2, ThrowMoves DEF Code
  <2> QED
    BY <2>1, <2>2 DEF InspectWorkspace
<1>4. project' \in Project \cup {None}
  BY DEF InspectWorkspace, Project, Inv, SandboxTypeOK
<1>5. live' \subseteq Resource
  BY DEF InspectWorkspace, Resource, Inv, SandboxTypeOK
<1>6. faults' \in Nat
  BY DEF InspectWorkspace, Fault, Inv, SandboxTypeOK
<1>7. Rest
  BY <1>4, <1>5, <1>6
     DEF InspectWorkspace, Rest, Inv, SandboxTypeOK, jobVars, clockVars
<1> QED
  BY <1>1, <1>3, <1>7, MovesInv

LEMMA JobSteps ==
  ASSUME step \in JobStep
  PROVE  step \in Step /\ step \notin Removing
BY DEF JobStep, Step, Removing, Closing

(* In a step that runs a job and that stays, or goes to the removal of it. *)
LEMMA StayMoves ==
  ASSUME Inv, step \in JobStep, NEW j \in {"launch", "running", "measure"},
         Stay(j)
  PROVE  /\ Moves /\ step' = step /\ job' = j /\ thrown' = thrown
         /\ verdict' = verdict /\ checks' = checks
<1>1. step \in Step /\ step # "ended"
  BY JobSteps DEF Removing, Closing
<1> QED
  BY <1>1 DEF Stay, Moves, Inv, SandboxTypeOK, loopVars, reportVars

(* A step of runContainer() that does not get to the caller.               *)
LEMMA JobInv ==
  ASSUME Inv, step \in JobStep,
         \/ \E j \in {"launch", "running", "measure"} : Stay(j)
         \/ \E code \in Code : Rethrow(code),
         live' \subseteq Resource,
         exit' \in {None, "zero", "nonzero", "refused"},
         overdue' \in BOOLEAN, cancelled' \in BOOLEAN, leaseOver' \in BOOLEAN,
         faults' \in Nat, project' = project
  PROVE  Inv'
<1>1. step \notin Removing /\ step \notin Closing
  BY JobSteps DEF Removing
<1>2. CASE \E j \in {"launch", "running", "measure"} : Stay(j)
  <2>1. /\ Moves /\ step' = step /\ job' \in {"launch", "running", "measure"}
        /\ thrown' = thrown
    BY <1>2, StayMoves
  <2>2. Rest
    BY <2>1 DEF Rest, Inv, SandboxTypeOK
  <2> QED
    BY <1>1, <2>1, <2>2, MovesInv DEF Closing, Removing
<1>3. CASE \E code \in Code : Rethrow(code)
  <2>1. Moves /\ job' = "launch" /\ thrown' \in Code
    BY <1>1, <1>3, RethrowMoves
  <2>2. Rest
    BY <2>1 DEF Rest, Inv, SandboxTypeOK
  <2> QED
    BY <1>1, <2>1, <2>2, MovesInv DEF Closing
<1> QED
  BY <1>2, <1>3

LEMMA LaunchJobInv == ASSUME Inv, LaunchJob PROVE Inv'
<1>1. step \in JobStep /\ step \notin Removing /\ step \notin Closing
  BY JobSteps DEF LaunchJob, Removing
<1>2. live' \subseteq Resource
  BY DEF LaunchJob, Rethrow, Container, Resource, Inv, SandboxTypeOK
<1>3. exit' = exit /\ project' = project /\ faults' = faults
  BY DEF LaunchJob
<1>4. overdue' \in BOOLEAN /\ cancelled' \in BOOLEAN /\ leaseOver' \in BOOLEAN
  BY DEF LaunchJob, Inv, SandboxTypeOK
<1>5. CASE /\ UNCHANGED <<job, thrown>>
           /\ Throw(IF cancelled THEN "CANCELLED" ELSE "LEASE_EXPIRED")
  <2>1. (IF cancelled THEN "CANCELLED" ELSE "LEASE_EXPIRED") \in Code
    BY DEF Code
  <2>2. Moves /\ step' = "cleanup"
    BY <1>1, <1>5, <2>1, ThrowMoves
  <2>3. Rest
    BY <1>2, <1>3, <1>4, <1>5 DEF Rest, Inv, SandboxTypeOK
  <2> QED
    BY <1>1, <2>2, <2>3, MovesInv DEF Closing
<1>6. CASE Rethrow("TIMEOUT") \/ Stay("running")
  BY <1>1, <1>2, <1>3, <1>4, <1>6, JobInv DEF Code, Inv, SandboxTypeOK
<1> QED
  BY <1>5, <1>6 DEF LaunchJob

LEMMA FinishJobInv == ASSUME Inv, FinishJob PROVE Inv'
<1>1. step \in JobStep /\ live' \subseteq Resource /\ project' = project
  BY DEF FinishJob, Inv, SandboxTypeOK
<1>2. exit' \in {None, "zero", "nonzero", "refused"}
  BY DEF FinishJob
<1>3. faults' \in Nat
  BY DEF FinishJob, Fault, Inv, SandboxTypeOK
<1>4. overdue' \in BOOLEAN /\ cancelled' \in BOOLEAN /\ leaseOver' \in BOOLEAN
  BY DEF FinishJob, clockVars, Inv, SandboxTypeOK
<1>5. Stay("measure") \/ Rethrow("DISK_LIMIT_EXCEEDED")
  BY DEF FinishJob
<1> QED
  BY <1>1, <1>2, <1>3, <1>4, <1>5, JobInv DEF Code

LEMMA KillJobInv == ASSUME Inv, KillJob \/ ExceedOutput PROVE Inv'
<1>1. /\ step \in JobStep /\ live' \subseteq Resource /\ project' = project
      /\ exit' \in {None, "zero", "nonzero", "refused"} /\ faults' \in Nat
  BY DEF KillJob, ExceedOutput, Inv, SandboxTypeOK
<1>2. overdue' \in BOOLEAN /\ cancelled' \in BOOLEAN /\ leaseOver' \in BOOLEAN
  BY DEF KillJob, ExceedOutput, clockVars, Inv, SandboxTypeOK
<1>3. \E code \in Code : Rethrow(code)
  BY DEF KillJob, ExceedOutput, Code
<1> QED
  BY <1>1, <1>2, <1>3, JobInv

LEMMA RemoveJobInv == ASSUME Inv, RemoveJob PROVE Inv'
<1>1. step = "remove job" /\ step \notin Closing /\ thrown \in Code
  BY DEF RemoveJob, Closing, Inv, TargetOK
<1>2. \E code \in {thrown, "TIMEOUT", "RUNNER_FAILURE"} : Throw(code)
  BY DEF RemoveJob
<1>3. Moves /\ step' = "cleanup"
  BY <1>1, <1>2, ThrowMoves DEF Code
<1>4. faults' \in Nat
  <2>1. faults' = faults \/ Fault
    BY DEF RemoveJob
  <2> QED
    BY <2>1 DEF Fault, Inv, SandboxTypeOK
<1>5. Rest
  BY <1>4 DEF RemoveJob, Rest, Inv, SandboxTypeOK, jobVars, clockVars
<1> QED
  BY <1>1, <1>3, <1>5, MovesInv DEF Closing

LEMMA JudgeMoves ==
  ASSUME Inv, step \in JobStep, Judge
  PROVE  Moves /\ step' \in {"inspect", "stop proxy", "test", "cleanup"}
<1>1. step \notin Closing
  BY JobSteps DEF Removing
<1> DEFINE built == [checks EXCEPT !.build = "PASSED"]
           failed == [checks EXCEPT !.build = "FAILED", !.test = "SKIPPED"]
           tested(o) == [checks EXCEPT !.test = o]
<1>2. /\ checks \in [CheckId -> Outcome] /\ built \in [CheckId -> Outcome]
      /\ [checks EXCEPT !.install = "PASSED"] \in [CheckId -> Outcome]
      /\ failed \in [CheckId -> Outcome]
      /\ [built EXCEPT !.test = "RUNNING"] \in [CheckId -> Outcome]
      /\ [built EXCEPT !.test = "SKIPPED"] \in [CheckId -> Outcome]
      /\ \A o \in {"PASSED", "FAILED"} : tested(o) \in [CheckId -> Outcome]
  BY CheckIds DEF Inv, SandboxTypeOK, Outcome
<1>3. /\ {"inspect", "stop proxy", "test"} \subseteq Step \ Closing
      /\ {"RUNNER_FAILURE", "REGISTRY_FAILURE"} \subseteq Code
  BY DEF Step, Closing, Code
<1>4. CASE step = "clone"
  <2>1. Proceed("inspect", checks) \/ Throw("RUNNER_FAILURE")
    BY <1>4 DEF Judge
  <2> QED
    BY <1>1, <1>2, <1>3, <2>1, ProceedMoves, ThrowMoves
<1>5. CASE step = "install"
  <2>1. \/ Proceed("stop proxy", [checks EXCEPT !.install = "PASSED"])
        \/ Throw("REGISTRY_FAILURE")
    BY <1>5 DEF Judge
  <2> QED
    BY <1>1, <1>2, <1>3, <2>1, ProceedMoves, ThrowMoves
<1>6. CASE step = "build"
  <2>1. \/ Return("FAIL", None, failed)
        \/ Proceed("test", [built EXCEPT !.test = "RUNNING"])
        \/ Return("PASS", None, [built EXCEPT !.test = "SKIPPED"])
    BY <1>6 DEF Judge
  <2> HIDE DEF built, failed
  <2> QED
    BY <1>2, <1>3, <2>1, ProceedMoves, ReturnMoves
<1>7. CASE step = "test"
  <2>1. Return("PASS", None, tested("PASSED")) \/ Return("FAIL", None, tested("FAILED"))
    BY <1>7 DEF Judge
  <2> HIDE DEF tested
  <2> QED
    BY <1>2, <2>1, ReturnMoves
<1> QED
  BY <1>4, <1>5, <1>6, <1>7 DEF JobStep

LEMMA MeasureDiskInv == ASSUME Inv, MeasureDisk PROVE Inv'
<1>1. /\ step \in JobStep /\ project' = project /\ exit' = exit
      /\ live' \subseteq Resource /\ UNCHANGED clockVars
  BY DEF MeasureDisk, Resource, Inv, SandboxTypeOK
<1>2. faults' \in Nat
  BY DEF MeasureDisk, Fault, Inv, SandboxTypeOK
<1>3. CASE Judge /\ job' = "launch" /\ thrown' = thrown
  <2>1. Moves /\ step' \in {"inspect", "stop proxy", "test", "cleanup"}
    BY <1>1, <1>3, JudgeMoves
  <2>2. Rest
    BY <1>1, <1>2, <1>3 DEF Rest, Inv, SandboxTypeOK, clockVars
  <2> QED
    BY <1>1, <2>1, <2>2, JobSteps, MovesInv DEF Removing, Closing
<1>4. CASE \E code \in Code : Rethrow(code)
  BY <1>1, <1>2, <1>4, JobInv DEF Inv, SandboxTypeOK, clockVars
<1> QED
  BY <1>3, <1>4 DEF MeasureDisk, Code

(* An attempt that is not the last one of its loop.                        *)
LEMMA TryAgainInv ==
  ASSUME Inv, step # "ended", TryAgain, NEW r, NEW answer, Attempt(r, answer),
         UNCHANGED <<project, jobVars, clockVars>>
  PROVE  Inv'
<1>1. Moves /\ step' = step
  BY TryAgainMoves
<1>2. faults' \in Nat /\ live' \subseteq Resource
  BY AttemptRemoves DEF Inv, SandboxTypeOK
<1>3. Rest
  BY <1>2 DEF Rest, Inv, SandboxTypeOK, jobVars, clockVars
<1>4. step' = "remove job" => thrown' \in Code
  BY <1>1 DEF Inv, TargetOK, jobVars
<1> QED
  BY <1>1, <1>3, <1>4, MovesInv

(* An attempt after which execute() goes on, or gives up.                  *)
LEMMA LeaveInv ==
  ASSUME Inv, step \notin Removing, Moves, step' # "remove job",
         NEW r, NEW answer, Attempt(r, answer),
         UNCHANGED <<project, jobVars, clockVars>>
  PROVE  Inv'
<1>1. faults' \in Nat /\ live' \subseteq Resource
  BY AttemptRemoves DEF Inv, SandboxTypeOK
<1>2. Rest
  BY <1>1 DEF Rest, Inv, SandboxTypeOK, jobVars, clockVars
<1> QED
  BY <1>2, MovesInv DEF Removing, Closing

LEMMA ComplaintCodes == ASSUME NEW answer PROVE Complaint(answer) \subseteq Code
BY DEF Complaint, Code

LEMMA StopProxyInv == ASSUME Inv, StopProxy PROVE Inv'
<1>1. step \notin Removing /\ step \notin Closing /\ step # "ended"
  BY DEF StopProxy, Removing, Closing
<1>2. PICK answer \in Answer :
        /\ Attempt("proxy", answer)
        /\ \/ Proceed("remove egress", checks)
           \/ TryAgain
           \/ \E code \in Complaint(answer) : Throw(code)
  BY DEF StopProxy
<1>3. UNCHANGED <<project, jobVars, clockVars>>
  BY DEF StopProxy
<1>4. CASE TryAgain
  BY <1>1, <1>2, <1>3, <1>4, TryAgainInv
<1>5. CASE Proceed("remove egress", checks)
  <2>1. Moves /\ step' = "remove egress"
    BY <1>5, ProceedMoves DEF Step, Closing, Inv, SandboxTypeOK
  <2> QED
    BY <1>1, <1>2, <1>3, <2>1, LeaveInv
<1>6. CASE \E code \in Complaint(answer) : Throw(code)
  <2>1. Moves /\ step' = "cleanup"
    BY <1>1, <1>6, ComplaintCodes, ThrowMoves
  <2> QED
    BY <1>1, <1>2, <1>3, <2>1, LeaveInv
<1> QED
  BY <1>2, <1>4, <1>5, <1>6

LEMMA AfterInstallMoves ==
  ASSUME Inv, AfterInstall
  PROVE  Moves /\ step' \in {"build", "test", "cleanup"}
<1> DEFINE b == [checks EXCEPT !.build = "RUNNING"]
           t == [checks EXCEPT !.build = "SKIPPED", !.test = "RUNNING"]
           n == [checks EXCEPT !.build = "SKIPPED", !.test = "INCONCLUSIVE"]
<1>1. {b, t, n} \subseteq [CheckId -> Outcome]
  BY CheckIds DEF Inv, SandboxTypeOK, Outcome
<1>2. \/ Proceed("build", b) \/ Proceed("test", t)
      \/ Return("INCONCLUSIVE", "INDETERMINATE_SKILL_RESULT", n)
  BY DEF AfterInstall
<1>3. /\ {"build", "test"} \subseteq Step \ Closing
      /\ "INDETERMINATE_SKILL_RESULT" \in Code
  BY DEF Step, Closing, Code
<1> HIDE DEF b, t, n
<1> QED
  BY <1>1, <1>2, <1>3, ProceedMoves, ReturnMoves

LEMMA RemoveEgressInv == ASSUME Inv, RemoveEgress PROVE Inv'
<1>1. step \notin Removing /\ step \notin Closing /\ step # "ended"
  BY DEF RemoveEgress, Removing, Closing
<1>2. PICK answer \in Answer :
        /\ Attempt("egress", answer)
        /\ \/ AfterInstall
           \/ TryAgain
           \/ \E code \in Complaint(answer) : Throw(code)
  BY DEF RemoveEgress
<1>3. UNCHANGED <<project, jobVars, clockVars>>
  BY DEF RemoveEgress
<1>4. CASE TryAgain
  BY <1>1, <1>2, <1>3, <1>4, TryAgainInv
<1>5. CASE AfterInstall
  BY <1>1, <1>2, <1>3, <1>5, AfterInstallMoves, LeaveInv
<1>6. CASE \E code \in Complaint(answer) : Throw(code)
  <2>1. Moves /\ step' = "cleanup"
    BY <1>1, <1>6, ComplaintCodes, ThrowMoves
  <2> QED
    BY <1>1, <1>2, <1>3, <2>1, LeaveInv
<1> QED
  BY <1>2, <1>4, <1>5, <1>6

LEMMA CleanupInv == ASSUME Inv, Cleanup PROVE Inv'
<1>1. step = "cleanup" /\ UNCHANGED <<project, jobVars, clockVars>>
  BY DEF Cleanup
<1>2. PICK answer \in Answer :
        /\ Attempt(CleanupOrder[target], answer)
        /\ TryAgain \/ (NextTarget /\ failures' \in {failures, failures + 1})
  BY DEF Cleanup
<1>3. CASE TryAgain
  BY <1>1, <1>2, <1>3, TryAgainInv
<1>4. CASE NextTarget /\ failures' \in {failures, failures + 1}
  <2>1. target \in 1..5 /\ failures \in 0..(target - 1) /\ failures \in Nat
    BY <1>1 DEF Inv, TargetOK, SandboxTypeOK
  <2>2. /\ target' = target + 1 /\ attempt' = 0
        /\ step' = IF target = 5 THEN "ended" ELSE "cleanup"
    BY <1>1, <1>4, OrderOfCleanup DEF NextTarget
  <2>3. target' \in 2..6 /\ failures' \in 0..(target' - 1)
    BY <1>4, <2>1, <2>2
  <2>4. target' \in 1..(Len(CleanupOrder) + 1)
    BY <2>3, OrderOfCleanup
  <2>5. /\ step' = "cleanup" => target' \in 1..5
        /\ step' = "ended" => target' = 6
    BY <2>1, <2>2
  <2>6. faults' \in Nat /\ live' \subseteq Resource
    BY <1>2, AttemptRemoves DEF Inv, SandboxTypeOK
  <2>7. step' \in {"cleanup", "ended"} /\ attempt' \in Nat
    BY <2>2
  <2>8. SandboxTypeOK'
    BY <1>1, <1>4, <2>3, <2>4, <2>6, <2>7
       DEF NextTarget, Inv, SandboxTypeOK, Step, reportVars, jobVars, clockVars
  <2>9. TargetOK'
    BY <2>5, <2>7, Zenon DEF TargetOK, Closing
  <2> QED
    BY <2>8, <2>9 DEF Inv
<1> QED
  BY <1>2, <1>3, <1>4

LEMMA AroundInv ==
  ASSUME Inv, DeadlinePasses \/ Cancel \/ LeaseExpires \/ AbandonedExits
  PROVE  Inv'
<1>1. UNCHANGED <<step, project, faults, reportVars, jobVars, loopVars>>
  BY DEF DeadlinePasses, Cancel, LeaseExpires, AbandonedExits
<1>2. live' \subseteq Resource
  BY DEF DeadlinePasses, Cancel, LeaseExpires, AbandonedExits, Inv, SandboxTypeOK
<1>3. overdue' \in BOOLEAN /\ cancelled' \in BOOLEAN /\ leaseOver' \in BOOLEAN
  BY DEF DeadlinePasses, Cancel, LeaseExpires, AbandonedExits, clockVars, Inv,
         SandboxTypeOK
<1>4. SandboxTypeOK'
  BY <1>1, <1>2, <1>3
     DEF Inv, SandboxTypeOK, reportVars, jobVars, loopVars
<1>5. TargetOK'
  BY <1>1, Zenon DEF Inv, TargetOK, jobVars, loopVars
<1> QED
  BY <1>4, <1>5 DEF Inv

LEMMA NextInv == ASSUME Inv, [Next]_vars PROVE Inv'
<1>1. CASE Progress
  BY <1>1, BeginInv, InspectRuntimeInv, CreateResourceInv, ConnectProxyInv,
     AwaitProxyInv, InspectWorkspaceInv, LaunchJobInv, KillJobInv, RemoveJobInv,
     MeasureDiskInv, StopProxyInv, RemoveEgressInv, CleanupInv
     DEF Progress
<1>2. CASE FinishJob \/ ExceedOutput
  BY <1>2, FinishJobInv, KillJobInv
<1>3. CASE DeadlinePasses \/ Cancel \/ LeaseExpires \/ AbandonedExits
  BY <1>3, AroundInv
<1>4. CASE UNCHANGED vars
  <2>1. UNCHANGED <<step, live, project, faults, reportVars, jobVars, loopVars,
                    clockVars>>
    BY <1>4 DEF vars
  <2>2. SandboxTypeOK'
    BY <2>1 DEF Inv, SandboxTypeOK, reportVars, jobVars, loopVars, clockVars
  <2>3. TargetOK'
    BY <2>1, Zenon DEF Inv, TargetOK, jobVars, loopVars
  <2> QED
    BY <2>2, <2>3 DEF Inv
<1> QED
  BY <1>1, <1>2, <1>3, <1>4 DEF Next

LEMMA InitInv == ASSUME Init PROVE Inv
<1>1. checks \in [CheckId -> Outcome]
  BY DEF Init, Outcome
<1>2. target = 1 /\ failures = 0
  BY DEF Init
<1>3. target \in 1..(Len(CleanupOrder) + 1) /\ failures \in 0..(target - 1)
  BY <1>2, OrderOfCleanup
<1> QED
  BY <1>1, <1>3 DEF Init, Inv, SandboxTypeOK, TargetOK, Step, Closing

(* An execution stays within its types, and cleanup() ends after its last  *)
(* resource.                                                               *)
THEOREM SandboxTypes == Spec => []SandboxTypeOK
<1>1. Spec => []Inv
  BY InitInv, NextInv, PTL DEF Spec
<1>2. Inv => SandboxTypeOK
  BY DEF Inv
<1> QED
  BY <1>1, <1>2, PTL

-----------------------------------------------------------------------------
(* An execution that resolves is clean.                                    *)

Early == {"begin", "runtime", "volume"}

(* No container holds a volume that is gone: docker volume rm refuses.     *)
VolumeOK ==
  /\ Users("volume") \cap live # {} => "volume" \in live
  /\ step \notin Early \cup Closing => "volume" \in live

(* What cleanup() is done with is gone.                                    *)
RemovedOK ==
  step \in Closing /\ failures = 0 =>
    \A i \in 1..5 : i < target => CleanupOrder[i] \notin live

CleanInv == Inv /\ VolumeOK /\ RemovedOK

LEMMA UsersOfVolume ==
  Users("volume") = {"keeper", "online job", "offline job", "helper"}
BY DEF Users

(* Before cleanup() nothing removes the volume.                            *)
LEMMA VolumeKept ==
  ASSUME Inv, Next, step \notin Closing
  PROVE  "volume" \in live => "volume" \in live'
<1>1. CASE Begin \/ InspectRuntime
  BY <1>1 DEF Begin, InspectRuntime
<1>2. CASE CreateResource \/ ConnectProxy \/ AwaitProxy
  BY <1>2 DEF CreateResource, ConnectProxy, AwaitProxy, Docker
<1>3. CASE InspectWorkspace \/ MeasureDisk
  BY <1>3 DEF InspectWorkspace, MeasureDisk
<1>4. CASE LaunchJob \/ FinishJob \/ KillJob \/ ExceedOutput \/ RemoveJob
  BY <1>4 DEF LaunchJob, FinishJob, KillJob, ExceedOutput, RemoveJob, Container
<1>5. CASE StopProxy
  <2>1. live' = live \/ live' = live \ {"proxy"}
    BY <1>5, AttemptRemoves DEF StopProxy
  <2> QED
    BY <2>1
<1>6. CASE RemoveEgress
  <2>1. live' = live \/ live' = live \ {"egress"}
    BY <1>6, AttemptRemoves DEF RemoveEgress
  <2> QED
    BY <2>1
<1>7. CASE Cleanup
  BY <1>7 DEF Cleanup, Closing
<1>8. CASE DeadlinePasses \/ Cancel \/ LeaseExpires \/ AbandonedExits
  BY <1>8 DEF DeadlinePasses, Cancel, LeaseExpires, AbandonedExits
<1> QED
  BY <1>1, <1>2, <1>3, <1>4, <1>5, <1>6, <1>7, <1>8 DEF Next, Progress

(* The first steps, up to the creation of the volume.                      *)
LEMMA EarlyStep ==
  ASSUME Inv, VolumeOK, Next, step \in Early
  PROVE  VolumeOK'
<1>1. CASE Begin \/ InspectRuntime
  <2>1. live' = live /\ step' \in Early \cup Closing
    BY <1>1 DEF Begin, InspectRuntime, Throw, Proceed, GoTo, Early, Closing
  <2> QED
    BY <2>1 DEF VolumeOK
<1>2. CASE CreateResource
  <2>1. step = "volume"
    BY <1>2, AfterSteps DEF CreateResource, Early
  <2>2. Docker({"volume"}, "keeper", checks)
    BY <1>2, <2>1 DEF CreateResource, After
  <2>3. \/ live' = live \cup {"volume"}
        \/ live' = live /\ step' = "cleanup"
    BY <2>2 DEF Docker, Throw, GoTo
  <2> QED
    BY <2>3 DEF VolumeOK, Closing
<1>3. CASE DeadlinePasses \/ Cancel \/ LeaseExpires
  BY <1>3 DEF DeadlinePasses, Cancel, LeaseExpires, VolumeOK
<1>4. ~(Progress /\ ~(Begin \/ InspectRuntime \/ CreateResource))
  BY DEF Progress, ConnectProxy, AwaitProxy, InspectWorkspace, LaunchJob,
         KillJob, RemoveJob, MeasureDisk, StopProxy, RemoveEgress, Cleanup,
         Early, JobStep
<1>5. ~(FinishJob \/ ExceedOutput \/ AbandonedExits)
  BY DEF FinishJob, ExceedOutput, AbandonedExits, Early, JobStep
<1> QED
  BY <1>1, <1>2, <1>3, <1>4, <1>5 DEF Next

(* Until cleanup() has begun there is nothing to show of it.               *)
LEMMA EntersCleanup ==
  ASSUME Inv, Inv', Next, step \notin Closing
  PROVE  RemovedOK'
<1>1. UNCHANGED <<target, failures>>
  <2> USE DEF Throw, Proceed, Return, GoTo
  <2>1. CASE Begin \/ InspectRuntime \/ InspectWorkspace
    BY <2>1 DEF Begin, InspectRuntime, InspectWorkspace
  <2>2. CASE CreateResource \/ ConnectProxy \/ AwaitProxy
    BY <2>2 DEF CreateResource, ConnectProxy, AwaitProxy, Docker
  <2>3. CASE LaunchJob \/ FinishJob \/ KillJob \/ ExceedOutput \/ RemoveJob
    BY <2>3 DEF LaunchJob, FinishJob, KillJob, ExceedOutput, RemoveJob, Stay,
                Rethrow, loopVars
  <2>4. CASE MeasureDisk
    <3>1. CASE Judge
      BY <2>4, <3>1, JudgeMoves DEF MeasureDisk, Moves
    <3>2. CASE ~Judge
      BY <2>4, <3>2 DEF MeasureDisk, Rethrow, loopVars
    <3> QED
      BY <3>1, <3>2
  <2>5. CASE StopProxy \/ RemoveEgress
    BY <2>5 DEF StopProxy, RemoveEgress, AfterInstall, TryAgain
  <2>6. CASE DeadlinePasses \/ Cancel \/ LeaseExpires \/ AbandonedExits
    BY <2>6 DEF DeadlinePasses, Cancel, LeaseExpires, AbandonedExits, loopVars
  <2>7. ~Cleanup
    BY DEF Cleanup, Closing
  <2> QED
    BY <2>1, <2>2, <2>3, <2>4, <2>5, <2>6, <2>7 DEF Next, Progress
<1>2. target' = 1
  BY <1>1 DEF Inv, TargetOK
<1>3. \A i \in 1..5 : ~(i < 1)
  OBVIOUS
<1> QED
  BY <1>2, <1>3 DEF RemovedOK

(* cleanup() shrinks what is live, and adds what it confirms.              *)
LEMMA CleanupClean == ASSUME CleanInv, Inv', Cleanup PROVE VolumeOK' /\ RemovedOK'
<1>1. step = "cleanup" /\ step' \in Closing
  BY DEF Cleanup, TryAgain, NextTarget, Closing
<1>2. PICK answer \in Answer :
        /\ Attempt(CleanupOrder[target], answer)
        /\ \/ /\ ConfirmsResourceAbsent(answer)
              /\ target' = target + 1 /\ failures' = failures
           \/ target' = target /\ failures' = failures
           \/ target' = target + 1 /\ failures' = failures + 1
  BY DEF Cleanup, TryAgain, NextTarget
<1> DEFINE r == CleanupOrder[target]
<1>3. /\ live' = live \/ (live' = live \ {r} /\ Users(r) \cap live = {})
      /\ ConfirmsResourceAbsent(answer) => r \notin live'
  BY <1>2, AttemptRemoves DEF CleanInv
<1>4. VolumeOK'
  BY <1>1, <1>3 DEF CleanInv, VolumeOK
<1>5. ASSUME failures' = 0, NEW i \in 1..5, i < target'
      PROVE  CleanupOrder[i] \notin live'
  <2>1. target \in Nat /\ failures \in Nat
    <3>1. target \in 1..5
      BY <1>1 DEF CleanInv, Inv, TargetOK
    <3>2. failures \in 0..(target - 1)
      BY DEF CleanInv, Inv, SandboxTypeOK
    <3> QED
      BY <3>1, <3>2
  <2>2. /\ failures = 0
        /\ \/ target' = target
           \/ target' = target + 1 /\ ConfirmsResourceAbsent(answer)
    BY <1>2, <1>5, <2>1
  <2>3. i < target \/ (i = target /\ ConfirmsResourceAbsent(answer))
    BY <1>5, <2>1, <2>2
  <2>4. CASE i < target
    BY <1>1, <1>3, <2>2, <2>4 DEF CleanInv, RemovedOK, Closing
  <2>5. CASE i = target /\ ConfirmsResourceAbsent(answer)
    BY <1>3, <2>5
  <2> QED
    BY <2>3, <2>4, <2>5
<1>6. RemovedOK'
  BY <1>5 DEF RemovedOK
<1> QED
  BY <1>4, <1>6

LEMMA NextClean == ASSUME CleanInv, [Next]_vars PROVE CleanInv'
<1>1. Inv'
  BY NextInv DEF CleanInv
<1>2. CASE Next /\ step \notin Closing
  <2>1. VolumeOK'
    <3>1. CASE step \in Early
      BY <1>2, <3>1, EarlyStep DEF CleanInv
    <3>2. CASE step \notin Early
      BY <1>2, <3>2, VolumeKept DEF CleanInv, VolumeOK
    <3> QED
      BY <3>1, <3>2
  <2> QED
    BY <1>1, <1>2, <2>1, EntersCleanup DEF CleanInv
<1>3. CASE Next /\ step \in Closing
  <2>1. Cleanup \/ DeadlinePasses \/ Cancel \/ LeaseExpires \/ AbandonedExits
    BY <1>3, AfterSteps
       DEF Next, Progress, Begin, InspectRuntime, CreateResource, ConnectProxy,
           AwaitProxy, InspectWorkspace, LaunchJob, KillJob, RemoveJob,
           MeasureDisk, StopProxy, RemoveEgress, FinishJob, ExceedOutput,
           Closing, JobStep
  <2>2. CASE Cleanup
    BY <1>1, <2>2, CleanupClean DEF CleanInv
  <2>3. CASE DeadlinePasses \/ Cancel \/ LeaseExpires \/ AbandonedExits
    <3>1. UNCHANGED <<step, target, failures>> /\ live' \subseteq live
      BY <2>3 DEF DeadlinePasses, Cancel, LeaseExpires, AbandonedExits, loopVars
    <3>2. "volume" \in live => "volume" \in live'
      BY <2>3 DEF DeadlinePasses, Cancel, LeaseExpires, AbandonedExits
    <3>3. VolumeOK'
      BY <3>1, <3>2 DEF CleanInv, VolumeOK
    <3>4. RemovedOK'
      BY <3>1 DEF CleanInv, RemovedOK
    <3> QED
      BY <1>1, <3>3, <3>4 DEF CleanInv
  <2> QED
    BY <2>1, <2>2, <2>3
<1>4. CASE UNCHANGED vars
  <2>1. UNCHANGED <<step, live, target, failures>>
    BY <1>4 DEF vars, loopVars
  <2> QED
    BY <1>1, <2>1 DEF CleanInv, VolumeOK, RemovedOK
<1> QED
  BY <1>2, <1>3, <1>4

(* An execution that does not reject leaves nothing on the Docker host,    *)
(* whatever was killed, whenever.                                          *)
THEOREM SandboxResolvedMeansClean == Spec => []ResolvedMeansClean
<1>1. Init => CleanInv
  BY InitInv DEF Init, CleanInv, VolumeOK, RemovedOK, Early, Closing
<1>2. CleanInv => ResolvedMeansClean
  <2> SUFFICES ASSUME CleanInv, step = "ended", failures = 0
               PROVE  live = {}
    BY DEF ResolvedMeansClean
  <2>1. \A i \in 1..5 : CleanupOrder[i] \notin live
    <3>1. target = 6
      BY DEF CleanInv, Inv, TargetOK
    <3>2. \A i \in 1..5 : i < 6
      OBVIOUS
    <3> QED
      BY <3>1, <3>2 DEF CleanInv, RemovedOK, Closing
  <2>2. 1 \in 1..5 /\ 2 \in 1..5 /\ 3 \in 1..5 /\ 4 \in 1..5 /\ 5 \in 1..5
    OBVIOUS
  <2>3. live \cap {"proxy", "keeper", "internal", "egress", "volume"} = {}
    BY <2>1, <2>2, OrderOfCleanup
  <2>4. live \cap {"keeper", "online job", "offline job", "helper"} = {}
    BY <2>3, UsersOfVolume DEF CleanInv, VolumeOK
  <2> QED
    BY <2>3, <2>4 DEF CleanInv, Inv, SandboxTypeOK, Resource
<1>3. Spec => []CleanInv
  BY <1>1, NextClean, PTL DEF Spec
<1> QED
  BY <1>2, <1>3, PTL

-----------------------------------------------------------------------------
(* The code of the repository runs offline.                                *)

OfflineStep == {"build", "test"}

(* The proxy and its network go before the first offline job, and the last *)
(* online job goes before them.                                            *)
OfflineOK ==
  /\ step \notin OfflineStep \cup Removing => "offline job" \notin live
  /\ step \in OfflineStep \cup {"remove egress"} => "proxy" \notin live
  /\ step \in OfflineStep => "egress" \notin live
  /\ "online job" \in live =>
       \/ step \in {"clone", "install"} /\ job = "running"
       \/ step \in Removing /\ "offline job" \notin live
  /\ UntrustedOffline

(* A step that creates nothing, and leads nowhere but to the clean-up.     *)
LEMMA ShrinkOffline ==
  ASSUME OfflineOK, live' \subseteq live,
         \/ UNCHANGED <<step, job>>
         \/ step' \in Removing
  PROVE  OfflineOK'
BY DEF OfflineOK, UntrustedOffline, OfflineStep, Removing, Closing

(* The steps up to the first job, which has not been launched there.       *)
LEMMA OnlineSteps ==
  ASSUME OfflineOK, NEW r \in {"volume", "keeper", "internal", "egress",
                              "proxy", "helper"},
         step \notin OfflineStep \cup Removing \cup {"remove egress"} \cup JobStep,
         live' \subseteq live \cup {r},
         step' \notin OfflineStep \cup {"remove egress"}
  PROVE  OfflineOK'
<1>1. {"offline job", "online job"} \cap live = {}
  BY DEF OfflineOK, JobStep
<1>2. {"offline job", "online job"} \cap live' = {}
  BY <1>1
<1> QED
  BY <1>2 DEF OfflineOK, UntrustedOffline

LEMMA PreludeOffline ==
  ASSUME OfflineOK,
         \/ Begin \/ InspectRuntime \/ CreateResource
         \/ ConnectProxy \/ AwaitProxy \/ InspectWorkspace
  PROVE  OfflineOK'
<1> USE DEF Throw, Proceed, GoTo, OfflineStep, Removing, Closing, JobStep
<1>1. CASE Begin \/ InspectRuntime
  BY <1>1, OnlineSteps DEF Begin, InspectRuntime
<1>2. CASE CreateResource
  <2>1. step \in {"volume", "keeper", "internal", "egress", "proxy"}
    BY <1>2, AfterSteps DEF CreateResource
  <2>2. /\ live' \subseteq live \cup {step}
        /\ step' \in {"keeper", "internal", "egress", "proxy", "connect",
                     "cleanup"}
    BY <1>2, AfterSteps DEF CreateResource, Docker
  <2> QED
    BY <2>1, <2>2, OnlineSteps
<1>3. CASE ConnectProxy \/ AwaitProxy
  <2>1. live' \subseteq live /\ step \in {"connect", "ready"}
    BY <1>3 DEF ConnectProxy, AwaitProxy, Docker
  <2>2. step' \in {"ready", "clone", "cleanup"}
    BY <1>3 DEF ConnectProxy, AwaitProxy, Docker
  <2> QED
    BY <2>1, <2>2, OnlineSteps
<1>4. CASE InspectWorkspace
  <2>1. live' \subseteq live \cup {"helper"} /\ step = "inspect"
    BY <1>4 DEF InspectWorkspace
  <2>2. step' \in {"install", "cleanup"}
    BY <1>4 DEF InspectWorkspace
  <2> QED
    BY <2>1, <2>2, OnlineSteps
<1> QED
  BY <1>1, <1>2, <1>3, <1>4

LEMMA JobOffline ==
  ASSUME OfflineOK, LaunchJob \/ FinishJob \/ KillJob \/ ExceedOutput \/ RemoveJob
  PROVE  OfflineOK'
<1>1. CASE LaunchJob
  <2>1. CASE live' = live /\ step' \in Removing
    BY <2>1, ShrinkOffline
  <2>2. CASE Stay("running") /\ live' \in {live, live \cup {Container}}
    BY <1>1, <2>2
       DEF LaunchJob, Stay, Container, JobStep, OfflineOK, UntrustedOffline,
           OfflineStep, Removing, Closing
  <2> QED
    BY <1>1, <2>1, <2>2 DEF LaunchJob, Throw, GoTo, Rethrow, Removing, Closing
<1>2. CASE FinishJob
  <2>1. /\ step \in JobStep /\ live' = live \ {Container}
        /\ step' = step \/ step' = "remove job"
    BY <1>2 DEF FinishJob, Stay, Rethrow
  <2> QED
    BY <2>1 DEF Container, JobStep, OfflineOK, UntrustedOffline, OfflineStep,
                Removing, Closing
<1>3. CASE KillJob \/ ExceedOutput \/ RemoveJob
  <2>1. live' \subseteq live /\ step' \in Removing
    BY <1>3 DEF KillJob, ExceedOutput, RemoveJob, Rethrow, Throw, GoTo,
                Removing, Closing
  <2> QED
    BY <2>1, ShrinkOffline
<1> QED
  BY <1>1, <1>2, <1>3

(* A measured job has ended.                                               *)
LEMMA MeasureOffline == ASSUME Inv, OfflineOK, MeasureDisk PROVE OfflineOK'
<1>1. /\ step \in JobStep /\ job = "measure"
      /\ live' \in {live, live \cup {"helper"}}
  BY DEF MeasureDisk
<1>2. "online job" \notin live
  BY <1>1 DEF OfflineOK, JobStep, Removing, Closing
<1>3. CASE step' \in Removing
  BY <1>1, <1>2, <1>3 DEF OfflineOK, UntrustedOffline, OfflineStep, Removing, Closing
<1>4. CASE Judge /\ live' = live
  <2> USE DEF Throw, Proceed, Return, GoTo
  <2>1. CASE step \in {"clone", "install"}
    <3>1. step' \in {"inspect", "stop proxy", "cleanup"}
      BY <1>4, <2>1 DEF Judge
    <3> QED
      BY <1>2, <1>4, <2>1, <3>1
         DEF OfflineOK, UntrustedOffline, OfflineStep, Removing, Closing
  <2>2. CASE step \in {"build", "test"}
    <3>1. step' \in {"test", "cleanup"}
      BY <1>4, <2>2 DEF Judge
    <3> QED
      BY <1>2, <1>4, <2>2, <3>1
         DEF OfflineOK, UntrustedOffline, OfflineStep, Removing, Closing
  <2> QED
    BY <1>1, <2>1, <2>2 DEF JobStep
<1> QED
  BY <1>3, <1>4 DEF MeasureDisk, Rethrow, Removing

LEMMA NetworkOffline ==
  ASSUME Inv, OfflineOK, StopProxy \/ RemoveEgress
  PROVE  OfflineOK'
<1>1. {"offline job", "online job"} \cap live = {} /\ step \notin Removing
  BY DEF StopProxy, RemoveEgress, OfflineOK, OfflineStep, Removing, Closing
<1> USE DEF Throw, Proceed, Return, GoTo
<1>2. CASE StopProxy
  <2>1. PICK answer \in Answer :
          /\ Attempt("proxy", answer)
          /\ \/ ConfirmsResourceAbsent(answer) /\ step' = "remove egress"
             \/ step' \in {"stop proxy", "cleanup"}
    BY <1>2 DEF StopProxy, TryAgain
  <2>2. live' \subseteq live /\ (step' = "remove egress" => "proxy" \notin live')
    BY <2>1, AttemptRemoves
  <2> QED
    BY <1>1, <2>1, <2>2
       DEF OfflineOK, UntrustedOffline, OfflineStep, Removing, Closing
<1>3. CASE RemoveEgress
  <2>1. PICK answer \in Answer :
          /\ Attempt("egress", answer)
          /\ \/ ConfirmsResourceAbsent(answer) /\ step' \in OfflineStep
             \/ step' \in {"remove egress", "cleanup"}
    BY <1>3 DEF RemoveEgress, TryAgain, AfterInstall, OfflineStep
  <2>2. live' \subseteq live /\ (step' \in OfflineStep => "egress" \notin live')
    BY <2>1, AttemptRemoves DEF OfflineStep
  <2>3. "proxy" \notin live
    BY <1>3 DEF RemoveEgress, OfflineOK
  <2> QED
    BY <1>1, <2>1, <2>2, <2>3
       DEF OfflineOK, UntrustedOffline, OfflineStep, Removing, Closing
<1> QED
  BY <1>2, <1>3

LEMMA NextOffline ==
  ASSUME Inv, OfflineOK, [Next]_vars
  PROVE  OfflineOK'
<1>1. CASE Begin \/ InspectRuntime \/ CreateResource \/ ConnectProxy
             \/ AwaitProxy \/ InspectWorkspace
  BY <1>1, PreludeOffline
<1>2. CASE LaunchJob \/ FinishJob \/ KillJob \/ ExceedOutput \/ RemoveJob
  BY <1>2, JobOffline
<1>3. CASE MeasureDisk
  BY <1>3, MeasureOffline
<1>4. CASE StopProxy \/ RemoveEgress
  BY <1>4, NetworkOffline
<1>5. CASE Cleanup
  <2>1. live' \subseteq live
    BY <1>5, AttemptRemoves DEF Cleanup
  <2>2. step' \in Removing
    BY <1>5 DEF Cleanup, TryAgain, NextTarget, Removing, Closing
  <2> QED
    BY <2>1, <2>2, ShrinkOffline
<1>6. CASE DeadlinePasses \/ Cancel \/ LeaseExpires \/ AbandonedExits
  BY <1>6, ShrinkOffline
     DEF DeadlinePasses, Cancel, LeaseExpires, AbandonedExits, jobVars
<1>7. CASE UNCHANGED vars
  BY <1>7, ShrinkOffline DEF vars, jobVars
<1> QED
  BY <1>1, <1>2, <1>3, <1>4, <1>5, <1>6, <1>7 DEF Next, Progress

(* While the code of the repository is built and tested, the proxy, its    *)
(* network and every job with a network are gone.                          *)
THEOREM SandboxUntrustedOffline == Spec => []UntrustedOffline
<1>1. Init => Inv /\ OfflineOK
  BY InitInv DEF Init, OfflineOK, UntrustedOffline, OfflineStep
<1>2. Inv /\ OfflineOK /\ [Next]_vars => (Inv /\ OfflineOK)'
  BY NextInv, NextOffline
<1>3. OfflineOK => UntrustedOffline
  BY DEF OfflineOK
<1> QED
  BY <1>1, <1>2, <1>3, PTL DEF Spec

-----------------------------------------------------------------------------
(* No project passes without having run.                                   *)

EarnedOK ==
  /\ verdict = "PASS" => step \in Closing
  /\ step \in {"install", "stop proxy", "remove egress"} \cup OfflineStep
       => project \in Project
  /\ step = "build" => project.hasBuild
  /\ step = "test" => project.hasTest /\ (project.hasBuild => checks.build = "PASSED")
  /\ PassIsEarned

(* A step that neither passes the project nor starts to run its scripts.   *)
LEMMA ShrinkEarned ==
  ASSUME EarnedOK, step \notin Closing, verdict' \in {verdict, "FAIL", "INCONCLUSIVE"},
         \/ step' = step /\ UNCHANGED <<project, checks>>
         \/ step' \notin {"install", "stop proxy", "remove egress"} \cup OfflineStep
  PROVE  EarnedOK'
<1>1. verdict' # "PASS"
  BY DEF EarnedOK
<1> QED
  BY <1>1 DEF EarnedOK, PassIsEarned, OfflineStep

LEMMA JudgeEarned ==
  ASSUME Inv, EarnedOK, step \in JobStep, Judge, project' = project
  PROVE  EarnedOK'
<1> USE DEF Throw, Proceed, Return, GoTo
<1>1. step \notin Closing /\ verdict # "PASS"
  BY JobSteps DEF EarnedOK, Removing
<1>2. CASE step \in {"clone", "install"}
  <2>1. verdict' # "PASS" /\ step' \in {"inspect", "stop proxy", "cleanup"}
    BY <1>1, <1>2 DEF Judge
  <2>2. step' = "stop proxy" => step = "install"
    BY <1>2 DEF Judge
  <2> QED
    BY <2>1, <2>2 DEF EarnedOK, PassIsEarned, OfflineStep
<1>3. CASE step = "build"
  <2>1. project \in Project /\ project.hasBuild
    BY <1>3 DEF EarnedOK, OfflineStep
  <2>2. CASE step' = "cleanup" /\ verdict' = "FAIL"
    BY <2>2, <1>1, ShrinkEarned DEF OfflineStep
  <2>3. CASE /\ exit = "zero" /\ project.hasTest /\ step' = "test"
             /\ checks' = [checks EXCEPT !.build = "PASSED", !.test = "RUNNING"]
             /\ verdict' = verdict
    <3>1. checks'.build = "PASSED"
      BY <2>3, CheckIds DEF Inv, SandboxTypeOK
    <3> QED
      BY <1>1, <2>1, <2>3, <3>1 DEF EarnedOK, PassIsEarned, OfflineStep
  <2>4. CASE /\ exit = "zero" /\ ~project.hasTest /\ step' = "cleanup"
             /\ checks' = [checks EXCEPT !.build = "PASSED", !.test = "SKIPPED"]
    <3>1. checks'.build = "PASSED"
      BY <2>4, CheckIds DEF Inv, SandboxTypeOK
    <3> QED
      BY <2>1, <2>4, <3>1 DEF EarnedOK, PassIsEarned, OfflineStep, Closing
  <2> QED
    BY <1>3, <2>2, <2>3, <2>4 DEF Judge
<1>4. CASE step = "test"
  <2>1. /\ project \in Project /\ project.hasTest
        /\ project.hasBuild => checks.build = "PASSED"
    BY <1>4 DEF EarnedOK, OfflineStep
  <2>2. CASE step' = "cleanup" /\ verdict' = "FAIL"
    BY <2>2, <1>1, ShrinkEarned DEF OfflineStep
  <2>3. CASE step' = "cleanup" /\ checks' = [checks EXCEPT !.test = "PASSED"]
    <3>1. checks'.test = "PASSED" /\ checks'.build = checks.build
      BY <2>3, CheckIds DEF Inv, SandboxTypeOK
    <3> QED
      BY <2>1, <2>3, <3>1 DEF EarnedOK, PassIsEarned, OfflineStep, Closing
  <2> QED
    BY <1>4, <2>2, <2>3 DEF Judge
<1> QED
  BY <1>2, <1>3, <1>4 DEF JobStep

LEMMA NextEarned ==
  ASSUME Inv, EarnedOK, [Next]_vars
  PROVE  EarnedOK'
<1> USE DEF Throw, Proceed, Return, GoTo
<1>1. CASE Begin \/ InspectRuntime \/ CreateResource \/ ConnectProxy \/ AwaitProxy
  <2>1. step \notin Closing /\ verdict' \in {verdict, "INCONCLUSIVE"}
    BY <1>1, AfterSteps
       DEF Begin, InspectRuntime, CreateResource, ConnectProxy, AwaitProxy,
           Docker, reportVars, Closing
  <2>2. step' \notin {"install", "stop proxy", "remove egress"} \cup OfflineStep
    BY <1>1, AfterSteps
       DEF Begin, InspectRuntime, CreateResource, ConnectProxy, AwaitProxy,
           Docker, OfflineStep
  <2> QED
    BY <2>1, <2>2, ShrinkEarned
<1>2. CASE InspectWorkspace
  <2>1. step \notin Closing /\ verdict' # "PASS"
    BY <1>2 DEF InspectWorkspace, EarnedOK, Closing
  <2>2. step' = "cleanup" \/ (step' = "install" /\ project' \in Project)
    BY <1>2 DEF InspectWorkspace, Project
  <2> QED
    BY <2>1, <2>2 DEF EarnedOK, PassIsEarned, OfflineStep
<1>3. CASE LaunchJob \/ FinishJob \/ KillJob \/ ExceedOutput \/ RemoveJob
  <2>1. /\ step \notin Closing /\ verdict' \in {verdict, "INCONCLUSIVE"}
        /\ project' = project
    BY <1>3 DEF LaunchJob, FinishJob, KillJob, ExceedOutput, RemoveJob, Stay,
                Rethrow, reportVars, Closing, JobStep
  <2>2. (step' = step /\ checks' = checks) \/ step' \in Removing
    BY <1>3 DEF LaunchJob, FinishJob, KillJob, ExceedOutput, RemoveJob, Stay,
                Rethrow, reportVars, Removing, Closing
  <2> QED
    BY <2>1, <2>2, ShrinkEarned DEF OfflineStep, Removing, Closing
<1>4. CASE MeasureDisk
  <2>1. step \in JobStep /\ project' = project
    BY <1>4 DEF MeasureDisk
  <2>2. CASE Judge
    BY <2>1, <2>2, JudgeEarned
  <2>3. CASE step' = "remove job" /\ verdict' = verdict
    BY <2>1, <2>3, JobSteps, ShrinkEarned DEF OfflineStep, Removing
  <2> QED
    BY <1>4, <2>2, <2>3 DEF MeasureDisk, Rethrow, reportVars
<1>5. CASE StopProxy
  <2>1. step = "stop proxy" /\ verdict' # "PASS" /\ project' = project
    BY <1>5 DEF StopProxy, TryAgain, reportVars, EarnedOK, Closing
  <2>2. step' \in {"stop proxy", "remove egress", "cleanup"}
    BY <1>5 DEF StopProxy, TryAgain
  <2> QED
    BY <2>1, <2>2 DEF EarnedOK, PassIsEarned, OfflineStep
<1>6. CASE RemoveEgress
  <2>1. step = "remove egress" /\ verdict # "PASS" /\ project' = project
    BY <1>6 DEF RemoveEgress, EarnedOK, Closing
  <2>2. project \in Project
    BY <2>1 DEF EarnedOK
  <2>3. verdict' # "PASS"
    BY <1>6, <2>1 DEF RemoveEgress, TryAgain, AfterInstall, reportVars
  <2>4. \/ step' \in {"remove egress", "cleanup"}
        \/ step' = "build" /\ project.hasBuild
        \/ step' = "test" /\ project.hasTest /\ ~project.hasBuild
    BY <1>6 DEF RemoveEgress, TryAgain, AfterInstall
  <2> QED
    BY <2>1, <2>2, <2>3, <2>4 DEF EarnedOK, PassIsEarned, OfflineStep
<1>7. CASE \/ Cleanup \/ DeadlinePasses \/ Cancel \/ LeaseExpires
           \/ AbandonedExits \/ UNCHANGED vars
  <2>1. UNCHANGED <<project, checks, verdict>>
    BY <1>7 DEF Cleanup, TryAgain, NextTarget, DeadlinePasses, Cancel,
                LeaseExpires, AbandonedExits, vars, reportVars
  <2>2. step' = step \/ (step \in Closing /\ step' \in Closing)
    BY <1>7 DEF Cleanup, TryAgain, NextTarget, DeadlinePasses, Cancel,
                LeaseExpires, AbandonedExits, vars, Closing
  <2> QED
    BY <2>1, <2>2 DEF EarnedOK, PassIsEarned, OfflineStep, Closing
<1> QED
  BY <1>1, <1>2, <1>3, <1>4, <1>5, <1>6, <1>7 DEF Next, Progress

(* A verdict of PASS stands for at least one script that was run and for   *)
(* no script that failed.                                                  *)
THEOREM SandboxPassIsEarned == Spec => []PassIsEarned
<1>1. Init => Inv /\ EarnedOK
  BY InitInv DEF Init, EarnedOK, PassIsEarned, OfflineStep
<1>2. Inv /\ EarnedOK /\ [Next]_vars => (Inv /\ EarnedOK)'
  BY NextInv, NextEarned
<1>3. EarnedOK => PassIsEarned
  BY DEF EarnedOK
<1> QED
  BY <1>1, <1>2, <1>3, PTL DEF Spec

-----------------------------------------------------------------------------
(* The report fits its schema.  Until an outcome is decided some check is  *)
(* still to be settled and none has gone wrong; the checks of the steps    *)
(* execute() has passed are settled, those of the steps before it are not. *)

Open(cs) ==
  /\ \A c \in CheckId : cs[c] \in {"PENDING", "RUNNING", "PASSED", "SKIPPED"}
  /\ \E c \in CheckId : cs[c] \in {"PENDING", "RUNNING"}

Expected(s, cs) ==
  /\ s \notin Removing \cup OfflineStep => cs.build = "PENDING" /\ cs.test = "PENDING"
  /\ s \in {"clone", "inspect", "install", "stop proxy", "remove egress"} \cup OfflineStep
       => cs.sandbox = "PASSED"
  /\ s \in {"install", "stop proxy", "remove egress"} \cup OfflineStep
       => cs.repository = "PASSED"
  /\ s \in {"stop proxy", "remove egress"} \cup OfflineStep => cs.install = "PASSED"
  /\ s = "test" => cs.build \in {"PASSED", "SKIPPED"}

Fits(v, cs) ==
  /\ \A c \in CheckId : cs[c] \notin {"PENDING", "RUNNING"}
  /\ v = "PASS" => \A c \in CheckId : cs[c] \in {"PASSED", "SKIPPED"}
  /\ v = "FAIL" => \E c \in CheckId : cs[c] = "FAILED"
  /\ v = "INCONCLUSIVE" => \E c \in CheckId : cs[c] = "INCONCLUSIVE"

ReportOK ==
  /\ step \notin Closing => Open(checks) /\ Expected(step, checks)
  /\ step \in Closing => status = "SYSTEM_ERROR" \/ Fits(verdict, checks)

(* Among the checks that are pending one comes first. *)
LEMMA FirstPending ==
  ASSUME NEW pending \in SUBSET CheckId, pending # {}
  PROVE  \E c \in pending : \A d \in pending : CheckOrder[c] <= CheckOrder[d]
<1>1. /\ CheckOrder.repository = 1 /\ CheckOrder.sandbox = 2 /\ CheckOrder.install = 3
      /\ CheckOrder.build = 4 /\ CheckOrder.test = 5
  BY DEF CheckOrder
<1>2. CASE "repository" \in pending
  BY <1>1, <1>2, CheckIds
<1>3. CASE "repository" \notin pending /\ "sandbox" \in pending
  BY <1>1, <1>3, CheckIds
<1>4. CASE {"repository", "sandbox"} \cap pending = {} /\ "install" \in pending
  BY <1>1, <1>4, CheckIds
<1>5. CASE {"repository", "sandbox", "install"} \cap pending = {} /\ "build" \in pending
  BY <1>1, <1>5, CheckIds
<1>6. CASE pending = {"test"}
  BY <1>1, <1>6
<1> QED
  BY <1>2, <1>3, <1>4, <1>5, <1>6, CheckIds

(* The catch clause settles every check and names the one it was at.       *)
LEMMA AbandonedFits ==
  ASSUME NEW cs \in [CheckId -> Outcome], Open(cs)
  PROVE  Fits("INCONCLUSIVE", Abandoned(cs))
<1> DEFINE running == {c \in CheckId : cs[c] = "RUNNING"}
           pending == {c \in CheckId : cs[c] = "PENDING"}
           first == {c \in pending : \A d \in pending : CheckOrder[c] <= CheckOrder[d]}
           hit == IF running # {} THEN running ELSE first
<1>1. \A c \in CheckId :
        Abandoned(cs)[c] = CASE c \in hit -> "INCONCLUSIVE"
                             [] c \in pending \ hit -> "SKIPPED"
                             [] OTHER -> cs[c]
  BY DEF Abandoned
<1>2. hit # {} /\ hit \subseteq CheckId /\ running \subseteq hit
  <2>1. running = {} => pending # {}
    BY DEF Open
  <2>2. pending # {} => first # {}
    BY FirstPending
  <2> QED
    BY <2>1, <2>2
<1>3. \A c \in CheckId : /\ c \in pending <=> cs[c] = "PENDING"
                         /\ c \in running <=> cs[c] = "RUNNING"
  OBVIOUS
<1> HIDE DEF running, pending, first, hit
<1>4. ASSUME NEW c \in CheckId
      PROVE  Abandoned(cs)[c] \notin {"PENDING", "RUNNING"}
  <2>1. CASE c \in hit
    BY <1>1, <2>1
  <2>2. CASE c \notin hit /\ c \in pending
    BY <1>1, <2>2
  <2>3. CASE c \notin hit /\ c \notin pending
    <3>1. Abandoned(cs)[c] = cs[c]
      BY <1>1, <2>3
    <3> QED
      BY <1>2, <1>3, <2>3, <3>1
  <2> QED
    BY <2>1, <2>2, <2>3
<1>5. \E c \in CheckId : Abandoned(cs)[c] = "INCONCLUSIVE"
  BY <1>1, <1>2
<1> QED
  BY <1>4, <1>5 DEF Fits

LEMMA ThrowReport ==
  ASSUME Inv, ReportOK, step \notin Closing, NEW code, Throw(code)
  PROVE  ReportOK'
<1>1. /\ step' = "cleanup" /\ verdict' = "INCONCLUSIVE" /\ checks' = Abandoned(checks)
  BY DEF Throw, GoTo
<1>2. Fits("INCONCLUSIVE", Abandoned(checks))
  BY AbandonedFits DEF ReportOK, Inv, SandboxTypeOK
<1> QED
  BY <1>1, <1>2 DEF ReportOK, Closing

LEMMA ProceedReport ==
  ASSUME NEW s \in Step \ Closing, NEW cs, Proceed(s, cs), Open(cs), Expected(s, cs)
  PROVE  ReportOK'
BY DEF Proceed, GoTo, ReportOK

LEMMA ReturnReport ==
  ASSUME NEW v, NEW why, NEW cs, Return(v, why, cs), Fits(v, cs)
  PROVE  ReportOK'
BY DEF Return, GoTo, ReportOK, Closing

LEMMA RethrowReport ==
  ASSUME ReportOK, step \notin Closing, NEW code, Rethrow(code)
  PROVE  ReportOK'
BY DEF Rethrow, reportVars, ReportOK, Closing, Expected, Removing, OfflineStep

LEMMA StayReport ==
  ASSUME ReportOK, UNCHANGED <<checks, verdict, status>>,
         step' = step \/ (step \in Closing /\ step' \in Closing)
  PROVE  ReportOK'
BY DEF ReportOK

LEMMA DockerReport ==
  ASSUME Inv, ReportOK, step \notin Closing, NEW effect, NEW s \in Step \ Closing, NEW cs,
         Docker(effect, s, cs), Open(cs), Expected(s, cs)
  PROVE  ReportOK'
BY ThrowReport, ProceedReport DEF Docker

(* What the exit code of a job makes of the checks. *)
LEMMA JudgeReport ==
  ASSUME Inv, ReportOK, step \in JobStep, Judge
  PROVE  ReportOK'
<1>1. /\ step \notin Closing /\ step \notin Removing
      /\ Open(checks) /\ Expected(step, checks) /\ checks \in [CheckId -> Outcome]
  BY JobSteps DEF Removing, ReportOK, Inv, SandboxTypeOK
<1>2. {"inspect", "stop proxy", "test"} \subseteq Step \ Closing
  BY DEF Step, Closing
<1>3. CASE step = "clone"
  <2>1. Proceed("inspect", checks) \/ Throw("RUNNER_FAILURE")
    BY <1>3 DEF Judge
  <2>2. Expected("inspect", checks)
    BY <1>1, <1>3 DEF Expected, Removing, Closing, OfflineStep
  <2> QED
    BY <1>1, <1>2, <2>1, <2>2, ThrowReport, ProceedReport
<1>4. CASE step = "install"
  <2> DEFINE cs == [checks EXCEPT !.install = "PASSED"]
  <2>1. Proceed("stop proxy", cs) \/ Throw("REGISTRY_FAILURE")
    BY <1>4 DEF Judge
  <2>2. /\ checks.build = "PENDING" /\ checks.test = "PENDING"
        /\ checks.sandbox = "PASSED" /\ checks.repository = "PASSED"
    BY <1>1, <1>4 DEF Expected, OfflineStep
  <2>3. Open(cs) /\ Expected("stop proxy", cs)
    BY <1>1, <2>2, CheckIds DEF Open, Expected
  <2> HIDE DEF cs
  <2> QED
    BY <1>1, <1>2, <2>1, <2>3, ThrowReport, ProceedReport
<1>5. CASE step \in {"build", "test"}
  <2>1. checks.sandbox = "PASSED" /\ checks.repository = "PASSED" /\ checks.install = "PASSED"
    BY <1>1, <1>5 DEF Expected, OfflineStep
  <2>2. CASE step = "build"
    <3> DEFINE failed == [checks EXCEPT !.build = "FAILED", !.test = "SKIPPED"]
               tested == [checks EXCEPT !.build = "PASSED", !.test = "RUNNING"]
               built == [checks EXCEPT !.build = "PASSED", !.test = "SKIPPED"]
    <3>1. Return("FAIL", None, failed) \/ Proceed("test", tested) \/ Return("PASS", None, built)
      BY <1>1, <2>2 DEF Judge
    <3>2. Fits("FAIL", failed) /\ Fits("PASS", built)
      BY <1>1, <2>1, CheckIds DEF Fits
    <3>3. Open(tested) /\ Expected("test", tested)
      BY <1>1, <2>1, CheckIds DEF Open, Expected, OfflineStep
    <3> HIDE DEF failed, tested, built
    <3> QED
      BY <1>2, <3>1, <3>2, <3>3, ReturnReport, ProceedReport
  <2>3. CASE step = "test"
    <3> DEFINE tested(o) == [checks EXCEPT !.test = o]
    <3>1. Return("PASS", None, tested("PASSED")) \/ Return("FAIL", None, tested("FAILED"))
      BY <2>3 DEF Judge
    <3>2. checks.build \in {"PASSED", "SKIPPED"}
      BY <1>1, <2>3 DEF Expected
    <3>3. Fits("PASS", tested("PASSED")) /\ Fits("FAIL", tested("FAILED"))
      BY <1>1, <2>1, <3>2, CheckIds DEF Fits
    <3> HIDE DEF tested
    <3> QED
      BY <3>1, <3>3, ReturnReport
  <2> QED
    BY <1>5, <2>2, <2>3
<1> QED
  BY <1>3, <1>4, <1>5 DEF JobStep

LEMMA AfterInstallReport ==
  ASSUME Inv, ReportOK, step = "remove egress", AfterInstall
  PROVE  ReportOK'
<1> DEFINE b == [checks EXCEPT !.build = "RUNNING"]
           t == [checks EXCEPT !.build = "SKIPPED", !.test = "RUNNING"]
           n == [checks EXCEPT !.build = "SKIPPED", !.test = "INCONCLUSIVE"]
<1>1. /\ Open(checks) /\ Expected(step, checks) /\ checks \in [CheckId -> Outcome]
      /\ checks.sandbox = "PASSED" /\ checks.repository = "PASSED"
      /\ checks.install = "PASSED"
  BY DEF ReportOK, Closing, Expected, Inv, SandboxTypeOK
<1>2. \/ Proceed("build", b) \/ Proceed("test", t)
      \/ Return("INCONCLUSIVE", "INDETERMINATE_SKILL_RESULT", n)
  BY DEF AfterInstall
<1>3. /\ Open(b) /\ Expected("build", b)
      /\ Open(t) /\ Expected("test", t)
      /\ Fits("INCONCLUSIVE", n)
  BY <1>1, CheckIds DEF Open, Expected, Fits, OfflineStep
<1>4. {"build", "test"} \subseteq Step \ Closing
  BY DEF Step, Closing
<1> HIDE DEF b, t, n
<1> QED
  BY <1>2, <1>3, <1>4, ProceedReport, ReturnReport

(* Up to the first job. *)
LEMMA PreludeReport ==
  ASSUME Inv, ReportOK,
         Begin \/ InspectRuntime \/ CreateResource \/ ConnectProxy \/ AwaitProxy
  PROVE  ReportOK'
<1>1. step \in {"begin", "runtime", "connect", "ready"} \cup DOMAIN After
  BY DEF Begin, InspectRuntime, CreateResource, ConnectProxy, AwaitProxy
<1>2. /\ step \notin Closing /\ Open(checks) /\ checks \in [CheckId -> Outcome]
      /\ checks.build = "PENDING" /\ checks.test = "PENDING"
  BY <1>1, AfterSteps DEF ReportOK, Closing, Removing, OfflineStep, Expected, Inv, SandboxTypeOK
<1>3. CASE Begin
  <2> DEFINE cs == [checks EXCEPT !.sandbox = "RUNNING"]
  <2>1. Throw("SKILL_HASH_MISMATCH") \/ Proceed("runtime", cs)
    BY <1>3 DEF Begin
  <2>2. /\ Open(cs) /\ Expected("runtime", cs) /\ "runtime" \in Step \ Closing
    BY <1>2, CheckIds DEF Open, Expected, OfflineStep, Step, Closing
  <2> HIDE DEF cs
  <2> QED
    BY <1>2, <2>1, <2>2, ThrowReport, ProceedReport
<1>4. CASE InspectRuntime
  <2>1. /\ Expected("volume", checks) /\ "volume" \in Step \ Closing
    BY <1>2 DEF Expected, OfflineStep, Step, Closing
  <2>2. CASE Proceed("volume", checks)
    BY <1>2, <2>1, <2>2, ProceedReport
  <2>3. CASE status' = "SYSTEM_ERROR" /\ GoTo("cleanup")
    BY <2>3 DEF GoTo, ReportOK, Closing
  <2>4. CASE \E code \in {"RUNNER_FAILURE", "TIMEOUT"} : Throw(code)
    BY <1>2, <2>4, ThrowReport
  <2> QED
    BY <1>4, <2>2, <2>3, <2>4 DEF InspectRuntime
<1>5. CASE CreateResource
  <2>1. /\ Docker({step}, After[step], checks)
        /\ After[step] \in {"keeper", "internal", "egress", "proxy", "connect"}
    BY <1>5, AfterSteps DEF CreateResource
  <2>2. /\ After[step] \in Step \ Closing /\ Expected(After[step], checks)
    BY <1>2, <2>1 DEF Expected, OfflineStep, Step, Closing
  <2> QED
    BY <1>2, <2>1, <2>2, DockerReport
<1>6. CASE ConnectProxy
  <2>1. /\ Expected("ready", checks) /\ "ready" \in Step \ Closing
    BY <1>2 DEF Expected, OfflineStep, Step, Closing
  <2> QED
    BY <1>2, <1>6, <2>1, DockerReport DEF ConnectProxy
<1>7. CASE AwaitProxy
  <2> DEFINE cs == [checks EXCEPT !.sandbox = "PASSED", !.repository = "RUNNING"]
  <2>1. /\ Open(cs) /\ Expected("clone", cs) /\ "clone" \in Step \ Closing
    BY <1>2, CheckIds DEF Open, Expected, OfflineStep, Step, Closing
  <2>2. \/ Docker({}, "clone", cs)
        \/ Throw("RUNNER_FAILURE")
        \/ step' = step /\ UNCHANGED <<checks, verdict, status>>
    BY <1>7 DEF AwaitProxy, reportVars
  <2> HIDE DEF cs
  <2> QED
    BY <1>2, <2>1, <2>2, DockerReport, ThrowReport, StayReport
<1> QED
  BY <1>3, <1>4, <1>5, <1>6, <1>7

LEMMA NextReport ==
  ASSUME Inv, ReportOK, [Next]_vars
  PROVE  ReportOK'
<1>1. CASE Begin \/ InspectRuntime \/ CreateResource \/ ConnectProxy \/ AwaitProxy
  BY <1>1, PreludeReport
<1>2. CASE InspectWorkspace
  <2> DEFINE cs == [checks EXCEPT !.repository = "PASSED", !.install = "RUNNING"]
  <2>1. /\ step = "inspect" /\ step \notin Closing
        /\ Open(checks) /\ checks \in [CheckId -> Outcome]
        /\ checks.build = "PENDING" /\ checks.test = "PENDING" /\ checks.sandbox = "PASSED"
    BY <1>2 DEF InspectWorkspace, Closing, ReportOK, Expected, Removing, OfflineStep,
                Inv, SandboxTypeOK
  <2>2. Open(cs) /\ Expected("install", cs) /\ "install" \in Step \ Closing
    BY <2>1, CheckIds DEF Open, Expected, OfflineStep, Step, Closing
  <2>3. \/ Proceed("install", cs)
        \/ \E code \in {"LOCKFILE_MISSING", "RUNNER_FAILURE", "TIMEOUT"} : Throw(code)
    BY <1>2 DEF InspectWorkspace
  <2> HIDE DEF cs
  <2> QED
    BY <2>1, <2>2, <2>3, ThrowReport, ProceedReport
<1>3. CASE LaunchJob \/ FinishJob \/ KillJob \/ ExceedOutput \/ RemoveJob
  <2>1. step \notin Closing
    BY <1>3 DEF LaunchJob, FinishJob, KillJob, ExceedOutput, RemoveJob, JobStep, Closing
  <2>2. \/ \E code \in Code : Rethrow(code)
        \/ \E j \in {"launch", "running", "measure"} : Stay(j)
        \/ \E code : Throw(code)
    BY <1>3 DEF LaunchJob, FinishJob, KillJob, ExceedOutput, RemoveJob, Code
  <2> QED
    BY <2>1, <2>2, RethrowReport, StayReport, ThrowReport DEF Stay, reportVars
<1>4. CASE MeasureDisk
  <2>1. step \in JobStep /\ (Judge \/ \E code : Rethrow(code))
    BY <1>4 DEF MeasureDisk
  <2> QED
    BY <2>1, JudgeReport, RethrowReport, JobSteps DEF Removing
<1>5. CASE StopProxy
  <2>1. /\ step = "stop proxy" /\ step \notin Closing
        /\ Open(checks) /\ Expected(step, checks)
    BY <1>5 DEF StopProxy, Closing, ReportOK
  <2>2. Expected("remove egress", checks) /\ "remove egress" \in Step \ Closing
    BY <2>1 DEF Expected, Removing, OfflineStep, Step, Closing
  <2>3. Proceed("remove egress", checks) \/ TryAgain \/ \E code : Throw(code)
    BY <1>5 DEF StopProxy
  <2> QED
    BY <2>1, <2>2, <2>3, ProceedReport, ThrowReport, StayReport DEF TryAgain, reportVars
<1>6. CASE RemoveEgress
  <2>1. step = "remove egress" /\ step \notin Closing
    BY <1>6 DEF RemoveEgress, Closing
  <2>2. AfterInstall \/ TryAgain \/ \E code : Throw(code)
    BY <1>6 DEF RemoveEgress
  <2> QED
    BY <2>1, <2>2, AfterInstallReport, ThrowReport, StayReport DEF TryAgain, reportVars
<1>7. CASE \/ Cleanup \/ DeadlinePasses \/ Cancel \/ LeaseExpires
           \/ AbandonedExits \/ UNCHANGED vars
  <2>1. UNCHANGED <<checks, verdict, status>>
    BY <1>7 DEF Cleanup, TryAgain, NextTarget, DeadlinePasses, Cancel,
                LeaseExpires, AbandonedExits, vars, reportVars
  <2>2. step' = step \/ (step \in Closing /\ step' \in Closing)
    BY <1>7 DEF Cleanup, TryAgain, NextTarget, DeadlinePasses, Cancel,
                LeaseExpires, AbandonedExits, vars, Closing
  <2> QED
    BY <2>1, <2>2, StayReport
<1> QED
  BY <1>1, <1>2, <1>3, <1>4, <1>5, <1>6, <1>7 DEF Next, Progress

(* Whichever await an error, a time-out or a cancellation comes from, the  *)
(* report has no open check and its verdict is one its checks allow.       *)
THEOREM SandboxReportValid == Spec => []ReportValid
<1>1. Init => Inv /\ ReportOK
  <2>1. Init => ReportOK
    BY CheckIds DEF Init, ReportOK, Open, Expected, Closing, Removing, OfflineStep
  <2> QED
    BY <2>1, InitInv
<1>2. Inv /\ ReportOK /\ [Next]_vars => (Inv /\ ReportOK)'
  BY NextInv, NextReport
<1>3. ReportOK => ReportValid
  BY DEF ReportOK, ReportValid, Fits, Closing
<1> QED
  BY <1>1, <1>2, <1>3, PTL DEF Spec
=============================================================================
