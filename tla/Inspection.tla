------------------------------ MODULE Inspection ------------------------------
(***************************************************************************)
(* A repository is looked at twice: inspection reads a few files of a      *)
(* commit over the network, one request each, while the branch moves on;   *)
(* the runner clones the commit that inspection named, later, and inspects *)
(* the checkout with a script of its own before it runs anything.          *)
(***************************************************************************)
EXTENDS Schema, FiniteSets

CONSTANTS
  Commits,
  Trees    \* what a commit may hold: manifest, files, obstacle

InspectedFiles == {"package-lock.json", "pnpm-lock.yaml", "tsconfig.json", ".nvmrc"}

(* What only a checkout shows, and the code that it is refused with. *)
Obstacles == {"SUBMODULES_UNSUPPORTED", "SYMLINKS_UNSUPPORTED", "FILE_COUNT_LIMIT_EXCEEDED",
              "REPOSITORY_LIMIT_EXCEEDED", "GIT_LFS_UNSUPPORTED"}

(* A manifest is absent, no JSON, JSON null, or an object; its             *)
(* packageManager names npm or pnpm, is the empty string or no string.     *)
Manifests ==
  [kind : {"absent", "invalid", "null"}]
    \union [kind : {"object"}, lifecycle : BOOLEAN, manager : {None, "npm", "pnpm", "", "object"},
            node : {None, "", "22"}, build : {None, "", "tsc"}, typescript : BOOLEAN]

ASSUME TreesAssumption ==
  Trees \subseteq [manifest : Manifests, files : [InspectedFiles -> {None, "", "22"}], obstacle : Obstacles \union {None}]

(* What inspection answers, and what the runner makes of the commit. *)
Reasons == {"REF_NOT_FOUND", "NO_SUPPORTED_SKILL", "LIFECYCLE_SCRIPTS_REQUIRED",
            "LOCKFILE_MISSING", "LOCKFILE_MISMATCH"}
Managers == {"npm", "pnpm"}
Answers ==
  [kind : {"unsupported"}, reason : Reasons] \union [kind : {"unavailable", "error"}]
    \union [kind : {"supported"}, commit : Commits, packageManager : Managers,
            nodeVersion : {None, "", "22"}, hasTypeScript : BOOLEAN, build : {None, "", "tsc"}]
RunOutcomes ==
  [kind : {"rejected"}, code : Reasons \union Obstacles] \union [kind : {"failed"}]
    \union [kind : {"accepted"}, packageManager : Managers, hasBuild : BOOLEAN]

ASSUME InspectionAssumption ==
  None \notin Answers \union RunOutcomes \union Obstacles \union Managers \union {"", "22", "tsc", "object"}

VARIABLES
  tree,     \* of each commit, for good
  branch,   \* the commit at its head; None once it is deleted
  heads,    \* history: the heads since the inspection began
  at,       \* the step of the inspection
  commit,   \* resolvedCommitSha
  received,    \* what Promise.all has so far
  answer,   \* None until the inspection is over
  runOutcome       \* None, or what a run of the named commit has come to

callVars == <<at, commit, received, answer>>
inspectionVars == <<tree, branch, heads, callVars, runOutcome>>

InspectionInit ==
  /\ tree \in [Commits -> Trees]
  /\ branch \in Commits /\ heads = {branch}
  /\ at = "resolve" /\ commit = None /\ received = [f \in {} |-> None]
  /\ answer = None /\ runOutcome = None

(* A push, forced or not, or the end of the branch. *)
Move ==
  /\ branch # None
  /\ branch' \in (Commits \union {None}) \ {branch}
  /\ heads' = heads \union {branch'}
  /\ UNCHANGED <<tree, callVars, runOutcome>>

-----------------------------------------------------------------------------
Unsupported(reason) == [kind |-> "unsupported", reason |-> reason]
Unavailable == [kind |-> "unavailable"]
InternalError == [kind |-> "error"]

Done(result) == at' = "done" /\ answer' = result

(* The gateway resolves the reference as it is when GitHub looks. *)
Resolve ==
  /\ at = "resolve"
  /\ \/ /\ branch # None
        /\ commit' = branch /\ at' = "manifest" /\ UNCHANGED answer
     \/ branch = None /\ Done(Unsupported("REF_NOT_FOUND")) /\ UNCHANGED commit
     \/ Done(Unavailable) /\ UNCHANGED commit
  /\ UNCHANGED <<tree, branch, heads, received, runOutcome>>

(* Fault: the file of the reference, not of the commit. *)
FaultyFileAt(c, f) == tree[IF branch = None THEN c ELSE branch].files[f]
(* Every file is asked for at the commit: ?ref=<sha>. *)
FileAt(c, f) == tree[c].files[f]

(* Reading package.json, and all that is decided on it alone.              *)
ReadManifest ==
  /\ at = "manifest"
  /\ LET manifest == tree[commit].manifest
     IN  \/ Done(Unavailable)
         \/ manifest.kind \in {"absent", "invalid"} /\ Done(Unsupported("NO_SUPPORTED_SKILL"))
         \/ manifest.kind = "null" /\ Done(InternalError)
         \/ /\ manifest.kind = "object" /\ manifest.lifecycle
            /\ Done(Unsupported("LIFECYCLE_SCRIPTS_REQUIRED"))
         \/ /\ manifest.kind = "object" /\ ~manifest.lifecycle
            /\ at' = "files" /\ UNCHANGED answer
  /\ UNCHANGED <<tree, branch, heads, commit, received, runOutcome>>

(* Fault: a lockfile that is empty is none. *)
FaultyPresent(content) == content \notin {None, ""}
Present(content) == content # None

(* What the four files and the manifest come to. *)
Conclude(manifest, found) ==
  LET npm == Present(found["package-lock.json"])
      pnpm == Present(found["pnpm-lock.yaml"])
      packageManager == IF npm THEN "npm" ELSE "pnpm"
  IN  IF npm /\ pnpm THEN Unsupported("LOCKFILE_MISMATCH")
      ELSE IF ~npm /\ ~pnpm THEN Unsupported("LOCKFILE_MISSING")
      ELSE IF manifest.manager \in {"npm", "pnpm", ""} \ {packageManager}
           THEN Unsupported("LOCKFILE_MISMATCH")
      ELSE [kind |-> "supported", commit |-> commit, packageManager |-> packageManager,
            nodeVersion |-> IF manifest.node # None THEN manifest.node
                            ELSE IF found[".nvmrc"] = "" THEN None ELSE found[".nvmrc"],
            hasTypeScript |-> Present(found["tsconfig.json"]) \/ manifest.typescript,
            build |-> manifest.build]

(* Fault: a failure starts the reading all over. *)
FaultyReadFile(f) ==
  /\ at = "files" /\ f \notin DOMAIN received
  /\ LET found == [g \in DOMAIN received \union {f} |->
                     IF g = f THEN FileAt(commit, f) ELSE received[g]]
     IN  \/ at' = "manifest" /\ received' = [g \in {} |-> None] /\ UNCHANGED answer
         \/ /\ received' = found
            /\ IF DOMAIN found = InspectedFiles
               THEN Done(Conclude(tree[commit].manifest, found))
               ELSE UNCHANGED <<at, answer>>
  /\ UNCHANGED <<tree, branch, heads, commit, runOutcome>>
(* One of the four answers of Promise.all, in any order: the last one      *)
(* brings the conclusion, and a failure the end at once.                   *)
ReadFile(f) ==
  /\ at = "files" /\ f \notin DOMAIN received
  /\ LET found == [g \in DOMAIN received \union {f} |->
                     IF g = f THEN FileAt(commit, f) ELSE received[g]]
     IN  \/ Done(Unavailable) /\ UNCHANGED received
         \/ /\ received' = found
            /\ IF DOMAIN found = InspectedFiles
               THEN Done(Conclude(tree[commit].manifest, found))
               ELSE UNCHANGED <<at, answer>>
  /\ UNCHANGED <<tree, branch, heads, commit, runOutcome>>

-----------------------------------------------------------------------------
Rejected(code) == [kind |-> "rejected", code |-> code]
Failed == [kind |-> "failed"]
Accepted(packageManager, manifest) ==
  [kind |-> "accepted", packageManager |-> packageManager, hasBuild |-> manifest.build # None]

(* startsWith of what is truthy and no string throws. *)
ManagerOutcome(packageManager, manifest) ==
  IF manifest.manager = "object" THEN Failed
  ELSE IF manifest.manager \in {"npm", "pnpm"} \ {packageManager} THEN Rejected("LOCKFILE_MISMATCH")
  ELSE Accepted(packageManager, manifest)

Locks(t) == {f \in {"package-lock.json", "pnpm-lock.yaml"} : t.files[f] # None}

(* inspect.cjs in its container.  What throws there prints no result, and  *)
(* the runner calls that its own failure.                                  *)
Inspect(t) ==
  LET packageManager == IF "package-lock.json" \in Locks(t) THEN "npm" ELSE "pnpm"
  IN  IF t.obstacle # None THEN Rejected(t.obstacle)
      ELSE IF Locks(t) = {} THEN Rejected("LOCKFILE_MISSING")
      ELSE IF Cardinality(Locks(t)) = 2 THEN Rejected("LOCKFILE_MISMATCH")
      ELSE IF t.manifest.kind \in {"absent", "invalid"} THEN Rejected("NO_SUPPORTED_SKILL")
      ELSE IF t.manifest.kind = "null" THEN Failed
      ELSE IF t.manifest.lifecycle THEN Rejected("LIFECYCLE_SCRIPTS_REQUIRED")
      ELSE ManagerOutcome(packageManager, t.manifest)

(* Fault: two lockfiles are as good as one. *)
FaultyInspectProject(t) ==
  LET packageManager == IF "package-lock.json" \in Locks(t) THEN "npm" ELSE "pnpm"
  IN  IF t.obstacle # None THEN Rejected(t.obstacle)
      ELSE IF Locks(t) = {} THEN Rejected("LOCKFILE_MISSING")
      ELSE IF t.manifest.kind # "object" THEN Failed
      ELSE IF t.manifest.lifecycle THEN Rejected("LIFECYCLE_SCRIPTS_REQUIRED")
      ELSE ManagerOutcome(packageManager, t.manifest)
(* assertRepositoryLimits() and inspectProject(), the copy that the tests  *)
(* of the runner call: only its answer to an unreadable manifest differs.  *)
InspectProject(t) ==
  LET packageManager == IF "package-lock.json" \in Locks(t) THEN "npm" ELSE "pnpm"
  IN  IF t.obstacle # None THEN Rejected(t.obstacle)
      ELSE IF Locks(t) = {} THEN Rejected("LOCKFILE_MISSING")
      ELSE IF Cardinality(Locks(t)) = 2 THEN Rejected("LOCKFILE_MISMATCH")
      ELSE IF t.manifest.kind # "object" THEN Failed
      ELSE IF t.manifest.lifecycle THEN Rejected("LIFECYCLE_SCRIPTS_REQUIRED")
      ELSE ManagerOutcome(packageManager, t.manifest)

(* A run of the commit: materializeRepository() fetches it by its hash or  *)
(* fails, wherever the branch is by now; then the checkout is inspected.   *)
Run ==
  /\ commit # None /\ answer # None /\ runOutcome = None
  /\ runOutcome' \in {Failed, Inspect(tree[commit])}
  /\ UNCHANGED <<tree, branch, heads, callVars>>

Step == Resolve \/ ReadManifest \/ \E f \in InspectedFiles : ReadFile(f)

InspectionNext == Move \/ Step \/ Run

(* Every request of an inspection ends: its signal aborts it after 10 s. *)
InspectionFairness == WF_inspectionVars(Step)

InspectionSpec == InspectionInit /\ [][InspectionNext]_inspectionVars /\ InspectionFairness

-----------------------------------------------------------------------------
(* Steps, answers and outcomes have their shapes, and every answer ends    *)
(* its inspection.                                                         *)
InspectionTypeOK ==
  /\ at \in {"resolve", "manifest", "files", "done"} /\ (at = "done" <=> answer # None)
  /\ commit \in Commits \union {None} /\ branch \in heads
  /\ heads \subseteq Commits \union {None}
  /\ DOMAIN received \subseteq InspectedFiles
  /\ answer \in Answers \union {None} /\ runOutcome \in RunOutcomes \union {None}

AnsweredAs(kind) == answer # None /\ answer.kind = kind

(* Five requests were answered at five moments of a moving branch, and yet *)
(* an answer describes one commit, and one that the branch has been at     *)
(* since the inspection began.                                             *)
DescribesOneCommit ==
  AnsweredAs("supported") =>
    /\ answer.commit \in heads
    /\ LET t == tree[answer.commit]
       IN  /\ Locks(t) = {IF answer.packageManager = "npm" THEN "package-lock.json" ELSE "pnpm-lock.yaml"}
           /\ t.manifest.kind = "object" /\ ~t.manifest.lifecycle
           /\ answer.build = t.manifest.build
           /\ answer.hasTypeScript <=> t.files["tsconfig.json"] # None \/ t.manifest.typescript
           /\ answer.nodeVersion \in {t.manifest.node, t.files[".nvmrc"], None}

(* What inspection supports, the runner takes for the same package         *)
(* manager, unless only a checkout could show why not; what inspection     *)
(* refuses for its files, the runner refuses too.  Two manifests set them  *)
(* apart: a packageManager that is no string stops the runner's script,    *)
(* and an empty one is refused by inspection alone.                        *)
RunnerAgrees ==
  runOutcome # None /\ runOutcome # Failed =>
    /\ AnsweredAs("supported") =>
         \/ runOutcome.kind = "accepted" /\ runOutcome.packageManager = answer.packageManager
         \/ runOutcome.kind = "rejected" /\ runOutcome.code = tree[commit].obstacle
    /\ AnsweredAs("unsupported") =>
         \/ runOutcome.kind = "rejected"
         \/ tree[commit].manifest.manager = "" /\ answer.reason = "LOCKFILE_MISMATCH"

(* The script that runs in production accepts and rejects the same         *)
(* checkouts, for the same reasons, as the method that the tests exercise. *)
TestedIsDeployed ==
  \A c \in Commits :
    tree[c].manifest.kind = "object" => InspectProject(tree[c]) = Inspect(tree[c])

(* An answer is true of one commit, the runner agrees with it, and the    *)
(* tests exercise what is deployed.                                       *)
InspectionIsTrue == DescribesOneCommit /\ RunnerAgrees /\ TestedIsDeployed

(* Whatever the branch does meanwhile, an inspection comes to its end.     *)
InspectionsEnd == <>(at = "done")
===============================================================================
