# Verification of proof-runner

This directory keeps TLA+ models of proof-runner next to its code: what a run
goes through from the moment a client asks for it to the moment its outcome can
never change again, what is signed, compared, bundled and shown of it
afterwards, and how the service around it is started and provisioned - in the
presence of lost messages, timeouts, restarts and commands that fail half way.
TLC checks the models on small instances; TLAPS proves the theorems for every
value of the constants.

## The system

proof-runner verifies a commit of a GitHub repository in a disposable sandbox
and signs a receipt of the result. Its parts, the state they keep and how they
talk to each other:

| Part | Code | State | Talks to |
| --- | --- | --- | --- |
| Run store | `apps/api/src/store.ts`, `packages/schema/migrations` | SQLite: `run_metadata`, `signed_receipts`, `normalized_checks`, `reproducibility_jobs` | called by everything in the API; one statement or one `BEGIN IMMEDIATE` transaction per method |
| Orchestrator | `apps/api/src/orchestration.ts` | in memory: `active`, `dispatchBlockedUntil`, `dispatchTimer`, a one-second lease timer | store (calls), runner (`POST dispatch`, `POST cancel`) |
| API server | `apps/api/src/server.ts`, `request-body.ts`, `index.ts` | none | orchestrator, store, receipts; the runner calls its `heartbeat` and `result` routes |
| Runner service | `apps/runner/src/service.ts`, `api-client.ts`, `server.ts` | in memory: `runs`, `activeRunId`, one lease and one retained result per run | sandbox, API callbacks |
| Sandbox | `apps/runner/src/sandbox.ts`, `process.ts`, `repository.ts`, `skill.ts` | Docker containers, networks, a volume | docker, GitHub through a proxy |
| Receipts | `packages/receipt/src`, `apps/api/src/receipts.ts` | `signed_receipts`, raw logs with an expiry, a key ring | SQLite |
| Reproducibility | `apps/api/src/reproducibility.ts` | `reproducibility_jobs` | store |
| Comparison, contract evaluation | `apps/api/src/comparison.ts`, `contract-evaluation.ts`, `packages/schema/src/acceptance-decision.ts` | none (pure) | receipts |
| Evidence bundles | `apps/api/src/evidence-bundle.ts` | none (archives) | receipts |
| Deployment | `deployment/provision-secrets.mjs`, `backup-sqlite.mjs` | GitHub secrets and variables | `gh` |
| Web interface | `src/`, `apps/web` | state of a page: a polling loop, two reducers | API |
| Corpus, metadata | `packages/corpus`, `packages/metadata` | fixtures, constants | - |

What is hard in it: the API and the runner are two processes that share nothing
but HTTP calls which may be lost, late or answered after the caller has given
up; each forgets everything but SQLite when it restarts; a handler of the API is
interrupted at every `await`; one queue, one lease and one runner slot have to
agree all the same. Around this core, two stores write the same rows, every
response is computed and validated anew at each read, keys rotate under receipts
that were issued before, and scripts publish a configuration one command at a
time. What makes each part correct:

* store: one RUNNING row, first come first served, terminal rows final, unique
  owners and queue positions, a report and a receipt of the row's own request;
* orchestrator: a RUNNING row always has an owner, no two leases overlap, every
  run ends;
* runner: no run is executed twice, a result is delivered until it is
  acknowledged or its lease ends, an acknowledgement means it is stored;
* sandbox: every resource is removed, every phase ends, nothing untrusted runs
  online, PASS is earned; commands settle once and leave nothing behind;
* API server: an answer that was given stays true, whatever is stored was asked
  for, no handler stops half way;
* responses, evaluations and comparisons: what the store can hold can be shown,
  ACCEPT and COMPLETED mean what they claim, comparisons agree with each other;
* receipts: what was signed is what is stored and stays verifiable through a
  rotation of keys, logs expire; a bundle is accepted exactly when the service
  made it;
* migrations: a database that is served is complete; inspection: an answer is
  true of one commit and the runner agrees with it; provisioning: a failure half
  way leaves what the next attempt can complete;
* pages: a late answer never replaces a newer one, and no page stays loading.

## The modules

| Module | Models |
| --- | --- |
| `VerificationQueue` | what the store promises: a bounded first-come first-served line, one run served, put back at the head, or finished for ever |
| `RunStore` | the store's methods as changes of the table, guarded by their early returns, under a caller that invokes any of them at any moment |
| `Orchestration` | the orchestrator and the runner service on top of `RunStore`, the messages between them, time, and crashes of both |
| `Sandbox` | one execution: the awaits of `execute()`, the Docker resources it leaves, and `cleanup()` |
| `ProcessCommand` | `runCommand()`: everything that races to settle one command |
| `Responses` | what the API makes of rows and jobs, and the public schemas that parse it; on top of `RunStore` |
| `ApiServer` | the handlers of `server.ts` between clients that repeat themselves and the tables; on top of `Responses` |
| `Acceptance` | coverage of a contract and the advisory decision, with their schemas |
| `StoreQueue` | the mapping under which `RunStore` implements `VerificationQueue` |
| `Comparison` | `compareVerifiedReceipts()` over receipts and rows that go on being written |
| `ReceiptStore` | receipts and raw logs in the tables that `RunStore` writes too |
| `ReceiptKeys` | signing keys, verification keys, rotation, issuing and verifying |
| `ZipArchive` | the writer and the reader of archives, at their limits and on damaged files |
| `EvidenceBundle` | the entries of a bundle and its verification, on top of `ReceiptKeys` |
| `Migrations` | two processes that bring one database file up to date |
| `Inspection` | the API's inspection of a moving branch and the runner's of a checkout |
| `SecretsInit`, `SecretsApply` | `provision-secrets.mjs`: creating the files, publishing a configuration |
| `RunPage`, `ComparisonPage`, `EvidencePage` | the pages whose state depends on the order of answers and navigations |
| `StoreViews`, `ReceiptPromises`, `Periphery` | what the parts that the runs `store`, `receipts` and `periphery` check together promise between them |
| `Schema` | NULL and the verdicts, which the modules share |
| `MCRunStore`, `MCOrchestration`, `MCApiServer`, `MCReceipts`, `MCPeriphery` | instances for TLC |
| `RunStoreProofs`, `OrchestrationProofs`, `SandboxProofs` | theorems about the modules they are named after |
| `StoreViewProofs` | the refinement of `VerificationQueue`, the responses, comparisons and `StoreViews` |
| `ApiProofs` | the API server |
| `ZipArchiveProofs` | the writer and the reader of archives |
| `ReceiptProofs` | receipts, keys, bundles, contract evaluation, provisioning |
| `PeripheryProofs` | migrations, inspection, commands, pages |

All models hold faults as well (`Faulty...`, `Hasty...`, `Careless...`,
`Loose...` and so on): each is an operation with a plausible bug in it.
Substituted for the original, it must make the property it is paired with in
PROJECT.json fail, which shows that the property can tell the code from the bug.

### RunStore

`rows` is the join of `run_metadata` with `signed_receipts`, `jobs` is
`reproducibility_jobs`. A run id that has not been drawn yet has a row whose
status is `ABSENT`. A table-valued operator stands for every method (`Claimed`,
`Requeued`, `Completed`, ...), so that the orchestrator's model can compose them
in one turn, as the code does; the actions (`ClaimNext`, `Requeue`, ...) apply
one of them. Kept: every guard and every column that a property or another
method reads. Abstracted: a report is the run, the request and the verdict it
carries, a receipt is the report it signs, fingerprints are values that are only
compared; timestamps and normalized checks are left out. `queue_sequence` is
`MAX + 1`, with the candidate of a job at `MAX + 2`.

### Orchestration

One action is one JavaScript turn: a handler up to its first `await`, or from
one `await` to the next. `dispatchNext()` splits into `DispatchNext` (claims a
row, sets the lease and sends the request, always inside the turn that calls it)
and the three ways its `await` ends: `DispatchReturns`, `DispatchBusy` (a 503
with `RUNNER_UNAVAILABLE`; the row goes back to its place) and `DispatchFails`
(everything else: the row is failed, the runner is asked to cancel, the queue is
quarantined for the rest of the lease). `expireLease()` splits into
`ExpireLease` and `FinishExpiry` around the cancel call. Turns that perform
several transactions are one step: a crash between two transactions of one turn
is not modelled.

*Time* is a set of countdowns (`lease`, `blocked`, `timer`, `grant`,
`heartbeatGrant`, `runnerLease`) that `Tick` lowers together; both processes
read one clock, as two containers of one host do. A countdown at zero means that
the deadline has passed; what the code does about it may come later. Only the
time-out of the dispatch call is punctual: `Tick` waits for it.

*Messages* live in one cell per run and kind. A message that is never handled is
lost; a caller may give up at any time. A repeated heartbeat or result replaces
the one before it: both carry the same lease id and payload, and the second
handling of either changes nothing.

*Lease ids* are not modelled: a run's lease id is that of its last claim.
`QueuedUnseen` is the reason this is sound, and it is checked: a run goes back
to the queue only when no message, call or execution of its old claim exists.

*The runner* keeps one `task` per run; its slot is the run that is `executing`.
A result is any member of `Delivery` (`ResultStatus` selects which). A cancelled
execution may still produce any of them: the abort only shortens it. The
response of `result()` leaves the API after the dispatch of the next run has
settled; in the model it may leave earlier, which allows more behaviours.

`LostReplies = FALSE` is an assumption about the network: a dispatch call does
not fail after another run has been started. It is the one assumption under
which the orchestrator works; the run `stuck` drops it.

### Sandbox

`step` is the await that `execute()` stands at, from the check of the skill to
the last command of `cleanup()`; `runContainer()` has a state of its own (`job`):
launched, running, measured. `live` is what exists on the Docker host. The model
turns on one fact of `runCommand()`: it kills the docker client, never the
container. A command that fails or runs out of time may therefore have had its
effect (`Docker`), a killed job runs on until `RemoveJob`, and the anonymous
containers of `inspectWorkspace()` and `assertDiskLimit()` (`helper`) run on
until they end by themselves (`AbandonedExits`). The three removal functions are
one operator, `Attempt`, for one `docker rm` and one `docker inspect`; Docker
refuses to remove what is in use (`Users`). The deadline, a cancellation and the
end of the lease come at any moment; `cancelled` also stands for the abort
signal, which is raised before the error of an expired lease arrives. Docker is
external: the model assumes that it reports an absence only of what is absent,
and that it has no command of a killed client still to carry out. Checks keep
their outcome; texts, times and platform controls are left out, one error code
of the inspector stands for all of them, and every nonzero exit of an
installation is a registry failure.

### ProcessCommand

Every callback of `runCommand()` is an action; node runs them one at a time.
`child` and `killed` are the process, `outcome` the promise, `timeout`, `ticker`
and `listening` what `finish()` has to clear, `tick` an `onTick()` that is being
awaited when something else settles the command. Output is counted in chunks
(`OutputLimit`); what is kept and what was written are told apart because the
last chunk before the limit may be cut.

### Responses

`Inflated` is `inflate()`, `Reproduced` the response of
`ReproducibilityService`; both are followed by the schema of
`packages/schema`, written independently of them, and a response that the schema
refuses is `Unreadable` (a 500 for as long as the row stays as it is). The store
takes every step it can, so that the property compares two definitions in two
packages over all reachable tables. The one response that does not pass is the
run that a refused dispatch has pushed beyond position 5 (run `full`). A
terminal run without a report shows `RUN_NOT_TERMINAL` for its coverage, as the
code does.

### ApiServer

A handler is one turn up to the body it awaits (`Receive`) and one turn from the
body to its answer or its next await (`Verify`, `Reproduce`, `Beat`, `Deliver`,
`Inspect`, `Finish`); what is checked before the body holds or fails whatever
the body is. `Call` is the small set of requests a client may repeat: two routes
that share a key, two bodies, a garbled and an oversized one, no key, a bearer
token that is wrong. `given` and `heard` record what was answered and read.
Connections break (`Break`), answers are lost (the client simply calls again),
and `Crash` runs the recovery. The orchestrator is reduced to the lease of the
active run; whether a failed dispatch quarantines the queue is nondeterministic
here and exact in `Orchestration`. The routes of receipts, keys, comparisons and
bundles only forward to operations that other modules have; the HTML page and
the health checks read and change nothing.

### Acceptance and Comparison

Both are pure operators over what is stored, and the modules add the steps that
change it: a run ends with any verdict and any report that
`VerificationReportSchema` lets through; runs and receipts appear in any order
while comparisons go on. A contract of version 1 has at most one requirement of
each kind and is a function from kinds to whether they are required. In
`Comparison` a receipt is its run, its report and the run its report names; a
digest of a payload is the run itself. `Compare` is the answer of the route with
its status; 500 is a response that `ComparisonResponseSchema` refuses.

### ReceiptStore, ReceiptKeys, ZipArchive, EvidenceBundle

`ReceiptStore` has the two writers of `signed_receipts` (`complete()` of the run
store, `save()` of the receipt store), `deleteExpiredRawLogs()` and what the
readers make of a row. A transaction that throws changes nothing. Time is a
small number, and a log may have expired before its run is saved. `save()` takes
a row that is QUEUED or RUNNING, and a later `systemError()` then leaves a
SYSTEM_ERROR row with a receipt; the deployed paths do not call it that way.

In `ReceiptKeys` a hash is what it is a hash of, and a signature is a key with
the text it has signed. `config` is the list of signers, the active one first,
and the list of verifiers; `Reconfigure` restarts the service with another one.
`ProperRotation` is a restart that keeps the old keys in one of the lists.

`ZipArchive` is positional: an archive is a sequence of headers, data and
foreign bytes that have lengths, and the reader finds a part by the offset it
reads somewhere else. The positions (`Ends`) and the loops of the writer
(`Written`) and of the reader (`Reading`) are recursive functions of the number
of steps, as the cursors and offsets of the code are running sums.
Damage inserts, removes, repeats or alters parts. A CRC is
the data it belongs to, that is, CRCs are assumed to tell data apart.
`EvidenceBundle` builds on the list of entries and on `ReceiptKeys`: what the
service puts into a bundle, what verification makes of it later, and in which
order it says what is wrong. Damage is accidental; no attacker is modelled.
That redaction changes nothing it has already redacted is assumed. A bundle
cannot be made any more once the signing key of its receipt has left the ring.

### Migrations

The schema is the set of tables, columns and indices that exist; `recorded` is
`schema_migrations`. A process is at a step of its `Startup`; a step is one
transaction, preceded by a look at the tables where the code looks outside of
it, so that two processes interleave there. A refused start (`Refuse`) and a
crash end a start; compose starts the container again. The initial database is any prefix of what
an older program executed statement by statement. Version 5 is recorded by the
run store without its index being repaired (only the receipt store repairs it),
and the receipt store marks a partial initial schema as version 1 before it
fails at version 6: both are in the model, and the invariants say what holds
nevertheless.

### Inspection

Five requests, four of them at once (`Step`), while the branch moves (`Move`);
then, after any delay, a run of the commit that was named (`Run`). The
runner clones it, refuses what only a checkout shows, and runs `inspect.cjs`,
which is a second copy of `inspectProject()`; both copies are in the model and
must agree. A manifest that is JSON `null`, a `packageManager` that is no string
and an empty one are among the trees: the first ends the API's inspection with
an error, the second stops the script of the runner, the last is refused by
inspection only. A tree has at most one obstacle (a symbolic link, LFS, a size
limit): which of several is reported depends on the order of the walk and is not
modelled. An empty build script or `engines` violates
`InspectResultSchema`, which nothing applies to the answer. URLs are canonical;
`resolveRepositoryRef()` is used by the benchmark command only and is left out.

### SecretsInit, SecretsApply

`SecretsInit` has every system call of `init` in order (`Calls`), each of which
may fail, the catch clause that removes what was created, kills, and somebody
else who creates the same files at any moment. `SecretsApply` has every `gh`
command of `apply`: done, failed without effect, or failed after its effect;
then the script stops and may be run again with this or another env file that
passes its validation and keeps the published keys, as the operator is told.
`remote` maps each published name to the file its value is from. A change from
paid to free removes the OKX values before `PAYMENT_MODE` is `free`. One thing
the documents promise does not hold and is not checked by a run: a partially
applied configuration can start an API whose key ID and whose private key are
from two different files, because `RECEIPT_KEY_ID` is set before
`RECEIPT_PRIVATE_KEY` and the API accepts any ID with any key. What does hold
(`KeyringCoversPrivateKey`) is that the published private key always has its
public key in the published key ring.

### The pages

An effect is one record in `visits`, `requests` or `uploads`; navigating away
marks it cancelled where the code does, and its answer may come at any later
moment or be an error. In `RunPage` the server's runs go on meanwhile: `Claim`,
`Requeue` and `Settle` are the changes of the store that `GET /api/runs/:id`
shows, a run that the busy runner sends back among them, so that a page may show
RUNNING and then QUEUED. A state therefore carries the number of changes before
it, which only properties read. `LiveRunPage` clears neither the run nor the
error when its `id` changes: until the first poll of the new route has come to
something, the page goes on showing the run, or the error, of the route before
it; and one failed poll ends the loop. `TheRouteIsShownOnceHeard` says what holds
in spite of both. In
`ComparisonPage` a render comes before the effect that tells the reducer of the
new route. The receipt page makes one request and does not cancel it, and each
click on the landing page makes a new idempotency key; they have no module.

## The runs

Twelve runs, seven of which must pass. The modules about single parts share no
variable, so `store`, `receipts` and `periphery` check several of them at once:
a behaviour belongs to one part (`part`), while the others rest in a state in
which nothing of theirs is due. Their properties are then conjunctions over the
parts, which `StoreViews`, `ReceiptPromises` and `Periphery` define for the runs
and the proofs alike; every conjunct is a definition with a comment and, types
apart, a fault of its own. Sizes are the distinct states TLC finds.

| Run | Instance | Shows |
| --- | --- | --- |
| `store` (74 thousand) | 4 runs, 1 job, 2 keys, limit 2; comparisons of 3 runs | `QueueIsSound`, `ChildrenInOrder`, `OutcomeConsistent`, `ResponsesAreSound`, `ComparisonsAreSound`, refinement of `VerificationQueue`, `ShownIsFinal` |
| `live` (0.8 million) | 2 runs, lease 2, timeout 1, no crash, no symmetry | `LeaseExclusion`, `EveryRunEnds` |
| `faults` (1.6 million) | 2 runs with one API crash and one of the runner, or 1 run with every result and two API crashes | `RunningIsOwned`, `QueuedUnseen`, `ReplyMatchesStore`, `CancelledHasNoVerdict`, `AtMostOnce`, `TerminalIsFinal` |
| `sandbox` (0.4 million) | 3 attempts, 2 polls of the proxy, 3 Docker failures | `ResolvedMeansClean`, `ReportValid`, `PassIsEarned`, `UntrustedOffline`, `EveryExecutionEnds` |
| `api` (0.9 million) | 15 calls with one key and two bodies, 3 sent and 2 open at once, one restart | `AnswersStayTrue`, `EffectsHaveCallers`, `NoHandlerIsStuck`, `AnswersAreCurrent` |
| `receipts` (0.2 million) | receipt tables, 2 key IDs and 2 keys, bundles, archives of 2 entries, all contracts, both provisioning commands | `StoresAgree`, `KeysAgree`, `BundlesAreSound`, `ReaderMatchesWriter`, `AcceptanceIsSound`, `ProvisioningIsCoherent`, `StepsKeepPromises` |
| `periphery` (0.2 million) | 2 runs or routes and 3 visits, one requeue and one lost answer, 3 archives, 2 processes with 2 crashes, 2 commits, one command | `PagesShowTheirOwn`, `PagesOnlyMoveForward`, `StartIsSafe`, `InspectionIsTrue`, `CommandsEndWhole`, `EverythingSettles` |
| `stuck`, `full`, `window`, `sandbox_leak`, `sandbox_refused` | see below | disagreements between code and documents |

The bounds of the core: two runs are enough for every interaction of a run that
is being given up with the next one, because the store lets only one be RUNNING
(proved) and a third could only wait; three are needed to overfill the queue,
four to put a run back in front of two others. In `store` the fourth run is only
there while all runs carry the same request and verdict (`Uniform`); with three
(`Few`) everything varies. A lease of two units separates "renewed", "running
out" and "expired"; the dispatch timeout is shorter than the lease, as it is in
the code (10 s and 30 s). In `faults` either two runs compete under one API
crash with the plainest result (`Competing`), or one run meets every kind of
result and two API crashes (`Single`). A job with two children and one public
run fill the table of the two-run instances in both ways. `CHECK_DEADLOCK` is
off because a finished system has nothing to do.

In `sandbox`, three attempts are the code's own; two polls of the proxy have a
first and a last one, as thirty have. Three failures are enough to exhaust the
removal of one resource, or to lose a job, its removal and an answer of the
clean-up; the proofs hold for any number. A container that hangs exhausts the
attempts without any failure of Docker.

In `api`, three calls are a request, its repetition and one that interferes;
two are open at once, so that a handler is overtaken between its turns. Only
`r1` is named by a call, the other runs are symmetric.

In `receipts`, bundles are made with a single key (`OneSigner`: what several do
is the part about keys); a file is damaged twice only while there is no second
receipt to mix it with (`LittleDamage`); a check that no contract asks for is
reported alone (`FewOutcomes`). The archive limits are two entries, two units
of data and a size that two of the longest entries exceed, so that every limit
is met from both sides. Env files are two keys, each free and paid, and
three that the validation refuses; two `gh` commands or three system calls fail.

In `periphery`, each of the two runs of the run page ends in one way and only the
first may be requeued, once (`FewStates`, `MaxRequeues`): what the page does
depends on whether a run has ended, not on how. Of the inspection's two commits
one has a good tree while the other is any of some twenty that differ in one
respect or in two that belong together (`GoodTree`, `MCTrees`). Three visits let
the answer of a first visit of a pair come during a second visit of the same
pair. Each part counts what limits it: lost answers, crashes, generations.

Fairness, in `live` only of the core: timers fire, calls settle (the HTTP client
times out), executions end (every sandbox phase has a deadline), time passes,
and a dead API is started again. No message is ever required to arrive: not even
the result of a run, nor its heartbeats. In `sandbox`: `execute()` goes on
whenever it can, because every docker command has a time-out, and its deadline
passes. That a job or an abandoned container ends is not assumed. In
`periphery`: requests end (with an answer or an error; the browser and the
inspection's 10 s `AbortSignal` see to that), timers fire, React runs its
effects, the time-out of a command fires and a killed process closes, and
`restart: unless-stopped` of compose starts a process again; and the orchestrator
claims queued runs and ends running ones, after finitely many requeues, which is
what `EveryRunEnds` says of it (a run that `stuck` leaves RUNNING for ever is
polled for ever). `api` has no
fairness: that every handler can always go on is the invariant
`NoHandlerIsStuck`, a handler has two steps, and node's request time-out breaks
a connection whose body never comes.

## What disagrees

* `stuck`: `dispatchNext()`'s catch clause clears `this.active` even when it
  holds another run. A dispatch call that fails after its run's result has been
  processed takes the lease away from the next run, which then stays RUNNING and
  blocks the queue until the API restarts; CONTRACTS.md promises that a rejected
  or unreachable callback cannot leave a run stuck.
* `full`: `requeue()` can make one run more wait than the limit; its
  `queuePosition` exceeds the maximum that the public schema declares, and
  `inflate()` parses every row with that schema.
* `window`: the quarantine of an ambiguous dispatch does not survive a restart,
  although the comment in `dispatchNext()` retains the lease window.
* `sandbox_leak`: the README of the runner promises that clean-up removes the
  private workspace after every terminal path. A `du` or inspector container
  whose client was killed by the deadline keeps the volume in use while the
  three attempts at removing it fail; nobody tries again.
* `sandbox_refused`: `skill.md` promises that a failure of the runner is never a
  FAIL. `docker run` exits with a nonzero code also when the daemon refuses to
  start the container, and the exit code is all that is looked at.

## The proofs

`RunStoreProofs` proves, for any sets of runs, jobs, keys, requests and any
limit, the safety properties of the store alone: `QueueIsSound`,
`ChildrenInOrder`, `OutcomeConsistent` and `TerminalIsFinal`.
The argument: every action makes one of four changes to the table (lemma
`StoreStep`): it appends a row or a pair of rows, claims the first in line, or
settles RUNNING rows in place. The inductive invariant `QueueOK` adds to
`OneRunning` and `InTurn` that absent rows are blank and that a greatest
`queue_sequence` exists: without the latter `MAX + 1` says nothing when `Run` is
infinite, and without unique positions a second row could be first in line.
`Linked` is the inductive invariant for identities: every owner is one the table
has given out, and no present row has the scope of a job that does not exist
yet, which is why the children of a new job collide with nothing.
`BacklogOK` counts: appends need room, claims and refusals move a run inside the
backlog, which is therefore at most the limit plus the running run.

`OrchestrationProofs` carries this over to the whole system. A step of the
system is at most two of the four changes, one after the other (`SystemStep`:
an insert, a settlement or nothing, and then the claim of `dispatchNext()`), so
single execution, order, the bound and finality hold for any number of runs,
crashes and lost messages. What `result()` writes is a settlement only because
results on their way are results the runner produced (`ResultsOK`).

`RunningIsOwned` needs its own inductive invariant, `OwnershipOK`. It adds what
is left of the leases: while the dispatch call of a run is awaited, at least
`LeaseDuration - DispatchTimeout` of the expiry it carried is left, and the
active lease is not shorter. That is why `expireLease()` never gives up a run
whose dispatch call is still open, so that a call that fails later finds its own
run or none in `this.active`. The theorem assumes `~LostReplies`; the run
`stuck` shows that it is needed.

What the runner knows of a run is the other half: its position on the path from
the request to the stored result, which the table, the messages and the runner's
own records must agree on. One invariant about that path yields `AtMostOnce`,
`ReplyMatchesStore`, `QueuedUnseen` and `CancelledHasNoVerdict` with no
assumption about lost replies: a run that waits has left no trace in the runner,
because `requeue()` is reached by a 503 only; an execution that has ended never
starts again, because an inbox is emptied by what starts it and a run whose
request was sent is not sent again.

`LeaseExclusion` compares clocks: what a runner may still believe of its lease
is never more than what the API keeps, as the active lease or as the quarantine
`blocked`. Two theorems state it. `LeaseExclusionUntilCrash` says that without
lost replies no two leases overlap as long as the API has not crashed;
`LeaseExclusionAlways` that they never do when it does not crash. Both
hypotheses are facts about the code and not about the proof: after a crash the
quarantine is gone (`window`), and once a late failure has cleared the lease of
another run (`stuck`) that run's own dispatch call fails with nothing in
`this.active`; the quarantine is then the lease as it was granted, which a
heartbeat may have extended since.

`SandboxProofs` proves all safety properties of `sandbox`, for any number of
Docker failures, attempts and polls. `ResolvedMeansClean`
says more than what `cleanup()` confirms: it covers containers whose names
`cleanup()` does not know. The invariant that closes the gap is `VolumeOK`:
whoever uses the volume keeps it in existence, so a confirmed removal of the
volume, the last of the five, proves that its users have ended. `RemovedOK`
carries what has been confirmed through the rest of the clean-up, in which
nothing is created. `UntrustedOffline` rests on `OfflineOK`, the order in which
the last online job, the proxy and its network disappear; `PassIsEarned` on
`EarnedOK`, which says at each step what the scripts of the project are and
that a build has passed when its tests run. `ReportValid` needs the shape of the
record of checks at every step of `execute()`: which have been written, in
which order, and that a failed one is the last that ran.

`StoreViewProofs` proves that `RunStore` implements `VerificationQueue`, for any
number of runs and any limit: the initial table is an empty line, and each of
the four changes is a step of the line or a stutter. The mapping orders the
queued runs by their positions; that a claim takes the head, that an append puts
a run last and that a requeue puts it first each need a lemma about sorting a
set by distinct keys. The refinement is stated for the store and not for the
composed system, whose turns call up to two methods of the store at once. The
module also proves `ResponsesAreSound`, with what a row must be for its response
to pass the public schema, and that a settled row goes on being shown as it was.

The same module proves `ComparisonsAreSound` and `ComparisonsStay` for any
runs, subjects, contracts and reports. Its type invariant carries what makes the
rest follow state by state: a receipt names its own run, and that run has a row
with the subject of the report. That no answer is a 500 compares the reasons,
computed from both receipts, with the schema, which sees one block taken from
the baseline; that chains do not break needs that each reason is an inequality
of one value. `ComparisonsStay` needs that a step leaves rows and receipts that
exist as they are. `ShownIsFinal` joins it with the responses, under the
specifications of both parts, which share no variable.

`ApiProofs` proves `AnswersStayTrue`, `EffectsHaveCallers` and
`AnswersAreCurrent` for any clients, keys, bodies and number of restarts. A turn
of a handler calls at most two methods of the store, so what a turn does to the
table is known from the store's lemmas. `WorldOK` says what holds of the tables
between turns (queue in order, idempotency keys apart, every effect asked for by
a call that was sent), and `Keeps` what no turn takes back: a run that was named
goes on existing with its request, a key with its run, a final row with its
verdict. The truth of every answer is preserved by any step that `Keeps`, and
that covers answers that are planned in one turn and sent in the next.

`ReceiptProofs` proves `StoresAgree` and `ReceiptsAreFinal`. The inductive
invariant adds `LogsOK`: the metadata of a run remembers the latest expiry ever
saved, and that log is there until it expires, which needs that a nonempty set
of expiries has a maximum. It also proves `KeysAgree` and
`RotationKeepsReceipts`: looking a key up in the two lists, one behind the
other, finds what looking first in one and then in the other finds
(`FindInBoth`), and a rotation that keeps all entries unambiguous finds the same
entry again (`RotationFinds`).

In the same module, `AcceptanceIsSound` holds for every contract, verdict and
report. The inductive invariant (`AcceptanceIInv`) is the type invariant and
that a stored report has passed `VerificationReportSchema` with its verdict:
coverage counts a failed check as executed, so that ACCEPT means PASSED follows
from that schema, in another package, and from nothing in the evaluation itself.

`ProvisioningAlwaysCoherent` and `StepsAlwaysKeepPromises` are about the two
commands of `provision-secrets.mjs`, for any keys, files and failures:
`init` creates all files or none, and a file it has not created stays; whatever
`apply` has set is what the plan it follows says, the names to be removed are
published ones, and the private key is set behind a key ring that contains its
public key. That a paid configuration is activated last needs the order of the
plan as an invariant of the position in it, and no induction.

`BundlesAreSound` holds for any runs, key lists, number of downloads and amount
of damage. The inductive invariant (`BundleIInv`) says that every bundle ever
downloaded is the one of an issued receipt, signed with the key of that receipt,
and that a damaged file consists of entries of downloaded bundles and of
overwritten entries. A signature that verifies tells which manifest was signed;
the manifest names the path and the digest of every file, in order, and a file
with the paths and the data of a bundle is that bundle (`AssembledIsAll`). That
a bundle goes on being accepted needs that redaction leaves alone what it has
redacted, and that the download found the very key the receipt was signed with,
which is more than a key of the same ID. `ReceiptsAlwaysTyped` collects the
types of all parts; those of archives follow from the refusals of writer and
reader, whatever has become of the archive.

`ZipArchiveProofs` proves `ReaderMatchesWriter` for any entries, limits, sizes
of the parts and damage. The invariant (`ArchiveIInv`) says little: an archive
is a sequence of parts, and as long as nothing has damaged it, it is the one
`createDeterministicZip` makes of its entries. The rest is about two functions.
Facts about all steps of a loop are proved by the least step at which they would
fail (`UpTo`), since an induction rule that takes a predicate cannot be used
here. `LoopRuns` shows, without fixing what the step does, that a loop defined
by recursion satisfies its equation; positions, writer and reader are its
instances. No part is empty, so positions grow (`EndsGrow`) and the part found
at a position is the part that was put there. For what the writer made,
`Follows` says that after `n` steps the reader has read the first `n` entries
and stands at the local header of the next one; each check of the code
passes (`ReadOne`), and the directory and the end record are where it looks for
them. In the other direction, what is accepted is read step by step
(`AcceptOne`): every part lies where the writer would have put it, the counts
and the position of the directory leave no room for another part, and so the
archive is the one the writer makes of the entries returned, damaged or not.

`PeripheryProofs` proves `StartIsSafe` for any number of processes and crashes
and any prefix an older program has left. `PassedIsDone` says what the position
of a process implies. The receipt store asks for the first table only; that it
never serves a part of version 1 follows from `TablesInOrder`: `raw_logs`, which
version 6 needs, is the last table of version 1. `CommandsEndWhole` holds for
any limit on the output. Its invariant adds `DroppedIsSettled`: once a chunk has
been dropped, that chunk has settled the promise, so a later close event finds
nothing left to resolve.

`InspectionIsTrue` holds for any commits, trees and contents: the invariant
(`InspectionIInv`) says that every file received is that of the one commit
resolved at the beginning, however the branch moves, so that the answer is a
function of a single tree, which the runner's function of the same tree can be
compared with case by case.

`PagesShowTheirOwn` and `PagesOnlyMoveForward` hold for any number of visits,
requests, requeues and lost answers. In `RunPage` (`RunPageIInv`) the one visit
that is on belongs to the route, nothing that is shown or told is ahead of the
server's history of the run, and an answer under way to the visit that is on is
not behind what the page shows; in
`ComparisonPage` (`ComparisonPageIInv`) at most one request is not cancelled,
and its page is loading; in `EvidencePage` (`EvidencePageIInv`) the upload of
the present generation is that of the selected file.

The theorems about conjunctions (`ShownAlwaysFinal`, `ProvisioningAlways...`,
`StepsAlways...`, `ReceiptsAlwaysTyped`, `Pages...`, `PeripheryAlwaysTyped`)
assume the conjunction of the parts' specifications. The parts share no
variable, so this is their composition.

The assumptions are `StoreAssumption` (a natural limit, NULL is not a value, the
public scope is not a job id), `OrchestrationAssumption` (a lease that is longer
than the dispatch timeout, which is positive; the error codes the orchestrator
writes exist; every run has a result fingerprint of its own), `ApiAssumption`
and `RefusalAssumption` (the fields of a call are typed, the refusals differ
from each other), `JunkAssumption` (overwritten data is neither a manifest nor a
signature of one), and for the others that bounds are natural numbers, that
values that the code tells apart differ, and that NULL is none of them.

Only model-checked: `NoHandlerIsStuck`, which is about `ENABLED` (and which needs
an identifier that is left to draw, so it is a statement about instances with
enough of them), and liveness (`EveryRunEnds`, `EveryExecutionEnds`,
`EverythingSettles`). `ENABLED` and liveness under fairness are out of the
prover's reach.

## Not modelled

* Runner HTTP server: routing, authentication and parsing of the configuration;
  it keeps no state of its own. The runner's own heartbeat, status and result
  routes are not called by the API.
* Backup: one call of SQLite's backup API. Corpus: offline tooling over
  fixtures. Metadata: constants.
* Pure data handling: canonical JSON, cryptography, ZIP bytes, the patterns that
  redact logs, dotenv and option parsing, the format of single values, and the
  public contracts where nothing but fields are validated.
* Presentation: everything of the pages that only renders, the simulated demo,
  the HTML of the API.
* In modelled parts: a crash between two transactions of one turn of the API;
  tables whose shape somebody has altered by hand, which the migrations refuse;
  how GitHub answers for files that are too big for its contents API; the race
  of `resolveRepositoryRef()` with a tag that moves.

## Plan

1. Store, orchestration and sandbox with their proofs; receipts, comparisons,
   evaluation, migrations, inspection, provisioning, pages, the HTTP API (done).
2. Proofs of the safety properties of every part (done).
3. A crash between two transactions of one turn of the API; the corpus harness.
