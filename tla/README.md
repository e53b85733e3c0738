# tofu-k8s-operator in TLA+

This directory is the verification project for the operator in `src/`: TLA+ modules translated from
its Go code, the TLC configurations that check them on small instances, and proofs that TLAPS checks
for every value of the constants. `PROJECT.json` lists, for every definition, the lines of code it
stands for, and for every property a mutant of the code that it refutes.

## 1. The system

The operator reconciles `TofuProject` objects. A project names a `TofuProgram` (HCL or a git
source), gives it parameters, and the operator runs `tofu plan`, `tofu apply` and `tofu destroy` for
it in Kubernetes Jobs. One controller (`TofuProjectReconciler`) does everything; it has one worker, so
it runs one pass (`Reconcile`) at a time, for one project. Everything it knows is in the Kubernetes
API: it reads through informer caches, which may trail the API server, and writes with optimistic
concurrency. `updateStatusWithCondition` (`controllers/helpers.go:32`), the only way a status is
written, drops every error, conflicts included.

### Inventory

| Component | State | Operations | What makes it correct |
|---|---|---|---|
| **Plan and apply pass** `tofuproject_controller.go:69-121, 305-1111` | `status.phase`, `lastAppliedHash`, `pendingPlanHash`, `retryCount`; annotation `approved-hash`; ConfigMap `<p>-tf`; Jobs `<p>-plan-<h>`, `<p>-apply-<h>` | render and hash the inputs, overwrite the ConfigMap, check the job lock, apply at once (`autoApprove`) or plan, wait for approval, apply; retry; kill a stuck Job | nothing is applied unapproved; the record names what was applied; one active Job; an approval is not lost; retries are bounded; every edit is eventually acted on |
| **Approval by kubectl** `cmd/kubectl-tofu/main.go:202-235` | none | read `pendingPlanHash`, patch the annotation | an approval of an old plan does not approve a new one |
| **Jobs and pods** `job.go` | Job status, what the pod mounted | start, succeed, fail, hit the deadline (`configureAndCreateJob` sets it; drift Jobs and the Jobs of pinned revisions have none) | (external: what they do to the others) |
| **Watches** `tofuproject_controller.go:47-56`, `params.go:277-383` | the work queue | map an event to projects | no change that matters goes unnoticed |
| **Lifecycle** `tofuproject_controller.go:125-193, 1113-1289` | `deletionTimestamp`, finalizer, `spec.suspend`, `spec.ttl`, `spec.deleteProtection`, annotation `approved-delete`, Job `<p>-destroy` | add finalizer, expire, suspend and resume, wait for the delete approval, destroy, remove finalizer | no destroy without approval; nothing left behind; deletion completes |
| **Force-unlock** `tofuproject_controller.go:197-301` | annotation `force-unlock`, Job `<p>-force-unlock`, `status.stateLocked` | delete active Jobs, run the unlock Job, clear the annotation | the project works again afterwards; the request is served once |
| **Revisions and pinning** `revision.go` | ConfigMaps `<p>-rev-<n>`, `status.revision`, `spec.pinnedRevision` | create, trim the history, apply a pinned snapshot | numbers are unique; a pinned snapshot survives the trim |
| **Dependencies** `params.go:22-143` | upstream `status.phase` and `outputs` | wait for upstream, merge outputs | a project runs on its upstream's outputs; no deadlock |
| **Drift detection** `drift.go` | Job `<p>-drift-<t>`, `lastDriftCheckTime`, `driftDetected` | schedule, read the result, `keepInSync` | drift is repaired; checks go on |
| **GitHub approval** `github.go` | pull request, `status.pendingPRNumber` | open, poll, close | one open pull request per plan; a merge approves only what it showed |
| **Provider cache** `helpers.go:334-394, 601-617` | PVC | namespace-wide lock | no two Jobs on a shared cache; no starvation |
| **Apply windows** `helpers.go:641-680` | none | is the window open | agrees with the cron schedule |
| **External parameters** `params.go:147-273` | none | merge sources by precedence | the documented precedence; each source watched |
| **Plan counts and logs** `helpers.go:109-180` | none | parse | counts do not wrap |
| **Rendering, metrics, notifications, start-up, display commands** | none that control flow depends on | | not modelled |

Which module models which part is in section 2; `PROJECT.json` says of each part what is modelled and
what is not.

### How they interact

The pass calls everything else. Users act on the API server only (edits, annotations, deletions,
the kubectl plugin is a client like any other). Jobs act on the pass through their status, on the
real infrastructure, and through the ConfigMap that their pod mounts **when it starts**, not when
the Job is created. Projects act on each other through the outputs in their status, which wake their
dependents, and through the namespace-wide lock of a shared provider cache. GitHub tells the operator
nothing: it is polled. Watches and `RequeueAfter` put a project's key in the work queue; a pass that
returns an empty `Result` relies on a watch to be started again.

### What is hard

* every pass is a sequence of API calls, and users, Jobs and informers move between any two of them;
* a pass reads a copy of the project that is stale from the next write on: writes of that copy are
  refused (`Update`) or silently dropped (status);
* the informers trail: a Job the last pass created may not be there yet;
* the operator restarts between two calls and picks up from the objects alone;
* Jobs are found by configuration hash and kept when they are done, so history repeats itself.

`PROJECT.json` lists these hazards at the lines where they bite.

## 2. Modules

| Module | What it is |
|---|---|
| `PlanApply` | the core: one project, its passes (both flows), its Jobs, users, informers |
| `ApprovalGate` | abstract specification: what plan-then-approve promises of each configuration; `PlanApply` and `PullRequest` implement it |
| `MCPlanApply` | `PlanApply` for TLC (symmetry of the configurations) |
| `PlanApplyProofs` | type correctness, the inductive invariant, approval and record theorems |
| `PlanApplyLockProofs` | the job lock; approvals are not erased unseen; retries are counted |
| `PlanApplyGateProofs` | `PlanApply` implements `ApprovalGate` |
| `Lifecycle` | deletion, destroy, finalizer, TTL, suspension, force-unlock, re-creation, around a pass that applies one configuration |
| `LifecycleProofs` | type correctness, and what a pass's copy says truly of deletion |
| `LifecycleSafetyProofs` | consent to a deletion, no apply Job beside force-unlock, a clean release, the reported expiry |
| `Revisions` | revision ConfigMaps, their trim, and pinned revisions, around a pass that applies |
| `RevisionsProofs` | type correctness, numbers, snapshots, the length of the history and what a trim may take |
| `PullRequest` | approval of a plan by merging a GitHub pull request, with people and GitHub |
| `PullRequestProofs` | type correctness, merges approve their plan, no pull request is forgotten, `PullRequest` implements `ApprovalGate` |
| `Fleet` | several projects: dependencies, parameter sources, the shared cache, drift checks |
| `MCFleet` | `Fleet` for TLC: an upstream and a downstream project |
| `FleetProofs` | type correctness and the exclusion of Jobs on a shared cache |

`Revisions`, `PullRequest` and `Fleet` do not compose with `PlanApply`: each has a pass of its own that
keeps every step of the part it is about and cuts the rest down to what that part can see of it. One
module with all of them would be out of TLC's reach. The head of each module says what it leaves to
which other one. Which informers trail the API server is divided among them too: those of Jobs and
TofuProjects in `PlanApply`, that of ConfigMaps in `Revisions`, none in `Lifecycle`, `PullRequest` and `Fleet`.
The dropped errors of status writes are in all five (`StatusWriteLost`, in `Lifecycle` with `IgnoredErrors`).

### PlanApply and the code

| Variable | Code |
|---|---|
| `inputs`, `rendered` | what spec, program and parameters hash to now, and what the informers' copies do (`computeAppliedHash`); `None`: the program is missing or does not validate |
| `project`, `cache`, `current` | the stored `TofuProject` (approval annotation and status), the informer's copy, whether they agree |
| `configMap`, `mounted` | the content of `<p>-tf`; what each Job's pod mounted |
| `jobs`, `seen` | every Job's state by kind and hash; the informer's view of it |
| `queued` | the key is in the work queue (or will be, after a `RequeueAfter`) |
| `pc`, `hash`, `obj`, `fresh` | the pass: where it is, `appliedHash`, its in-memory project, whether that still has the stored resourceVersion |
| `reviewed` | `kubectl tofu approve` between its read and its patch |
| `infra`, `granted`, `attempts` | history: what the last successful apply ran, what was approved, how many apply Jobs were created |

A pass is one action per stretch of code that ends in an API write: `StartPass` (reads),
`EnsureTFConfigMap`, `WaitForActiveJob`/`NoActiveJob` (`checkJobLock`), then one of the actions of the
two flows, each named for the function it comes from, then `WriteStatus`. A write of the pass's copy
goes through only while `fresh`; a status conflict is dropped, a conflict of an `Update` ends the
pass with an error and a requeue. `PassFails` is an API error or a restart at any point;
`StatusWriteLost` and the second disjunct of `Remove` are errors of calls whose result the code
ignores (`IgnoredErrors`). Three details that matter and are easy to miss in the code:

* the ConfigMap is overwritten **before** the lock is checked;
* `invalidateStalePlan` clears the plan fields in memory and then calls `Update`, whose answer is
  decoded into the same object: the cleared status fields come back;
* a finished Job is never deleted except for a retry, so an old Job of the same hash is taken for a
  new one.

A status write that changes nothing makes no new resourceVersion and wakes nobody. Revision ConfigMaps
have no owner reference, so creating one wakes nobody; a failed apply always changes
`status.revision`, which does. A `RequeueAfter` is `queued` at once: delays are not distinguished, only
their order with other events. What the core leaves out is listed at the head of the module.

### Lifecycle and the code

Passes are modelled as in `PlanApply`; the informers keep up here, so there is one copy of the project
and no Job is missing from the list of those to delete.

| Variable | Code |
|---|---|
| `project` | the stored `TofuProject` (deletion timestamp, finalizer, annotations `approved-delete` and `force-unlock`, `spec.suspend`, whether `spec.ttl` is set, `status.expiresAt`, phase, applied) or `Gone` |
| `expired`, `timer` | creation plus TTL has passed; the work queue holds a delayed add for that moment |
| `configMap`, `orphans` | whether `<p>-tf` and the Jobs belong to this life of the project or to an earlier one that garbage collection has not reached |
| `jobs` | the apply, destroy and force-unlock Job |
| `infra` | the real resources |
| `ghosts` | the kinds whose Job was deleted (in the background) and whose pod still runs |
| `holder` | who holds the state lock of the backend: the command of a Job, of such a pod (`"dying"`), or one that died (`"lost"`) |
| `pc`, `obj`, `fresh` | the pass: `head` (deletion, finalizer, TTL), `body` (force-unlock, suspension, rendering), `unlock`, `clear`, `lock`, `apply`, then `status` or, when the Result will be clamped to the TTL, `report` |
| `overlap` | history: an apply and a destroy were under way together, pods of deleted Jobs included |

The actions are named for what the branches of `handleLifecycle`, `handleForceUnlock` and
`reconcileDestroy` do, in their order: deletion first, then finalizer, TTL, force-unlock, suspension.
`RemoveFinalizer` makes the project `Gone` and its objects orphans; the destroy Job has no owner and
stays. `CreateProject` starts another life under the same name. Whether `tofu force-unlock` succeeds is
left open (the script gives it no lock id). A deleted Job is gone at once, its pod is not: the command
goes on in `ghosts`, beside the force-unlock Job if need be, until `EndGhost`, having made resources or not,
having released its lock or not. A project may
be created suspended where `Commands` lets users change `spec.suspend`.

### Revisions and the code

| Variable | Code |
|---|---|
| `project` | the configuration in the spec, `spec.pinnedRevision` (0: none), `status.phase`, `lastAppliedHash`, `status.revision` |
| `configMap`, `shown` | the content of `<p>-tf`; what the informer shows of it |
| `revisions`, `seen` | the ConfigMaps `<p>-rev-<n>`: the stored hash and the snapshot, which a failed apply does not have; what the informer shows of them |
| `jobs` | the state of the apply Job of each hash; a finished Job stays |
| `pc`, `obj`, `fresh`, `target` | the pass, its copy, whether that is current, the hash it wants applied |
| `late` | history: the informer trailed `<p>-tf` in this pass; in a revision: in the pass that recorded it |
| `missed`, `dropped` | history: how many revisions the last complete trim was not shown; an API error lost the status write of the last pass |

A hash is a pair: `<<0, c>>` is what `computeAppliedHash` makes of configuration `c`, `<<n, c>>` what
`computePinnedHash` makes of revision `n`. The order of the steps is the point here: the number is
counted up in memory, the ConfigMap created, the history trimmed, and only then the status written,
whose conflict (`WriteStatus`) or other error (`StatusWriteLost`) is dropped; after a result nothing then asks
for another pass. `createRevisionFromCM` logs its errors and goes on, so each of its calls may
fail and the pass still ends in a status write. `FormerLife` are revisions of an earlier project of
the name: they have no owner, so nobody collects them.

Every read of a ConfigMap comes from the manager's informer, also the one right after a write. `Render`
writes nothing when the informer shows the wanted content already, and its write is refused, with a
requeue, when the informer shows an old version; `NewRevision` takes the snapshot that the informer shows;
`TrimRevisions` lists what it shows, mostly without the revision created just before, and passes
over what is gone already. The project owns `<p>-tf`, so `SyncConfigMap` wakes it; nobody owns a revision.

### PullRequest and the code

| Variable | Code |
|---|---|
| `config` | what the inputs hash to |
| `project` | annotation `approved-hash`; `lastAppliedHash`, `pendingPlanHash`, `pendingPRNumber`, `phase` |
| `plans`, `applies` | the Jobs by hash |
| `prs` | GitHub: every pull request by number, its branch (one per hash) and state |
| `pc`, `obj`, `fresh`, `wanted` | the pass |
| `lost` | history: the last status write of the last pass was lost |
| `openFailed`, `mislaid` | history: a pull request could not be opened; one is open that no status names |

`PROpen`, `PRMerged` and `PRClosed` are the outcomes of `checkPRMergeStatus`; `CloseStalePR` followed by
`InvalidateApproval` or `InvalidatePlan` is `invalidateStalePlan`, whose `Update` brings the cleared status
fields back when there are annotations. GitHub is external: it refuses a second open pull request from a
branch and closes the open one of a branch that is deleted. The calls of one opening (branch, file, pull
request) are one step that succeeds or fails. A status write whose error is dropped (`StatusWriteLost`, and
the one inside `InvalidatePlan`) leaves the pass with the `Result` it has.

### Fleet and the code

| Variable | Code |
|---|---|
| `settings` | which projects have `spec.cache.mode: shared`, `spec.driftDetection`, `keepInSync` |
| `spec`, `sources` | the value in each project's spec; in each ConfigMap or Secret, or that it is missing |
| `status` | per project: `phase`, `lastAppliedHash`, `outputs`, whether `lastDriftCheckTime` is less than an interval ago, `driftDetected` |
| `applyJobs`, `driftJobs`, `drifted` | the Jobs; the projects whose infrastructure others have changed |
| `queue`, `timers` | keys to serve now or after a fixed `RequeueAfter`; keys that return after the drift interval |
| `pc`, `cur`, `obj`, `target`, `fresh` | the one worker's pass: of which project, its copy, the hash it wants |
| `lost` | history: the projects whose last pass lost its status write |

`Ready` is `resolveExternalParams` and `resolveDependencies`; `Dependents` and `WokenBy` are the watch
mappings; `NamespaceBusy` is `hasActiveNamespaceJobs`, which counts drift Jobs too, where a project's own
lock does not. `DriftChecked` and `DeleteDriftJob` are `handleCompletedDriftJob`: the result is stored before
the Job is deleted, an unread log stores nothing, and a failed Delete is dropped, as is any error of a
status write (`StatusWriteLost`). The status of a failed apply always changes, since it counts up the
revision (`Counted`), and wakes the project. Left out: caches that
trail the API server (with a trailing Job informer two Jobs on a shared cache could run), the wakeup by
the project's own ConfigMap, destroy, force-unlock and pinned Jobs, upstreams that do not exist, and
cycles of dependencies, in which nobody is ever `Succeeded`.

## 3. Runs

All bounds are CONSTANTs of the modules: `Configs` (two configurations: the shortest way to have an
old one and a new one, to go back, and to approve the wrong one), `MaxEdits` (two edits: there and
back; one in `plan_lag`, `plan_live` and `fleet`), `MaxFaults` (one
fault in the middle of a pass, two for retries and pull requests, none in `plan_lag`),
`MaxRetries` (zero in `plan_lag`, else one or two; retries with a trailing Job informer are in `auto_core`),
`MaxLives` (two: one that leaves orphans and one that meets them), `MaxCommands` (one
user command besides deletion and its approval), `AttemptCap` (saturation of a history counter; 0 where no property reads
it). `CHECK_DEADLOCK FALSE` everywhere: a project at rest, with the edits used up, may stop.

| Run | Instance | Shows |
|---|---|---|
| `plan_core` | plan-then-approve, threshold and apply window, edits of spec and program, a fault or a dropped error | `ApprovedBeforeApply`, `OneActiveJob`, `ApprovalNotErasedUnseen`, `ImplementsApprovalGate` |
| `plan_lag` | the same with both informers trailing, stuck Jobs killed, other annotations present | approval and `AppliedRecordIsBacked` hold whatever is read late |
| `auto_core` | autoApprove, one configuration, two edits of any kind and invalid inputs, retries, sync interval, trailing Job informer, two faults or dropped errors | `TypeOK` (the retry count in range), `AppliedRecordIsBacked`, `RetriesAreCounted` |
| `plan_live` | fair scheduling, an edit and a fault | `Settles`, `EditsAreNoticed` |
| `lifecycle` | two lives, protected, locking backend, stuck destroy, dropped errors, pods that outlive their Jobs, any user command | `TypeOK`, `ReleasedClean`, `DeletionNeedsConsent` |
| `lifecycle_live` | one life, fair scheduling, a fault anywhere, any user command | `NoApplyJobBesideUnlock`, `ExpiryIsReported`, `DeletionEnds`, `UnlockEnds` |
| `revisions` | fair scheduling, history limit 1, numbers up to 3, a revision 1 left by a former project, two edits, pins or unpins, a trailing ConfigMap informer, a fault | `TypeOK`, `AtMostOneAhead`, `HistoryBounded`, `SnapshotMatchesHash`, `AuditTrailKept`, `PinSettles`, `SpecIsRendered` |
| `pull_request` | two edits or rejections, up to five pull requests, two failing GitHub or Kubernetes calls, dropped status writes or restarts | `TypeOK`, `MergeApprovesItsPlan`, `OpenPRsAreKnown`, `MergeIsTheGate`, `MergeIsHonoured` |
| `fleet` | an upstream and a downstream that also reads a ConfigMap; a shared cache with and without drift checks, and caches of their own with `keepInSync`; an edit, a change by others and a fault or dropped status write | `TypeOK`, `SharedExclusion`, `WaitersAreServed`, `DriftIsNoticed` |
| `doc_approved`, `doc_merge`, `doc_drift` | one property each, from a sentence of the documentation, that the code does not keep | see Findings |

The bounds of `revisions` let a number be taken already (1), a trim have something to delete (limit 1),
a revision be pinned that is being trimmed or is missing, and status writes be lost several times in a row (each
edit makes one conflict, the fault drops one), which shows whether numbers can run ahead further and further. Numbers end at `MaxRevision`: a finally
failed apply would count them up for ever (see below). In `pull_request` two edits go there and back, so
that a branch name returns; the instance never opens more than five pull
requests, so `MaxPRs` cuts nothing off. `fleet` has one edit, one change and one fault (a failing call, a
dropped status write, an unread log, a failed check or a restart) at any step;
two projects are enough for one to wait for, wake, or exclude the other.

`Settles` and `EditsAreNoticed` use `FairSpec`. Its fairness is what the code's environment gives:
the single worker serves a queued key and a pass terminates (every call returns); a pending Job starts
and a running one ends, by `activeDeadlineSeconds` at the latest; informers catch up; a user approves
the pending plan of the wanted configuration. Users may approve any other pending plan, but nothing
forces them, and `Settles` speaks of the runs in which they stop doing so. No edit or fault is ever forced. The informers' ten-hour resync would
wake every project eventually; it is left out, since nothing in the code counts on it. `DeletionEnds` and
`UnlockEnds` use `Lifecycle`'s `FairSpec`: the same for passes and Jobs, the garbage collector runs, time
passes, a user approves a deletion. `DeletionEnds` leaves `resourceTimeout` unset: with it a destroy can be
killed and started again forever.

The `FairSpec` of `Revisions` and of `PullRequest` asks for passes, the end of Jobs and, in `Revisions`, informers
that catch up: nobody has to edit, unpin or merge. That of `Fleet` has strong fairness for serving a queued key, since the work queue is
first in, first out and the worker returns to it after every pass, and weak fairness for the steps of a
pass, Jobs and the passing of the drift interval. Failed drift checks and unread logs count as faults
and are bounded: the code does not promise to notice a drift that no check ever gets to report.

`plan_live` and `lifecycle_live` leave `IgnoredErrors` off: a pass that drops an error and asks for no other one
may stop for good (`Planning` for ever, a force-unlock request that stays), which the code does not
repair. `revisions`, `pull_request` and `fleet` have the dropped status writes, and their properties except what
those lose.

Exemptions, all of real behaviour:

* `WaitersAreServed` and `DriftIsNoticed` speak of projects whose sources and upstreams are `Ready`, and not of
  those that can starve (`CanStarve`: drift Jobs of others on a shared cache can come between for ever).
  `WaitersAreServed` excepts a project whose last status write was dropped: it may stay `Running` with a succeeded
  Job, and its downstreams, then not `Ready`, wait for it;
* `PinSettles` excepts a pin whose last status write was dropped, for the same reason;
* `MergeApprovesItsPlan` and `MergeIsTheGate` hold as long as every pull request could be opened (the finding
  `doc_merge` is what happens otherwise); `MergeIsHonoured` lets the record of a succeeded apply be lost;
  `OpenPRsAreKnown` excepts a pull request whose record was lost or that GitHub did not close;
* `SnapshotMatchesHash` excepts a revision that was recorded while the informer trailed (`EverySnapshotMatchesHash` below), and
  `HistoryBounded` allows one revision for each that the trim was not shown (`LimitIsMaximum` below) and for each fault;
* `NoApplyJobBesideUnlock` and `ExpiryIsReported` hold while API errors are reported;
* `ReleasedClean` excepts an apply that is under way beside the destroy Job (destroy does not ask the
  job lock) and a second life, in which the destroy Job of the first counts as done.

### Findings

* `doc_approved`: the ConfigMap is overwritten before the lock is checked, so an approved apply Job that
  has not started can run a configuration that nobody approved.
* `doc_merge`: after an edit, the `Update` that erases the old approval brings the old pull request's number
  back into memory. If opening the new one fails, that number is stored beside the new plan's hash, and
  when the old pull request turns out merged the new, unreviewed plan is applied.
* `doc_drift`: `keepInSync` clears `lastAppliedHash`, but the succeeded apply Job of the same hash is still
  there, so `Succeeded` is reported and the drift stays.

Six more properties that the documentation or a comment suggests are stated in the modules without a kept run; TLC
refutes each on a small instance:

* `VictimsWouldFail` (`Lifecycle`, a locking backend, one force-unlock): force-unlock deletes every active Job,
  because "they'd fail anyway with a lock". The Job that holds the lock would not: its pod lives on for its
  grace period while the force-unlock Job, created in the same pass, breaks its lock.
* `EverySnapshotMatchesHash` (`Revisions`, two edits): a configuration that is gone back to, by an edit or by
  removing a pin, finds its old apply Job succeeded and is recorded in the very pass that renders it,
  from the informer's copy of `<p>-tf`, which may still hold the other configuration. Pinning that revision
  later applies it.
* `LimitIsMaximum` (`Revisions`, no fault): the trim lists the revisions right after creating one, from an informer
  that does not show it yet, so one more than the limit stays.
* `PinnedIsKept` (`Revisions`, two edits): the trim protects the pin of the pass's copy, but only passes without a
  pin trim: a revision that is pinned while one of them is under way can be deleted.
* `SucceededMeansApplied` (`PlanApply`, autoApprove, two configurations, two edits): go to another
  configuration and back: the old apply Job is found, and `Succeeded` is reported without an apply.
* `RestsOnItsInputs` (`PlanApply`, fair, one edit of the program): nothing watches `TofuProgram`, so an edited
  program is not rolled out.

Seen while modelling, without a property:

* only a pass that reaches the end of `Reconcile` schedules the expiry: a project that is suspended
  before its first pass is never deleted by its TTL;
* the destroy Job of an earlier project of the same name counts as this one's, so the finalizer goes
  without a destroy;
* a dropped status write after a succeeded apply, pinned or not, leaves the project `Running` with nothing to wake it,
  and those that depend on it waiting;
* `ensureTFConfigMap` writes nothing when the informer still shows the wanted content, though it has been overwritten
  since: `SpecIsRendered` says that this is repaired, but a Job created by that pass may mount the
  other content first;
* the Jobs that force-unlock deletes come from an informer, which may lack one that the previous pass
  created (not in the model);
* a restart between the deletion of a failed apply Job and the status write gives an uncounted retry
  (hence the fault term in `RetriesAreCounted`); a dropped status write leaves a planned project in `Planning`;
  with a trailing informer the job lock can be passed; most return paths ignore `syncInterval`;
* a finally failed apply is recorded again by every pass: `status.revision` counts up, the status change
  wakes the controller, and the next pass does the same. It never rests, and pushes the successful
  revisions out of the history that `doc/revisions.md` calls an audit trail of every apply;
* the early return for a hash that is applied already restores no phase: an applied project that was
  `Queued`, `WaitingDependency` or `Error` in between stays so and blocks its downstreams;
* a drift check puts its project in `DriftChecking`, so a downstream with changed inputs waits, and a check that
  finds drift, or fails, leaves it there;
* an apply whose log cannot be read counts as done and publishes no outputs; nothing tries again, and
  a downstream waits for them.

## 4. Proofs

Assumptions: `ConfigsAssumption` (`None` is no configuration; finitely many of them),
`FlagsAssumption` and `BoundsAssumption` (types of the other constants); for `Lifecycle`,
`GoneAssumption` (`Gone` is no project), `SettingsAssumption` and `LimitsAssumption` (types; at least one
life); for `Revisions`, `RevisionAssumption` (types; `None` is no configuration; at least one number; the
revisions of a former life have numbers in range); for `PullRequest`, `PullRequestAssumption` (types; `None` is no
configuration); for `Fleet`, `FleetAssumption` (types; at least one value; `None` is neither a value nor a project).
Everything else is arbitrary: any number of configurations, edits, lives, commands, projects, sources,
revisions, pull requests, faults and retries, trailing informers (in `PlanApply`) or not, and any dependencies,
cycles included.

### PlanApply

`IInv == Typed /\ SeenIsTrue /\ Evidence /\ ApplyIsGranted` is the inductive invariant of
`PlanApplyProofs`. `ApprovedBeforeApply` is not inductive: the approval that leads to an apply travels from
`pendingPlanHash` through the user's `reviewed` and the annotation to a pass's copy, and any of these
may be out of date. `Evidence` says that no copy is ever wrong about the **past**: a pending or
approved hash had a successful plan, an applied hash a successful apply. That is stable because what
the informer shows as succeeded stays so (`SeenIsTrue` and `Removed`: only Jobs seen as not succeeded
are deleted), which is the lemma `EvidenceIsStable`. From it:

* `TypeCorrect`: `Spec => []TypeOK`;
* `ApprovalRequired`: `Spec => []ApprovedBeforeApply`; `RecordBacked`: `Spec => []AppliedRecordIsBacked`;
* `LockExcludes`: `Spec => []OneActiveJob`, from `LockInv`: past the lock no Job is active, since only a
  pass creates Jobs and it ends after creating one;
* `ApprovalKept`: `Spec => ApprovalNotErasedUnseen`, from `CopyInv`: a fresh copy holds the stored approval;
* `RetriesCounted`: `Spec => []((~ProjectLag /\ ~StuckTimeout) => RetriesAreCounted)`. The bound is not
  inductive: between the deletion of a failed Job and the status write the retry is counted in the pass's copy
  only (`RetryUnstored`), and an edit or an approval in that moment makes the write a conflict, so that the
  count is lost for good. `RetryInv` says that such an edit has been counted before the retry that it hides:
  when the project has changed under a pass that may still delete the Job, there is one attempt less than the
  bound. `SeenFailures` (a failure that a trailing Job informer shows did happen, and nothing is created until the
  informer has seen that Job go) and `NoReviews` (nobody approves plans of an autoApprove project) close the induction. The
  hypotheses are needed: a Job killed for a stuck resource is re-created uncounted, and a pass that
  starts from an old copy of the project loses the count without an edit;
* `GateImplemented`: without autoApprove, `Spec => ImplementsApprovalGate`: the initial state maps to
  `GateInit`, and each step moves at most one configuration along a move of the gate or stutters.

### Lifecycle

`Sound == TypeOK /\ CopyInv` is the inductive invariant of `LifecycleProofs`. The types alone are not
inductive: a pass writes fields of a project that others may have removed. `CopyInv` says why that
cannot go wrong: a copy with the finalizer means that the project is still there and has it, and a copy
that shows a deletion or its approval is right, because neither is ever taken back. From it:

* `TypeCorrect`: `Spec => []TypeOK`;
* `ConsentHolds`: `Spec => DeletionNeedsConsent`: only three steps create a destroy Job or release a
  finalizer, and what their copy says of deletion and approval holds of the stored project too;
* `UnlockSafe`: `Spec => []NoApplyJobBesideUnlock`, from `UnlockInv`: from the moment force-unlock has deleted
  the active Jobs until it creates its own, no step can make an apply Job active, and a pass about to
  create an apply Job has found no active Job. It is about Jobs and needs their deletion to succeed: the pod of
  a deleted apply may run beside the unlock, and no property says otherwise (`VictimsWouldFail`);
* `ReleaseIsClean`: `Spec => []ReleasedClean`, from `CleanInv`: as long as no apply, be it the pod of a deleted
  Job, was under way beside a destroy, a destroy Job exists only for a deleted project whose pass knows of the deletion, hence
  no apply follows it; and resources, or an apply that may make some, imply the ConfigMap and the
  project that are needed to destroy them;
* `ExpiryReported`: `Spec => []ExpiryIsReported`, from `ExpiryInv`: a copy that is no longer current means that
  a wakeup is pending; a current one shows the stored TTL and expiry; and a pass that has left its head with
  a project that lives has made the two agree. It needs every API error reported: the write of the
  expiry drops its error, and nothing would repeat it.

### Revisions

Each theorem of `RevisionsProofs` has an inductive invariant of its own on top of `Sound == TypeOK /\ PassOK`:
a pass indexes the revisions by its pin and the Jobs by its target, so `PassOK` says which hash it has in its
hands, and that only a pass without a pin records.

* `TypeCorrect`: `Spec => []TypeOK`;
* `NumbersKeepUp`: `Spec => []AtMostOneAhead`, from `NumberKept`: nobody else counts revisions, so the number a
  pass counts up is the stored one, until the pass creates the revision; a lost status write makes the next pass count to the
  same number again;
* `SnapshotsAreTrue`: `Spec => []SnapshotMatchesHash`, from `RenderKept`: a pass that is not `late` has found or
  written the target's configuration in `<p>-tf`, which no other step writes until the revision is created; one
  that reads anything else marks its revision `late`;
* `HistoryIsBounded`: `Spec => []HistoryBounded`, from `HistoryInv`: between the creation of a revision and the trim
  there is one more, a trim that fails or is cut off is a fault, and a complete one leaves the limit and
  what it was not shown (`missed`). The proof counts finite sets;
* `TrailIsKept`: `Spec => AuditTrailKept`, from `TrailInv`: what the informer shows and is gone already is older than
  `Limit` revisions that exist, so the newest `Limit` of any list that the trim may see exist too.

### PullRequest

`Sound == TypeOK /\ PassOK` is inductive by itself: `PassOK` says that the stored project and the copy of
a pass name pull requests that exist, and agree on the approval until the pass ends. Each theorem adds a part of its own:

* `TypeCorrect`: `Spec => []TypeOK`;
* `MergeApproves`: `Spec => []MergeApprovesItsPlan`, from `NamedInv`: the pull request that the status names was
  opened for the plan that it names. The copy of a pass about to open one is the exception: it holds the
  new plan beside the old number, which is what makes a failed opening dangerous (`doc_merge`);
* `OpenAreKnown`: `Spec => []OpenPRsAreKnown`, from `OpenInv`: a pass closes the pull request of a stale plan
  before it goes on and opens one only when there is none; until it has stored what it did, the open one is that of its
  copy, and an approved plan has none open;
* `MergeImplementsGate`: `Spec => MergeIsTheGate`, the refinement of `ApprovalGate` with merging as the approval,
  from `NamedInv` and `PlannedInv` (a pull request exists only for a plan that has succeeded): four kinds of steps move
  one configuration each (a plan ends, somebody merges, an apply is created, an apply ends), and all others
  stutter. The gate's step back from a failed apply is never taken, since there is no retry in this module.

### Fleet

`IInv == Sound /\ LockKept /\ SharedExclusion` is the inductive invariant of `FleetProofs`, with
`Sound == TypeOK /\ PassOK`. The types alone are not inductive: a pass creates a Job for `target` and indexes the
Jobs of `cur`, so `PassOK` says that a pass past its start has a project and, until it creates a Job, a hash
of that project, in which no parameter and no output is missing. `SharedExclusion` is not inductive
either: `LockKept` says that the namespace a pass found free is free still. That is so because there is
one worker, so no other pass creates a Job in between, and users, time and ending Jobs create none.
From it:

* `TypeCorrect`: `Spec => []TypeOK`;
* `SharedJobsExclude`: `Spec => []SharedExclusion`, for any number of projects, with drift checks beside.

The invariants were checked by TLC on the instances of the runs, or larger ones, before they were proved.
Every invariant, action property and refinement that a passing run checks is stated by a theorem. Only
model-checked is what says that something must happen, since liveness under fairness is out of the prover's reach:
`Settles`, `EditsAreNoticed`, `DeletionEnds`, `UnlockEnds`, `PinSettles`, `MergeIsHonoured`, `WaitersAreServed`,
`SpecIsRendered`, `DriftIsNoticed`.

## 5. Plan

1. Done: `PlanApply`, `ApprovalGate`, `Lifecycle`, `Revisions`, `PullRequest` and `Fleet`, with proofs of every safety
   property that a run checks.
2. Theorems worth proving next: what a downstream builds on (in `Fleet`, that outputs come from an apply that
   succeeded with the parameters of its hash); a version of `ReleasedClean` for later lives that says which former
   destroy Job is to blame; retries with a trailing project informer, where each loss is paid for by a late read.
3. Extensions: destroy and pinned Jobs in `Fleet`, upstreams that are missing; trailing informers in
   `Lifecycle`, `PullRequest` and `Fleet`.

Not modelled, and why:

* apply windows: `PlanApply` lets a window be open or shut at any time; the search for it is arithmetic
  over a cron library, better served by a unit test against the library;
* precedence of parameter sources: a merge of maps, the later one wins, without any interleaving;
* plan counts and log parsing: text extraction; the models take its outcomes (above the threshold or
  not, read or not) as choices;
* HCL and command rendering (string templates), metrics and notifications (write-only), the display
  commands of the plugin, the start-up of the manager. Leader election is assumed to keep one controller
  active.
