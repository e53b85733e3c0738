----------------------------- MODULE Revisions -----------------------------
(***************************************************************************)
(* Revision history and pinned revisions of one TofuProject with           *)
(* spec.autoApprove: createRevisionFromCM at the end of every apply, the   *)
(* trim of old revisions, and reconcilePinned.                             *)
(*                                                                         *)
(* A hash is a pair <<n, c>>: n = 0 for the configuration c computed from  *)
(* the spec, n > 0 for revision n pinned, whose stored hash is that of c.  *)
(* Jobs are found by their hash and stay when they are over.               *)
(*                                                                         *)
(* As in PlanApply a pass is one action per stretch of code that ends in   *)
(* an API write and works on the copy obj that it read.                    *)
(*                                                                         *)
(* Reads go through the manager's informers (GetClient).  That of the      *)
(* ConfigMaps may trail the API server: shown and seen are what it shows   *)
(* of configMap and revisions.  Changes of the revisions are shown in any  *)
(* order, which the watch's own order is one of.  The informers of         *)
(* TofuProjects and Jobs keep up here; PlanApply lets them trail.          *)
(*                                                                         *)
(* Not here: plans, retries and what a Job's pod mounts (PlanApply),       *)
(* deletion and force-unlock (Lifecycle).                                  *)
(***************************************************************************)
EXTENDS Naturals, FiniteSets, Functions

CONSTANTS
    Configs,     \* configurations a spec can describe
    None,        \* no configuration
    Limit,       \* spec.revisionHistoryLimit, 0 keeps all
    FormerLife,  \* numbers of the revisions a former project of the name left
    MaxRevision, \* bound: the last revision number; no further one is recorded
    MaxEdits,    \* bound: edits, pins and unpins
    MaxFaults    \* bound: API errors and operator restarts inside a pass

ASSUME RevisionAssumption ==
    /\ None \notin Configs /\ Limit \in Nat
    /\ MaxRevision \in Nat \ {0} /\ FormerLife \subseteq 1 .. MaxRevision
    /\ MaxEdits \in Nat /\ MaxFaults \in Nat

VARIABLES
    project,   \* the stored TofuProject
    configMap, \* what <project>-tf holds, None before the first pass
    shown,     \* what the informer shows of it
    revisions, \* the revision ConfigMaps: a function on their numbers
    seen,      \* what the informer shows of them
    jobs,      \* the state of the apply Job of each hash
    queued, pc, obj, fresh,
    target,    \* the hash the running pass wants applied
    late,      \* history: the running pass found its content shown, not stored
    missed,    \* history: revisions the last complete trim was not shown
    dropped,   \* history: an API error lost the status write of the last pass
    edits, faults

passVars == <<pc, obj, fresh, target, late>>
cacheVars == <<shown, seen>>
storeVars == <<configMap, revisions, jobs, missed>>
boundVars == <<edits, faults>>
vars == <<project, storeVars, cacheVars, queued, dropped, passVars, boundVars>>

-----------------------------------------------------------------------------
Numbers == 1 .. MaxRevision
Hashes == (0 .. MaxRevision) \X Configs
NoHash == <<0, None>>
Contents == Configs \cup {None}
JobStates == {"absent", "active", "succeeded", "failed"}

Projects == [config : Configs, pin : 0 .. MaxRevision,
             phase : {"", "Running", "Succeeded", "Error"},
             applied : Hashes \cup {NoHash}, revision : 0 .. MaxRevision]

\* A failed apply leaves a revision without a snapshot.  History: late says that
\* the informer trailed <project>-tf in the pass that recorded it.
Revision == [hash : Configs, snapshot : Contents, late : BOOLEAN]

NewProject(c) ==
    [config |-> c, pin |-> 0, phase |-> "", applied |-> NoHash, revision |-> 0]

TypeOK ==
    /\ project \in Projects /\ obj \in Projects
    /\ configMap \in Contents /\ shown \in Contents
    /\ DOMAIN revisions \subseteq Numbers /\ DOMAIN seen \subseteq Numbers
    /\ \A n \in DOMAIN revisions : revisions[n] \in Revision
    /\ \A n \in DOMAIN seen : seen[n] \in Revision
    /\ jobs \in [Hashes -> JobStates]
    /\ queued \in BOOLEAN /\ fresh \in BOOLEAN
    /\ late \in BOOLEAN /\ dropped \in BOOLEAN /\ missed \in 0 .. MaxRevision
    /\ target \in Hashes \cup {NoHash}
    /\ pc \in {"idle", "head", "lock", "apply", "record", "trim", "status"}
    /\ edits \in 0 .. MaxEdits /\ faults \in 0 .. MaxFaults

\* A worker without a pass has no copy.
NoCopy == NewProject(CHOOSE c \in Configs : TRUE)

\* A project may be created under the name of one that left revisions behind.
Init ==
    /\ \E c \in Configs : project = NewProject(c)
    /\ configMap = None /\ shown = None
    /\ \E c \in Configs :
          revisions = [n \in FormerLife |->
                         [hash |-> c, snapshot |-> c, late |-> FALSE]]
    /\ seen = revisions
    /\ jobs = [h \in Hashes |-> "absent"]
    /\ queued = TRUE
    /\ pc = "idle" /\ obj = NoCopy /\ fresh = TRUE /\ target = NoHash
    /\ late = FALSE /\ missed = 0 /\ dropped = FALSE
    /\ edits = 0 /\ faults = 0

-----------------------------------------------------------------------------
Active == {h \in Hashes : jobs[h] = "active"}

EndPass ==
    /\ pc' = "idle" /\ obj' = NoCopy /\ fresh' = TRUE /\ target' = NoHash
    /\ late' = FALSE

GoOn(step, p) == pc' = step /\ obj' = p /\ UNCHANGED <<fresh, target, late>>

\* The frame of a step that writes nothing but the pass and the work queue.
OnlyPassMoves == UNCHANGED <<project, storeVars, cacheVars, dropped, boundVars>>

StartPass ==
    /\ pc = "idle" /\ queued
    /\ queued' = FALSE /\ dropped' = FALSE
    /\ pc' = "head" /\ obj' = project
    /\ UNCHANGED <<project, storeVars, cacheVars, fresh, target, late, boundVars>>

\* handleLifecycle hands a pinned project to reconcilePinned.
Pinned == pc = "head" /\ obj.pin # 0

\* CreateOrUpdate of <project>-tf.  Content that is shown already is not written.
\* The write is refused, with a requeue, when the informer shows an old version.
Render(content, hash) ==
    \/ /\ content = shown \/ shown = configMap
       /\ configMap' = IF content = shown THEN configMap ELSE content
       /\ late' = (shown # configMap)
       /\ target' = hash /\ pc' = "lock"
       /\ UNCHANGED <<queued, obj, fresh>>
    \/ /\ content # shown /\ shown # configMap
       /\ queued' = TRUE
       /\ EndPass
       /\ UNCHANGED configMap

\* Mutant: <project>-tf is created when it is missing and never updated.
RenderedMutant == IF shown = None THEN obj.config ELSE shown

Rendered == obj.config

\* prepareReconcile, computeAppliedHash and ensureTFConfigMap.
EnsureTFConfigMap ==
    /\ pc = "head" /\ obj.pin = 0
    /\ Render(Rendered, <<0, obj.config>>)
    /\ UNCHANGED <<project, revisions, jobs, missed, cacheVars, dropped, boundVars>>

-----------------------------------------------------------------------------
(***************************************************************************)
(* reconcilePinned.                                                        *)
(***************************************************************************)

HasSnapshot(n) == n \in DOMAIN seen /\ seen[n].snapshot # None

\* loadPinnedSnapshot: no such revision is shown, or it is a failed one.
RejectPin ==
    /\ Pinned /\ ~HasSnapshot(obj.pin)
    /\ GoOn("status", [obj EXCEPT !.phase = "Error"])
    /\ OnlyPassMoves /\ UNCHANGED queued

\* Mutant: a pinned revision is told from the spec's configuration no more.
PinnedHashMutant(n) == <<0, seen[n].hash>>

\* computePinnedHash.
PinnedHash(n) == <<n, seen[n].hash>>

PinAlreadyApplied ==
    /\ Pinned /\ HasSnapshot(obj.pin) /\ obj.applied = PinnedHash(obj.pin)
    /\ EndPass
    /\ OnlyPassMoves /\ UNCHANGED queued

\* The snapshot replaces the content of <project>-tf before the lock is asked.
PreparePinnedInfra ==
    /\ Pinned /\ HasSnapshot(obj.pin) /\ obj.applied # PinnedHash(obj.pin)
    /\ Render(seen[obj.pin].snapshot, PinnedHash(obj.pin))
    /\ UNCHANGED <<project, revisions, jobs, missed, cacheVars, dropped, boundVars>>

-----------------------------------------------------------------------------
(***************************************************************************)
(* Lock, apply Job and its result, for both flows.                         *)
(***************************************************************************)

WaitForActiveJob ==
    /\ pc = "lock" /\ Active # {}
    /\ queued' = TRUE
    /\ GoOn("status", [obj EXCEPT !.phase = "Running"])
    /\ OnlyPassMoves

NoActiveJob ==
    /\ pc = "lock" /\ Active = {}
    /\ GoOn("apply", obj)
    /\ OnlyPassMoves /\ UNCHANGED queued

AlreadyApplied ==
    /\ pc = "apply" /\ obj.applied = target
    /\ EndPass
    /\ OnlyPassMoves /\ UNCHANGED queued

ApplyTurn == pc = "apply" /\ obj.applied # target

CreateApplyJob ==
    /\ ApplyTurn /\ jobs[target] = "absent"
    /\ jobs' = [jobs EXCEPT ![target] = "active"]
    /\ queued' = TRUE
    /\ GoOn("status", [obj EXCEPT !.phase = "Running"])
    /\ UNCHANGED <<project, configMap, revisions, missed, cacheVars, dropped, boundVars>>

\* Only the normal flow records revisions.
AfterResult == IF target[1] = 0 THEN "record" ELSE "status"

ApplySucceeded ==
    /\ ApplyTurn /\ jobs[target] = "succeeded"
    /\ GoOn(AfterResult, [obj EXCEPT !.phase = "Succeeded", !.applied = target])
    /\ OnlyPassMoves /\ UNCHANGED queued

ApplyFailed ==
    /\ ApplyTurn /\ jobs[target] = "failed"
    /\ GoOn(AfterResult, [obj EXCEPT !.phase = "Error"])
    /\ OnlyPassMoves /\ UNCHANGED queued

-----------------------------------------------------------------------------
(***************************************************************************)
(* createRevisionFromCM: its errors end the recording, not the pass.       *)
(***************************************************************************)

\* The error of a read or a write that is only logged.
LoggedError == faults < MaxFaults /\ faults' = faults + 1

\* <project>-tf cannot be read or is not shown yet, or the bound on the numbers is
\* reached.
SkipRevision ==
    /\ pc = "record"
    /\ \/ (shown = None \/ obj.revision = MaxRevision) /\ UNCHANGED faults
       \/ LoggedError
    /\ GoOn("status", obj)
    /\ UNCHANGED <<project, storeVars, cacheVars, queued, dropped, edits>>

\* Mutant: a number that is taken is skipped.
NextNumberMutant ==
    LET free == {n \in Numbers : n > obj.revision} \ DOMAIN revisions IN
    IF free = {} THEN MaxRevision ELSE CHOOSE n \in free : \A m \in free : n <= m

NextNumber == obj.revision + 1

\* Mutant: a failed apply has no hash to store.
NewRevisionMutant ==
    [hash |-> IF jobs[target] = "succeeded" THEN target[2] ELSE None,
     snapshot |-> None, late |-> FALSE]

\* The snapshot is what the informer shows of <project>-tf.
NewRevision ==
    [hash |-> target[2],
     snapshot |-> IF jobs[target] = "succeeded" THEN shown ELSE None,
     late |-> late \/ shown # configMap]

\* The number is counted up in memory first.  A ConfigMap of that number stays
\* as it is, and nothing is trimmed then.
CreateRevision ==
    /\ pc = "record" /\ obj.revision < MaxRevision /\ shown # None
    /\ LET n == NextNumber
           counted == [obj EXCEPT !.revision = n]
       IN \/ /\ n \notin DOMAIN revisions
             /\ revisions' = [m \in DOMAIN revisions \cup {n} |->
                                IF m = n THEN NewRevision ELSE revisions[m]]
             /\ GoOn("trim", counted)
             /\ UNCHANGED faults
          \/ /\ n \in DOMAIN revisions
             /\ GoOn("status", counted)
             /\ UNCHANGED <<revisions, faults>>
          \/ /\ LoggedError
             /\ GoOn("status", counted)
             /\ UNCHANGED revisions
    /\ UNCHANGED <<project, configMap, jobs, missed, cacheVars, queued, dropped, edits>>

\* Mutant: off by one.
SurplusMutant ==
    {n \in DOMAIN seen : Cardinality({m \in DOMAIN seen : m > n}) > Limit}

\* Mutant: newest first.
SurplusOrderMutant ==
    {n \in DOMAIN seen : Cardinality({m \in DOMAIN seen : m <= n}) > Limit}

\* The oldest of the revisions in the list, so many that Limit remain.
Surplus ==
    {n \in DOMAIN seen : Cardinality({m \in DOMAIN seen : m >= n}) > Limit}

\* cleanupOldRevisions deletes upwards, ignores what is gone already and stops at
\* the first error.
TrimRevisions ==
    /\ pc = "trim"
    /\ LET doomed == IF Limit = 0 THEN {} ELSE Surplus \ {obj.pin} IN
       \E last \in 0 .. MaxRevision :
          LET deleted == {n \in doomed : n <= last} IN
          /\ revisions' = Restrict(revisions, DOMAIN revisions \ deleted)
          /\ \/ /\ deleted = doomed
                /\ missed' = Cardinality(DOMAIN revisions \ DOMAIN seen)
                /\ UNCHANGED faults
             \/ deleted # doomed /\ LoggedError /\ UNCHANGED missed
    /\ GoOn("status", obj)
    /\ UNCHANGED <<project, configMap, jobs, cacheVars, queued, dropped, edits>>

-----------------------------------------------------------------------------
(***************************************************************************)
(* The end of a pass, informers, Jobs and users.                           *)
(***************************************************************************)

WithStatus(o) ==
    [project EXCEPT !.phase = o.phase, !.applied = o.applied,
                    !.revision = o.revision]

\* A conflict is dropped: the pass has acted and its record is lost.
WriteStatus ==
    /\ pc = "status"
    /\ project' = IF fresh THEN WithStatus(obj) ELSE project
    /\ queued' = (queued \/ project' # project)
    /\ EndPass
    /\ UNCHANGED <<storeVars, cacheVars, dropped, boundVars>>

\* Any other error of the status write is dropped too, and after a result the pass
\* asks for no other one.
StatusWriteLost ==
    /\ pc = "status" /\ LoggedError
    /\ dropped' = TRUE
    /\ EndPass
    /\ UNCHANGED <<project, storeVars, cacheVars, queued, edits>>

\* An API call fails and its error requeues the project, or the operator restarts
\* (from "record" on it is the restart alone).
CallFailsOrRestart ==
    /\ pc # "idle" /\ LoggedError
    /\ queued' = TRUE
    /\ EndPass
    /\ UNCHANGED <<project, storeVars, cacheVars, dropped, edits>>

\* Mutant: the controller does not watch what it owns.
WokenMutant == queued

\* The project owns <project>-tf, whose changes wake it (SetupWithManager).
Woken == TRUE

\* The informer shows the last write of <project>-tf.
SyncConfigMap ==
    /\ shown # configMap /\ shown' = configMap
    /\ queued' = Woken
    /\ UNCHANGED <<project, storeVars, seen, dropped, passVars, boundVars>>

\* It shows revision n as it is now, or gone.  Nobody owns a revision.
SyncRevision(n) ==
    LET known == (DOMAIN seen \ {n}) \cup (DOMAIN revisions \cap {n}) IN
    /\ seen' = [m \in known |-> IF m = n THEN revisions[m] ELSE seen[m]]
    /\ seen' # seen
    /\ UNCHANGED <<project, storeVars, shown, queued, dropped, passVars, boundVars>>

EndJob(h) ==
    /\ h \in Active
    /\ \E s \in {"succeeded", "failed"} : jobs' = [jobs EXCEPT ![h] = s]
    /\ queued' = TRUE
    /\ UNCHANGED <<project, configMap, revisions, missed, cacheVars, dropped,
                   passVars, boundVars>>

UserWrites(p) ==
    /\ edits < MaxEdits /\ edits' = edits + 1
    /\ p # project /\ project' = p
    /\ fresh' = (pc = "idle")
    /\ queued' = TRUE
    /\ UNCHANGED <<storeVars, cacheVars, dropped, pc, obj, target, late, faults>>

EditSpec == \E c \in Configs : UserWrites([project EXCEPT !.config = c])

\* kubectl tofu pin patches any positive number.
Pin == \E n \in Numbers : UserWrites([project EXCEPT !.pin = n])

Unpin == UserWrites([project EXCEPT !.pin = 0])

-----------------------------------------------------------------------------
Pass ==
    \/ StartPass \/ EnsureTFConfigMap
    \/ RejectPin \/ PinAlreadyApplied \/ PreparePinnedInfra
    \/ WaitForActiveJob \/ NoActiveJob \/ AlreadyApplied \/ CreateApplyJob
    \/ ApplySucceeded \/ ApplyFailed
    \/ SkipRevision \/ CreateRevision \/ TrimRevisions \/ WriteStatus

Informers == SyncConfigMap \/ \E n \in Numbers : SyncRevision(n)

Users == EditSpec \/ Pin \/ Unpin

Next ==
    \/ Pass \/ CallFailsOrRestart \/ StatusWriteLost
    \/ Informers \/ Users \/ \E h \in Hashes : EndJob(h)

Spec == Init /\ [][Next]_vars

\* The worker serves the queue and every pass ends, informers catch up, and every
\* Job ends, though that of a pinned revision has no deadline.
FairSpec ==
    /\ Spec /\ WF_vars(Pass)
    /\ WF_vars(SyncConfigMap) /\ \A n \in Numbers : WF_vars(SyncRevision(n))
    /\ \A h \in Hashes : WF_vars(EndJob(h))

-----------------------------------------------------------------------------
(***************************************************************************)
(* Properties.                                                             *)
(***************************************************************************)

\* However often a status write is lost, a pass is cut off or an apply is
\* recorded again, at most one revision ConfigMap is ahead of the number in the
\* status (createRevisionFromCM counts in memory and creates before it writes).
AtMostOneAhead ==
    DOMAIN revisions \ FormerLife \subseteq 1 .. project.revision + 1

\* Between passes no more revisions are kept than the limit says, but for those
\* that the last complete trim was not shown (cleanupOldRevisions lists from the
\* informer) and those whose trim failed or was cut off.
HistoryBounded ==
    pc = "idle" /\ Limit # 0 /\ Cardinality(FormerLife) <= Limit
        => Cardinality(DOMAIN revisions) <= Limit + missed + faults

\* The trim deletes a revision only when at least Limit newer ones stay, however
\* old the list it works on: what that shows and is gone already makes no room for
\* deleting more (cleanupOldRevisions).
AuditTrailKept ==
    [][\A n \in DOMAIN revisions \ DOMAIN revisions' :
          Cardinality({m \in DOMAIN revisions' : m > n}) >= Limit]_vars

\* A revision's snapshot is the configuration of its stored hash, whatever pins and
\* edits have written to <project>-tf in between, if the informer showed it as it
\* was in the pass that recorded the revision (createRevision).
SnapshotMatchesHash ==
    \A n \in DOMAIN revisions : ~revisions[n].late =>
        revisions[n].snapshot \in {None, revisions[n].hash}

\* Once users, errors and restarts stop, a pinned project shows its revision as
\* applied, or an error, unless the write that would say so was lost
\* (reconcilePinned's requeues and watches lose no wakeup).
PinSettles ==
    <>[](project.pin # 0 =>
            \/ project.phase = "Error" \/ project.applied[1] = project.pin
            \/ dropped)

\* Once users, errors and restarts stop, <project>-tf of a project without a pin
\* holds what its spec describes: a pass that wrote nothing because the informer
\* showed it so already is repeated when the informer shows what is stored.
SpecIsRendered == <>[](project.pin = 0 => configMap = project.config)

\* doc/revisions.md:5: "Each revision captures the apply status, the full
\* plan/apply output (so you can see what changed), the snapshot of what was
\* applied, and the outputs produced."  Violated: a configuration that is gone back
\* to is recorded in the pass that renders it, with what the informer still shows.
EverySnapshotMatchesHash ==
    \A n \in DOMAIN revisions : revisions[n].snapshot \in {None, revisions[n].hash}

\* doc/revisions.md:68: "Maximum number of revision ConfigMaps to retain."
\* Violated without any fault, and when all is at rest: the list that is trimmed
\* lacks the revision created just before.
LimitIsMaximum ==
    pc = "idle" /\ ~queued /\ seen = revisions /\ faults = 0 /\ Limit # 0
        /\ Cardinality(FormerLife) <= Limit
        => Cardinality(DOMAIN revisions) <= Limit

\* doc/revisions.md:147: "The cleanup **never deletes** the currently pinned
\* revision."  Violated: only passes without a pin trim, so what a pass protects is
\* never the revision pinned meanwhile.
PinnedIsKept ==
    [][project.pin \in DOMAIN revisions => project.pin \in DOMAIN revisions']_vars
=============================================================================
