----------------------------- MODULE PlanApply -----------------------------
(***************************************************************************)
(* One TofuProject driven by TofuProjectReconciler: the pass that renders  *)
(* the project's configuration, takes the job lock and then either applies *)
(* (spec.autoApprove) or plans, waits for an approval and applies.         *)
(*                                                                         *)
(* The controller runs one pass at a time, but every pass is a sequence of *)
(* API calls, and users, the job controller and the informers move between *)
(* any two of them.  A pass therefore is one action per stretch of code    *)
(* that ends in an API write.  The pass works on the copy of the project   *)
(* it read (obj); a write of that copy goes through only while the copy is *)
(* the stored version (fresh), and a refused status write is ignored by    *)
(* the code.  Reads of Jobs and of the project come from informer caches   *)
(* (seen, cache), which may trail the API server.                          *)
(*                                                                         *)
(* Not here: deletion, suspension, pinning, force-unlock, dependencies,    *)
(* drift detection, GitHub approval and the shared provider cache.         *)
(* Revision ConfigMaps are written by the same handlers but read by none   *)
(* of them; all that reaches this module is that a failed apply always     *)
(* changes the status (status.revision grows), which wakes the controller. *)
(***************************************************************************)
EXTENDS Naturals, FiniteSets

CONSTANTS
    Configs,      \* the configurations a project may render to, one per hash
    None,         \* no configuration, no hash
    AutoApprove,  \* spec.autoApprove
    Threshold,    \* spec.autoApproveMaxBlastRadius is set
    Schedule,     \* spec.applySchedule is set
    StuckTimeout, \* spec.resourceTimeout is set
    SyncInterval, \* spec.syncInterval is set
    Annotated,    \* the project carries annotations besides the approval
    MaxRetries,   \* spec.retryPolicy.maxRetries, 0 when there is no policy
    JobLag,       \* the Job informer may trail the API server
    ProjectLag,   \* the TofuProject informer may trail the API server
    IgnoredErrors,\* API errors also hit the calls whose error the code drops
    EditKinds,    \* what users edit: the "spec", a watched "source", the "program"
    MaxEdits,     \* bound: edits of the spec, the program or the parameters
    MaxFaults,    \* bound: API errors and operator restarts inside a pass
    AttemptCap    \* the history variable attempts saturates here

ASSUME ConfigsAssumption == None \notin Configs /\ IsFiniteSet(Configs)
ASSUME FlagsAssumption ==
    /\ AutoApprove \in BOOLEAN /\ Threshold \in BOOLEAN /\ Schedule \in BOOLEAN
    /\ StuckTimeout \in BOOLEAN /\ SyncInterval \in BOOLEAN
    /\ Annotated \in BOOLEAN /\ JobLag \in BOOLEAN /\ ProjectLag \in BOOLEAN
    /\ IgnoredErrors \in BOOLEAN
ASSUME BoundsAssumption ==
    /\ EditKinds \subseteq {"spec", "source", "program"}
    /\ MaxRetries \in Nat /\ MaxEdits \in Nat /\ MaxFaults \in Nat
    /\ AttemptCap \in Nat

VARIABLES
    inputs,    \* what spec, program and parameters render to; None: invalid
    project,   \* the stored TofuProject: approval annotation and status
    cache,     \* the TofuProject informer's copy
    rendered,  \* what the informers' copies of the inputs render to
    current,   \* cache is the stored version
    configMap, \* the content of <project>-tf
    jobs,      \* the state of every Job, by kind and configuration hash
    mounted,   \* the ConfigMap content a Job's pod mounted when it started
    seen,      \* the Job informer's copy of jobs
    queued,    \* the project's key is in the work queue
    pc,        \* where the running pass is
    hash,      \* appliedHash of the running pass
    obj,       \* the running pass's in-memory project
    fresh,     \* obj has the stored resourceVersion
    reviewed,  \* the hash `kubectl tofu approve` has read but not yet patched
    edits, faults,
    infra,     \* history: the configuration the last successful apply ran
    granted,   \* history: hashes that were approved, by a user or threshold
    attempts   \* history: number of apply Jobs created, up to AttemptCap

userVars == <<inputs, reviewed, edits>>
storeVars == <<project, cache, rendered, current>>
jobVars == <<jobs, mounted, seen>>
passVars == <<pc, hash, obj, fresh>>
historyVars == <<infra, granted, attempts>>
vars == <<userVars, storeVars, configMap, jobVars, queued, passVars, faults,
          historyVars>>

-----------------------------------------------------------------------------
ConfigsOrNone == Configs \cup {None}
JobNames == {"plan", "apply"} \X Configs
JobStates == {"absent", "pending", "running", "succeeded", "failed"}
Phases == {"", "Planning", "WaitingApproval", "ScheduledApply", "Running",
           "Succeeded", "Retrying", "Locked", "Error"}
Projects == [approvedHash : ConfigsOrNone, phase : Phases,
             lastAppliedHash : ConfigsOrNone, pendingPlanHash : ConfigsOrNone,
             retryCount : 0 .. MaxRetries]
Steps == {"idle", "render", "lock", "decide", "approve", "status"}

NewProject == [approvedHash |-> None, phase |-> "", lastAppliedHash |-> None,
               pendingPlanHash |-> None, retryCount |-> 0]

TypeOK ==
    /\ inputs \in ConfigsOrNone /\ rendered \in ConfigsOrNone
    /\ project \in Projects /\ cache \in Projects /\ current \in BOOLEAN
    /\ configMap \in ConfigsOrNone
    /\ jobs \in [JobNames -> JobStates] /\ seen \in [JobNames -> JobStates]
    /\ mounted \in [JobNames -> ConfigsOrNone]
    /\ queued \in BOOLEAN
    /\ pc \in Steps /\ hash \in ConfigsOrNone /\ obj \in Projects
    /\ fresh \in BOOLEAN
    /\ reviewed \in ConfigsOrNone
    /\ edits \in 0 .. MaxEdits /\ faults \in 0 .. MaxFaults
    /\ infra \in ConfigsOrNone /\ granted \in SUBSET Configs
    /\ attempts \in 0 .. AttemptCap

Init ==
    /\ inputs \in Configs /\ rendered = inputs
    /\ project = NewProject /\ cache = NewProject /\ current = TRUE
    /\ configMap = None
    /\ jobs = [j \in JobNames |-> "absent"]
    /\ mounted = [j \in JobNames |-> None]
    /\ seen = jobs
    /\ queued = TRUE
    /\ pc = "idle" /\ hash = None /\ obj = NewProject /\ fresh = TRUE
    /\ reviewed = None /\ edits = 0 /\ faults = 0
    /\ infra = None /\ granted = {} /\ attempts = 0

-----------------------------------------------------------------------------
(***************************************************************************)
(* The API server and the informers.                                       *)
(***************************************************************************)

\* The API server stores p.  A write that changes nothing keeps the version;
\* a change reaches the informer at once or, with ProjectLag, by SyncProject.
Store(p) ==
    /\ project' = p
    /\ cache' = IF ProjectLag THEN cache ELSE p
    /\ current' = IF ProjectLag /\ p # project THEN FALSE ELSE current
    /\ UNCHANGED rendered

\* The event of storing p, which puts the project's key in the work queue.
Wakes(p) == ~ProjectLag /\ p # project

SetJobs(f) ==
    /\ jobs' = f
    /\ seen' = IF JobLag THEN seen ELSE f

\* Somebody else's write makes the copy of a running pass stale.
Outdate(changed) == fresh' = (fresh /\ (pc = "idle" \/ ~changed))

SyncJob(j) ==
    /\ JobLag /\ seen[j] # jobs[j]
    /\ seen' = [seen EXCEPT ![j] = jobs[j]]
    /\ queued' = TRUE
    /\ UNCHANGED <<userVars, storeVars, configMap, jobs, mounted, passVars,
                   faults, historyVars>>

SyncProject ==
    /\ ~current
    /\ cache' = project /\ rendered' = inputs /\ current' = TRUE
    /\ queued' = TRUE
    /\ UNCHANGED <<userVars, project, configMap, jobVars, passVars, faults,
                   historyVars>>

-----------------------------------------------------------------------------
(***************************************************************************)
(* A reconcile pass, up to the lock.                                       *)
(***************************************************************************)

\* The frame of a step that writes nothing but the pass and the work queue.
OnlyPassMoves ==
    UNCHANGED <<userVars, storeVars, configMap, jobVars, faults, historyVars>>

EndPass == pc' = "idle" /\ hash' = None /\ obj' = NewProject /\ fresh' = TRUE

\* The pass goes on to write p as its status, the last thing it does.
ThenReport(p) == pc' = "status" /\ obj' = p /\ UNCHANGED <<hash, fresh>>

\* Reconcile reads the project and what it renders to.  Nothing is written
\* between the two reads, so they are one step.
StartPass ==
    /\ pc = "idle" /\ queued /\ rendered # None
    /\ queued' = FALSE
    /\ pc' = "render" /\ hash' = rendered /\ obj' = cache /\ fresh' = current
    /\ OnlyPassMoves

\* The program is missing or the project does not validate: the phase becomes
\* Error and the returned error requeues the project.
StartInvalidPass ==
    /\ pc = "idle" /\ queued /\ rendered = None
    /\ pc' = "status" /\ obj' = [cache EXCEPT !.phase = "Error"]
    /\ fresh' = current
    /\ OnlyPassMoves /\ UNCHANGED <<queued, hash>>

\* The ConfigMap is overwritten before the lock is looked at.
EnsureTFConfigMap ==
    /\ pc = "render"
    /\ configMap' = hash
    /\ queued' = (queued \/ configMap # hash)
    /\ pc' = "lock"
    /\ UNCHANGED <<userVars, storeVars, jobVars, hash, obj, fresh, faults,
                   historyVars>>

Active(view) == {j \in JobNames : view[j] \in {"pending", "running"}}

\* Mutant: the lock looks only for Jobs whose pod runs.
LockHeldMutant == \E j \in JobNames : seen[j] = "running"

\* checkJobLock lists the project's Jobs from the informer.
LockHeld == Active(seen) # {}

WaitForActiveJob ==
    /\ pc = "lock" /\ LockHeld
    /\ queued' = TRUE
    /\ ThenReport([obj EXCEPT !.phase = "Running"])
    /\ OnlyPassMoves

NoActiveJob ==
    /\ pc = "lock" /\ ~LockHeld
    /\ pc' = "decide"
    /\ OnlyPassMoves /\ UNCHANGED <<queued, hash, obj, fresh>>

HashApplied == obj.lastAppliedHash = hash

AlreadyApplied ==
    /\ pc = "decide" /\ HashApplied
    /\ queued' = (queued \/ SyncInterval)
    /\ EndPass
    /\ OnlyPassMoves

-----------------------------------------------------------------------------
(***************************************************************************)
(* Steps both flows share: creating a Job, a Job that is still active.     *)
(***************************************************************************)

\* Create the Job <<kind, hash>> and report phase.  Nothing but the informer
\* tells the controller that the Job is not there yet: when it trails, the API
\* server answers AlreadyExists and the pass ends in an error.
Create(kind, phase) ==
    LET j == <<kind, hash>> IN
    /\ seen[j] = "absent"
    /\ queued' = TRUE
    /\ IF jobs[j] = "absent"
       THEN /\ SetJobs([jobs EXCEPT ![j] = "pending"])
            /\ ThenReport([obj EXCEPT !.phase = phase])
       ELSE EndPass /\ UNCHANGED <<jobs, seen>>
    /\ UNCHANGED <<userVars, storeVars, configMap, mounted, faults, infra,
                   granted>>

\* Delete a Job; the code does not look whether that succeeded.
Remove(j) ==
    \/ /\ SetJobs([jobs EXCEPT ![j] = "absent"])
       /\ mounted' = [mounted EXCEPT ![j] = None]
       /\ UNCHANGED faults
    \/ /\ IgnoredErrors /\ faults < MaxFaults
       /\ faults' = faults + 1
       /\ UNCHANGED jobVars

\* The lock was free and yet the Job is active: it reached the informer in
\* between.  The pass reports it, after deleting a Job whose log shows a
\* resource in progress for too long.
AwaitActive(kind, phase) ==
    LET j == <<kind, hash>> IN
    /\ j \in Active(seen)
    /\ queued' = TRUE
    /\ \/ /\ ThenReport([obj EXCEPT !.phase = phase])
          /\ UNCHANGED <<jobVars, faults>>
       \/ /\ StuckTimeout /\ jobs[j] \in {"running", "succeeded", "failed"}
          /\ Remove(j)
          /\ ThenReport(obj)
    /\ UNCHANGED <<userVars, storeVars, configMap, historyVars>>

-----------------------------------------------------------------------------
(***************************************************************************)
(* Plan and approval (spec.autoApprove is false).                          *)
(***************************************************************************)

PlanIsStale == obj.pendingPlanHash \notin {None, hash}

\* Mutant: the object is patched, which no conflict refuses.
UpdateAcceptedMutant == TRUE

\* The API server refuses an Update of a project that has changed.
UpdateAccepted == fresh

\* A plan for another hash is pending and the annotations hold something else
\* than an approval of this one: the approval is deleted through an Update of
\* the whole object.  The API server leaves the status alone and its answer is
\* decoded into the same object, so the cleared plan fields come back.
InvalidateApproval ==
    /\ pc = "decide" /\ ~AutoApprove /\ ~HashApplied
    /\ PlanIsStale
    /\ Annotated \/ obj.approvedHash # None
    /\ obj.approvedHash # hash
    /\ IF UpdateAccepted
       THEN LET p == [project EXCEPT !.approvedHash = None] IN
            /\ Store(p)
            /\ queued' = (queued \/ Wakes(p))
            /\ pc' = "approve"
            /\ obj' = [obj EXCEPT !.approvedHash = None]
            /\ UNCHANGED <<hash, fresh>>
       ELSE EndPass /\ queued' = TRUE /\ UNCHANGED storeVars
    /\ UNCHANGED <<userVars, configMap, jobVars, faults, historyVars>>

\* Otherwise the plan fields are cleared by a status write, whose errors are
\* dropped: the pass goes on.
InvalidatePlan ==
    /\ pc = "decide" /\ ~AutoApprove /\ ~HashApplied
    /\ PlanIsStale
    /\ \/ ~Annotated /\ obj.approvedHash = None
       \/ obj.approvedHash = hash
    /\ LET p == [obj EXCEPT !.pendingPlanHash = None] IN
       /\ \/ fresh /\ Store(p) /\ queued' = (queued \/ Wakes(p)) /\ UNCHANGED faults
          \/ ~fresh /\ UNCHANGED <<storeVars, queued, faults>>
          \/ /\ IgnoredErrors /\ faults < MaxFaults /\ faults' = faults + 1
             /\ UNCHANGED <<storeVars, queued>>
       /\ obj' = p
    /\ pc' = "approve"
    /\ UNCHANGED <<userVars, configMap, jobVars, hash, fresh, historyVars>>

\* The flow after invalidateStalePlan.
PastStalePlan ==
    /\ ~AutoApprove /\ ~HashApplied
    /\ \/ pc = "approve"
       \/ pc = "decide" /\ ~PlanIsStale

Unapproved == PastStalePlan /\ obj.approvedHash # hash

\* Mutant: a project that waits for an approval waits, whatever was planned.
WaitingForMutant(p, h) == p.phase = "WaitingApproval"

WaitingFor(p, h) == p.phase = "WaitingApproval" /\ p.pendingPlanHash = h

AwaitApproval ==
    /\ Unapproved /\ WaitingFor(obj, hash)
    /\ EndPass
    /\ OnlyPassMoves /\ UNCHANGED queued

PlanTurn == Unapproved /\ ~WaitingFor(obj, hash)

CreatePlanJob ==
    /\ PlanTurn
    /\ Create("plan", "Planning")
    /\ UNCHANGED attempts

PlanStillActive == PlanTurn /\ AwaitActive("plan", "Planning")

PlanSucceeded ==
    /\ PlanTurn /\ seen[<<"plan", hash>>] = "succeeded"
    /\ ThenReport([obj EXCEPT !.pendingPlanHash = hash,
                              !.phase = "WaitingApproval"])
    /\ OnlyPassMoves /\ UNCHANGED queued

\* The blast radius is within the threshold: the controller approves the plan
\* itself, by an Update that brings a pending hash the API server still holds
\* back into memory.
PlanAutoApproved ==
    /\ Threshold
    /\ PlanTurn /\ seen[<<"plan", hash>>] = "succeeded"
    /\ queued' = TRUE
    /\ IF UpdateAccepted
       THEN /\ Store([project EXCEPT !.approvedHash = hash])
            /\ granted' = granted \cup {hash}
            /\ \E phase \in {"WaitingApproval"} \cup
                            (IF Schedule THEN {"ScheduledApply"} ELSE {}) :
                  ThenReport([obj EXCEPT
                      !.approvedHash = hash, !.phase = phase,
                      !.pendingPlanHash = IF project.pendingPlanHash = None
                                          THEN hash
                                          ELSE project.pendingPlanHash])
       ELSE EndPass /\ UNCHANGED <<storeVars, granted>>
    /\ UNCHANGED <<userVars, configMap, jobVars, faults, infra, attempts>>

PlanFailed ==
    /\ PlanTurn /\ seen[<<"plan", hash>>] = "failed"
    /\ \E phase \in {"Locked", "Error"} :
          ThenReport([obj EXCEPT !.phase = phase])
    /\ OnlyPassMoves /\ UNCHANGED queued

-----------------------------------------------------------------------------
(***************************************************************************)
(* Apply: at once with spec.autoApprove, else when the annotation holds    *)
(* the hash of this pass.                                                  *)
(***************************************************************************)

\* Mutant: any approval will do.
ApplyTurnMutant ==
    \/ AutoApprove /\ pc = "decide" /\ ~HashApplied
    \/ PastStalePlan /\ obj.approvedHash # None

ApplyTurn ==
    \/ AutoApprove /\ pc = "decide" /\ ~HashApplied
    \/ PastStalePlan /\ obj.approvedHash = hash

\* The window of spec.applySchedule is shut.
OutsideWindow ==
    /\ Schedule /\ ~AutoApprove /\ ApplyTurn
    /\ queued' = TRUE
    /\ ThenReport([obj EXCEPT !.phase = "ScheduledApply"])
    /\ OnlyPassMoves

CreateApplyJob ==
    /\ ApplyTurn
    /\ Create("apply", "Running")
    /\ attempts' = IF jobs[<<"apply", hash>>] = "absent" /\ attempts < AttemptCap
                   THEN attempts + 1 ELSE attempts

ApplyStillActive == ApplyTurn /\ AwaitActive("apply", "Running")

\* Mutant: the Job counts as done as soon as it is over.
ApplyIsDoneMutant == seen[<<"apply", hash>>] \in {"succeeded", "failed"}

ApplyIsDone == seen[<<"apply", hash>>] = "succeeded"

ApplySucceeded ==
    /\ ApplyTurn /\ ApplyIsDone
    /\ queued' = (queued \/ (~AutoApprove /\ SyncInterval))
    /\ ThenReport([obj EXCEPT
           !.phase = "Succeeded", !.lastAppliedHash = hash, !.retryCount = 0,
           !.pendingPlanHash = IF AutoApprove THEN @ ELSE None])
    /\ OnlyPassMoves

\* Mutant: one retry too many.
RetriesLeftMutant == obj.retryCount <= MaxRetries

RetriesLeft == obj.retryCount < MaxRetries

\* The failed Job is deleted before the retry is counted.
RetryApply ==
    /\ ApplyTurn /\ seen[<<"apply", hash>>] = "failed"
    /\ RetriesLeft
    /\ Remove(<<"apply", hash>>)
    /\ queued' = TRUE
    /\ ThenReport([obj EXCEPT !.phase = "Retrying", !.retryCount = @ + 1])
    /\ UNCHANGED <<userVars, storeVars, configMap, historyVars>>

\* No retry is left.  Every such pass counts up status.revision.
ApplyFailed ==
    /\ ApplyTurn /\ seen[<<"apply", hash>>] = "failed"
    /\ ~RetriesLeft
    /\ queued' = TRUE
    /\ \E phase \in {"Locked", "Error"} :
          ThenReport([obj EXCEPT !.phase = phase])
    /\ OnlyPassMoves

-----------------------------------------------------------------------------
(***************************************************************************)
(* The end of a pass.                                                      *)
(***************************************************************************)

\* updateStatusWithCondition: a conflict is dropped.
WriteStatus ==
    /\ pc = "status"
    /\ IF fresh
       THEN Store(obj) /\ queued' = (queued \/ Wakes(obj))
       ELSE UNCHANGED <<storeVars, queued>>
    /\ EndPass
    /\ UNCHANGED <<userVars, configMap, jobVars, faults, historyVars>>

\* updateStatusWithCondition drops any other error as well: the pass has ended
\* without one, so nothing brings the project back.
StatusWriteLost ==
    /\ pc = "status" /\ IgnoredErrors /\ faults < MaxFaults
    /\ faults' = faults + 1
    /\ EndPass
    /\ UNCHANGED <<userVars, storeVars, configMap, jobVars, queued, historyVars>>

\* An API call fails or the operator restarts: the in-memory work is lost and
\* the project is reconciled again.
PassFails ==
    /\ pc # "idle" /\ faults < MaxFaults
    /\ faults' = faults + 1
    /\ queued' = TRUE
    /\ EndPass
    /\ UNCHANGED <<userVars, storeVars, configMap, jobVars, historyVars>>

-----------------------------------------------------------------------------
(***************************************************************************)
(* The cluster and the users.                                              *)
(***************************************************************************)

JobChanges(j, state) ==
    /\ SetJobs([jobs EXCEPT ![j] = state])
    /\ queued' = (queued \/ ~JobLag)
    /\ UNCHANGED <<userVars, storeVars, configMap, passVars, faults, granted,
                   attempts>>

\* The pod starts and mounts the ConfigMap as it is now.
StartJob(j) ==
    /\ jobs[j] = "pending"
    /\ JobChanges(j, "running")
    /\ mounted' = [mounted EXCEPT ![j] = configMap]
    /\ UNCHANGED infra

SucceedJob(j) ==
    /\ jobs[j] = "running"
    /\ JobChanges(j, "succeeded")
    /\ infra' = IF j[1] = "apply" THEN mounted[j] ELSE infra
    /\ UNCHANGED mounted

\* The command fails, or activeDeadlineSeconds pass, even before the pod runs.
FailJob(j) ==
    /\ j \in Active(jobs)
    /\ JobChanges(j, "failed")
    /\ UNCHANGED <<mounted, infra>>

\* Mutant: the sources of parameters are not watched.
ReportedMutant(kind) == kind = "spec" /\ ~ProjectLag

\* The watches: the project itself, and the ConfigMaps, Secrets and upstream
\* projects that feed its parameters, but not the TofuProgram.
Reported(kind) == kind = "source" \/ (kind = "spec" /\ ~ProjectLag)

\* An edit of the project's spec makes a new version of the project, rendered
\* once the informer has it; the other inputs are rendered as they are, with
\* whatever spec the informer holds.
EditInputs(c, kind) ==
    /\ edits < MaxEdits
    /\ c # inputs
    /\ inputs' = c /\ edits' = edits + 1
    /\ Outdate(kind = "spec")
    /\ IF kind = "spec" /\ ProjectLag
       THEN current' = FALSE /\ UNCHANGED rendered
       ELSE /\ rendered' \in IF current THEN {c} ELSE ConfigsOrNone
            /\ UNCHANGED current
    /\ queued' = (queued \/ Reported(kind))
    /\ UNCHANGED <<reviewed, project, cache, configMap, jobVars, pc, hash, obj,
                   faults, historyVars>>

\* `kubectl tofu approve` reads the pending hash, wanted or not.
ReviewPlan ==
    /\ reviewed = None /\ project.pendingPlanHash # None
    /\ reviewed' = project.pendingPlanHash
    /\ UNCHANGED <<inputs, edits, storeVars, configMap, jobVars, queued,
                   passVars, faults, historyVars>>

\* It patches the hash it read into the annotation, whatever happened since.
Approve ==
    /\ reviewed # None
    /\ LET p == [project EXCEPT !.approvedHash = reviewed] IN
       /\ Store(p)
       /\ Outdate(p # project)
       /\ queued' = (queued \/ Wakes(p))
    /\ granted' = granted \cup {reviewed}
    /\ reviewed' = None
    /\ UNCHANGED <<inputs, edits, configMap, jobVars, pc, hash, obj, faults,
                   infra, attempts>>

-----------------------------------------------------------------------------
Pass ==
    \/ StartPass \/ StartInvalidPass \/ EnsureTFConfigMap
    \/ WaitForActiveJob \/ NoActiveJob \/ AlreadyApplied
    \/ InvalidateApproval \/ InvalidatePlan \/ AwaitApproval
    \/ CreatePlanJob \/ PlanStillActive \/ PlanSucceeded \/ PlanAutoApproved
    \/ PlanFailed \/ OutsideWindow
    \/ CreateApplyJob \/ ApplyStillActive \/ ApplySucceeded \/ RetryApply
    \/ ApplyFailed \/ WriteStatus

Cluster == \E j \in JobNames : StartJob(j) \/ SucceedJob(j) \/ FailJob(j)

Informers == SyncProject \/ \E j \in JobNames : SyncJob(j)

Users ==
    \/ \E c \in ConfigsOrNone, kind \in EditKinds : EditInputs(c, kind)
    \/ ReviewPlan \/ Approve

Next == Pass \/ PassFails \/ StatusWriteLost \/ Cluster \/ Informers \/ Users

Spec == Init /\ [][Next]_vars

\* The single worker serves a queued project and every pass ends; a Job ends,
\* by its deadline at the latest; informers catch up; a pending plan of the
\* wanted inputs is reviewed and approved.  Nothing makes an edit or a fault
\* happen, nor the approval of an outdated plan.
Fairness ==
    /\ WF_vars(Pass)
    /\ \A j \in JobNames : WF_vars(StartJob(j))
                           /\ WF_vars(SucceedJob(j) \/ FailJob(j))
    /\ \A j \in JobNames : WF_vars(SyncJob(j))
    /\ WF_vars(SyncProject)
    /\ WF_vars(ReviewPlan /\ project.pendingPlanHash = inputs) /\ WF_vars(Approve)

FairSpec == Spec /\ Fairness

-----------------------------------------------------------------------------
(***************************************************************************)
(* Properties.                                                             *)
(***************************************************************************)

\* Without autoApprove an apply Job carries the hash of a configuration that
\* was planned successfully and then approved, whatever was edited, approved,
\* lost or read late meanwhile (reconcilePlanApprove, createApplyAfterApproval).
ApprovedBeforeApply ==
    ~AutoApprove =>
        \A h \in Configs : jobs[<<"apply", h>>] # "absent" =>
            jobs[<<"plan", h>>] = "succeeded" /\ h \in granted

\* status.lastAppliedHash names a configuration whose apply Job succeeded and
\* still exists: no conflict, crash, retry or late read records an apply that
\* did not happen (handleApplyJobResult, createApplyAfterApproval).
AppliedRecordIsBacked ==
    \A h \in Configs :
        project.lastAppliedHash = h => jobs[<<"apply", h>>] = "succeeded"

\* The job lock: while the informer keeps up, a project never has two active
\* plan or apply Jobs (checkJobLock).
OneActiveJob == ~JobLag => Cardinality(Active(jobs)) <= 1

\* The controller deletes only an approval it has read: one that a user writes
\* while a pass is under way survives that pass (invalidateStalePlan's Update
\* is refused when the project has changed).
ApprovalNotErasedUnseen ==
    [][project.approvedHash # None /\ project'.approvedHash = None =>
           obj.approvedHash = project.approvedHash]_vars

\* With one configuration, each apply beyond the first is a counted retry,
\* except that an edit or a fault between the deletion of the failed Job and
\* the status write may lose one count (handleApplyJobResult).
RetriesAreCounted ==
    Cardinality(Configs) = 1 => attempts <= 1 + MaxRetries + edits + faults

\* Once edits and faults stop, and users approve outdated plans no more, the
\* project settles: the wanted configuration is recorded as applied, or its plan
\* or apply Job has failed for good, or there is nothing valid to apply
\* (Reconcile's requeues and watches lose no wakeup).
Settled ==
    \/ inputs = None
    \/ project.lastAppliedHash = inputs
    \/ jobs[<<"plan", inputs>>] = "failed"
    \/ jobs[<<"apply", inputs>>] = "failed" /\ ~(project.retryCount < MaxRetries)
Settles ==
    <>[][ReviewPlan => project.pendingPlanHash = inputs]_vars => <>[]Settled

\* An edit that is not overtaken by another one is noticed: a pass renders it
\* into the ConfigMap (SetupWithManager's watches, Reconcile's requeues).
EditsAreNoticed ==
    \A c \in Configs : inputs = c ~> (configMap = c \/ inputs # c)

\* How far a configuration has come, as the operator has observed it.
GateOf(h) ==
    IF seen[<<"apply", h>>] = "succeeded" THEN "applied"
    ELSE IF jobs[<<"apply", h>>] # "absent" THEN "applying"
    ELSE IF h \in granted THEN "approved"
    ELSE IF seen[<<"plan", h>>] = "succeeded" THEN "planned"
    ELSE "unplanned"

Gate == INSTANCE ApprovalGate WITH gate <- [h \in Configs |-> GateOf(h)]

\* The plan-then-approve flow implements the approval gate: a step moves at
\* most one configuration, and only along the gate's moves
\* (reconcilePlanApprove and everything it calls).
ImplementsApprovalGate == Gate!GateSpec

(***************************************************************************)
(* What the documentation says and the code does not do.                   *)
(***************************************************************************)

\* doc/plan-approve.md: the operator "waits for explicit approval before
\* applying": what ran is a configuration that was approved.
OnlyApprovedConfigRuns == ~AutoApprove => infra \in granted \cup {None}

\* doc/plan-approve.md: "creates an apply Job and proceeds to Succeeded": a
\* project that reports Succeeded runs the configuration it recorded.
SucceededMeansApplied ==
    project.phase = "Succeeded" => infra = project.lastAppliedHash

\* README.md: "new Job created when inputs change": a project at rest has
\* rendered its inputs.
RestsOnItsInputs ==
    pc = "idle" /\ ~queued /\ inputs # None => configMap = inputs

=============================================================================
