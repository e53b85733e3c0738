----------------------------- MODULE Lifecycle -----------------------------
(***************************************************************************)
(* The life of a TofuProject: Reconcile's handleLifecycle (deletion and    *)
(* destroy, finalizer, TTL, force-unlock, suspension) around a pass that   *)
(* applies one configuration, and its re-creation under the same name.     *)
(*                                                                         *)
(* As in PlanApply a pass is one action per stretch of code that ends in   *)
(* an API write, works on the copy obj that it read, and has its writes of *)
(* that copy refused (Update) or dropped (status) when it is not fresh.    *)
(* Here the informers keep up: every event is a wakeup at once, and no Job *)
(* is missing from a list (PlanApply lets them trail).                     *)
(*                                                                         *)
(* Jobs act on the real resources and on the state lock of the backend.    *)
(* The command of a deleted Job runs on until its pod is gone.             *)
(* Objects the project owns outlive it until garbage collection; the       *)
(* destroy Job has no owner and stays for good.                            *)
(*                                                                         *)
(* Not here: plan, approval and retries (PlanApply: spec.autoApprove, one  *)
(* configuration, no retry policy) and pinned revisions.                   *)
(***************************************************************************)
EXTENDS Naturals, FiniteSets

CONSTANTS
    Gone,         \* no TofuProject of this name
    Protected,    \* spec.deleteProtection
    StateLock,    \* the backend locks its state
    StuckTimeout, \* spec.resourceTimeout is set
    Commands,     \* what users change: "suspend", "ttl", "force-unlock"
    IgnoredErrors,\* API errors also hit the calls whose error the code drops
    MaxLives,     \* bound: how often the project is created
    MaxCommands,  \* bound: suspend, resume, force-unlock, change of the TTL
    MaxFaults     \* bound: API errors and operator restarts inside a pass

ASSUME SettingsAssumption ==
    /\ Protected \in BOOLEAN /\ StateLock \in BOOLEAN /\ StuckTimeout \in BOOLEAN
    /\ IgnoredErrors \in BOOLEAN
    /\ Commands \subseteq {"suspend", "ttl", "force-unlock"}
ASSUME LimitsAssumption ==
    MaxLives \in Nat \ {0} /\ MaxCommands \in Nat /\ MaxFaults \in Nat

VARIABLES
    project,   \* the stored TofuProject, or Gone
    expired,   \* creation plus TTL has passed
    timer,     \* the work queue holds a delayed add for the moment of expiry
    configMap, \* <project>-tf: "absent", "mine" or "orphan" (of an earlier life)
    jobs,      \* the state of the apply, destroy and force-unlock Job
    orphans,   \* Jobs that an earlier life of the project owned
    infra,     \* real resources exist
    ghosts,    \* kinds whose Job was deleted and whose pod still runs
    holder,    \* who holds the state lock: the command of a Job of that kind, that
               \* of a pod without its Job ("dying"), "lost" or "nobody"
    queued,    \* the project's key is in the work queue
    pc,        \* where the running pass is
    obj,       \* the running pass's in-memory project
    fresh,     \* obj has the stored resourceVersion
    lives, commands, faults,
    overlap    \* history: an apply and a destroy were under way together

passVars == <<pc, obj, fresh>>
jobVars == <<jobs, orphans, overlap>>
worldVars == <<infra, ghosts, holder>>
clockVars == <<expired, timer>>
boundVars == <<lives, commands, faults>>
vars == <<project, clockVars, configMap, jobVars, worldVars, queued, passVars,
          boundVars>>

-----------------------------------------------------------------------------
Kinds == {"apply", "destroy", "unlock"}
JobStates == {"absent", "pending", "running", "succeeded", "failed"}
Phases == {"", "Running", "Succeeded", "Error", "Locked", "Suspended",
           "ForceUnlocking", "WaitingDeleteApproval", "Destroying",
           "DestroyFailed"}

Projects == [deleting : BOOLEAN, finalizer : BOOLEAN, approvedDelete : BOOLEAN,
             forceUnlock : BOOLEAN, suspend : BOOLEAN, ttl : BOOLEAN,
             expiresAt : BOOLEAN, phase : Phases, applied : BOOLEAN]
ASSUME GoneAssumption == Gone \notin Projects

NewProject(ttl, suspend) ==
    [deleting |-> FALSE, finalizer |-> FALSE, approvedDelete |-> FALSE,
     forceUnlock |-> FALSE, suspend |-> suspend, ttl |-> ttl,
     expiresAt |-> FALSE, phase |-> "", applied |-> FALSE]

\* A project may be created suspended.  A worker without a pass has no copy.
NewProjects ==
    {NewProject(ttl, suspend) :
        ttl \in BOOLEAN, suspend \in {s \in BOOLEAN : s => "suspend" \in Commands}}

NoCopy == NewProject(FALSE, FALSE)

Exists == project # Gone
Active(f) == {k \in Kinds : f[k] \in {"pending", "running"}}

TypeOK ==
    /\ project \in Projects \cup {Gone} /\ obj \in Projects
    /\ expired \in BOOLEAN /\ timer \in BOOLEAN
    /\ configMap \in {"absent", "mine", "orphan"}
    /\ jobs \in [Kinds -> JobStates] /\ orphans \subseteq Kinds \ {"destroy"}
    /\ infra \in BOOLEAN /\ ghosts \subseteq Kinds
    /\ holder \in Kinds \cup {"dying", "lost", "nobody"}
    /\ queued \in BOOLEAN /\ fresh \in BOOLEAN /\ overlap \in BOOLEAN
    /\ pc \in {"idle", "head", "body", "unlock", "clear", "lock", "apply",
               "status", "report"}
    /\ lives \in 1 .. MaxLives /\ commands \in 0 .. MaxCommands
    /\ faults \in 0 .. MaxFaults

Init ==
    /\ project \in NewProjects
    /\ expired = FALSE /\ timer = FALSE
    /\ configMap = "absent"
    /\ jobs = [k \in Kinds |-> "absent"] /\ orphans = {} /\ overlap = FALSE
    /\ infra = FALSE /\ ghosts = {} /\ holder = "nobody"
    /\ queued = TRUE
    /\ pc = "idle" /\ obj = NoCopy /\ fresh = TRUE
    /\ lives = 1 /\ commands = 0 /\ faults = 0

-----------------------------------------------------------------------------
(***************************************************************************)
(* Writes.                                                                 *)
(***************************************************************************)

\* The event of storing p puts the project's key in the work queue.
Wakes(p) == p # project

\* Somebody else's write makes the copy of a running pass stale.
Outdate(changed) == fresh' = (fresh /\ (pc = "idle" \/ ~changed))

EndPass == pc' = "idle" /\ obj' = NoCopy /\ fresh' = TRUE

\* The pass goes on at step, with p in memory.
GoOn(step, p) == pc' = step /\ obj' = p /\ UNCHANGED fresh

ThenReport(phase) == GoOn("status", [obj EXCEPT !.phase = phase])

\* The frame of a step that writes nothing but the pass and the work queue.
OnlyPassMoves ==
    UNCHANGED <<project, clockVars, configMap, jobVars, worldVars, boundVars>>

\* The frame of a step that writes the project as well.
OnlyProjectMoves ==
    UNCHANGED <<clockVars, configMap, jobVars, worldVars, boundVars>>

SetJobs(f) ==
    /\ jobs' = f
    /\ overlap' = (overlap \/ {"apply", "destroy"} \subseteq Active(f) \cup ghosts)

\* Mutant: the destroy Job gets the project as its owner as well.
OwnedKindsMutant == Kinds

\* The Jobs that have the project as their owner.
OwnedKinds == Kinds \ {"destroy"}

\* A project is told of the changes of the Jobs it owns.
Reported(S) == S \cap OwnedKinds # {}

\* Jobs are deleted with background propagation: the command of a running one
\* keeps what it holds for the grace period of its pod.  A pod that has not started
\* goes at once.
Kill(S) ==
    LET running == {k \in S : jobs[k] = "running"} IN
    /\ SetJobs([k \in Kinds |-> IF k \in S THEN "absent" ELSE jobs[k]])
    /\ orphans' = orphans \ S
    /\ ghosts' = ghosts \cup running
    /\ holder' = IF holder \in running THEN "dying" ELSE holder
    /\ UNCHANGED infra

\* The code does not look whether a deletion succeeded.
Remove(S) ==
    \/ Kill(S) /\ UNCHANGED faults
    \/ /\ IgnoredErrors /\ faults < MaxFaults /\ S # {}
       /\ faults' = faults + 1
       /\ UNCHANGED <<jobVars, worldVars>>

\* The finalizer goes, and with it the project; what it owned is orphaned.
RemoveFinalizer ==
    /\ queued' = TRUE
    /\ IF fresh
       THEN /\ project' = Gone
            /\ configMap' = IF configMap = "mine" THEN "orphan" ELSE configMap
            /\ orphans' = {k \in OwnedKinds : jobs[k] # "absent"}
       ELSE UNCHANGED <<project, configMap, orphans>>
    /\ EndPass
    /\ UNCHANGED <<clockVars, jobs, overlap, worldVars, boundVars>>

-----------------------------------------------------------------------------
(***************************************************************************)
(* handleLifecycle, deletion.                                              *)
(***************************************************************************)

StartPass ==
    /\ pc = "idle" /\ queued /\ Exists
    /\ queued' = FALSE
    /\ pc' = "head" /\ obj' = project /\ fresh' = TRUE
    /\ OnlyPassMoves

NotFound ==
    /\ pc = "idle" /\ queued /\ ~Exists
    /\ queued' = FALSE
    /\ OnlyPassMoves /\ UNCHANGED passVars

\* Mutant: having reported the wait once is enough.
MayDestroyMutant ==
    ~Protected \/ obj.approvedDelete \/ obj.phase = "WaitingDeleteApproval"

MayDestroy == ~Protected \/ obj.approvedDelete

Deleting == pc = "head" /\ obj.deleting

AwaitDeleteApproval ==
    /\ Deleting /\ ~MayDestroy
    /\ IF obj.phase = "WaitingDeleteApproval"
       THEN EndPass
       ELSE ThenReport("WaitingDeleteApproval")
    /\ OnlyPassMoves /\ UNCHANGED queued

\* Without <project>-tf there is nothing to run destroy with.
ReleaseWithoutDestroy ==
    /\ Deleting /\ MayDestroy /\ configMap = "absent"
    /\ RemoveFinalizer

DestroyTurn == Deleting /\ MayDestroy /\ configMap # "absent"

\* The destroy Job gets a fixed name and no owner; the job lock is not asked.
CreateDestroyJob ==
    /\ DestroyTurn /\ jobs["destroy"] = "absent"
    /\ SetJobs([jobs EXCEPT !["destroy"] = "pending"])
    /\ queued' = TRUE
    /\ ThenReport("Destroying")
    /\ UNCHANGED <<project, clockVars, configMap, orphans, worldVars, boundVars>>

\* Mutant: the Job's end is left to a watch.
DestroyAgainMutant == queued

\* A pass that finds the destroy Job active comes back: nothing watches it.
DestroyAgain == TRUE

DestroyStillActive ==
    /\ DestroyTurn /\ "destroy" \in Active(jobs)
    /\ queued' = DestroyAgain
    /\ EndPass
    /\ OnlyPassMoves

\* A resource has been in progress for too long: the Job is deleted, and the
\* next pass creates another one.
DestroyStuck ==
    /\ DestroyTurn /\ StuckTimeout /\ jobs["destroy"] = "running"
    /\ Remove({"destroy"})
    /\ queued' = TRUE
    /\ ThenReport(obj.phase)
    /\ UNCHANGED <<project, clockVars, configMap, lives, commands>>

\* Mutant: the destroy Job counts as done when it is over.
DestroyIsDoneMutant == jobs["destroy"] \in {"succeeded", "failed"}

DestroyIsDone == jobs["destroy"] = "succeeded"

DestroySucceeded == DestroyTurn /\ DestroyIsDone /\ RemoveFinalizer

DestroyFailed ==
    /\ DestroyTurn /\ jobs["destroy"] = "failed"
    /\ ThenReport("DestroyFailed")
    /\ OnlyPassMoves /\ UNCHANGED queued

-----------------------------------------------------------------------------
(***************************************************************************)
(* handleLifecycle, a project that lives.                                  *)
(***************************************************************************)

AddFinalizer ==
    /\ pc = "head" /\ ~obj.deleting /\ ~obj.finalizer
    /\ IF fresh
       THEN LET p == [project EXCEPT !.finalizer = TRUE] IN
            /\ project' = p /\ queued' = (queued \/ Wakes(p))
            /\ GoOn("head", [obj EXCEPT !.finalizer = TRUE])
       ELSE EndPass /\ queued' = TRUE /\ UNCHANGED project
    /\ OnlyProjectMoves

\* The status fields of the pass's copy replace the stored ones.
WithStatus(o) ==
    [project EXCEPT !.phase = o.phase, !.applied = o.applied,
                    !.expiresAt = o.expiresAt]

\* Write the status of o in the middle of a pass.  A conflict, or with
\* IgnoredErrors any error, is dropped.
WriteInPass(o) ==
    \/ /\ fresh
       /\ project' = WithStatus(o) /\ queued' = (queued \/ Wakes(WithStatus(o)))
       /\ UNCHANGED faults
    \/ /\ ~fresh
       /\ UNCHANGED <<project, queued, faults>>
    \/ /\ IgnoredErrors /\ faults < MaxFaults
       /\ faults' = faults + 1
       /\ UNCHANGED <<project, queued>>

\* Mutant: the moment of expiry is written once and never cleared.
ExpiryIsKnownMutant == obj.expiresAt \/ ~obj.ttl

ExpiryIsKnown == obj.expiresAt = obj.ttl

WriteExpiry ==
    /\ pc = "head" /\ ~obj.deleting /\ obj.finalizer /\ ~ExpiryIsKnown
    /\ LET o == [obj EXCEPT !.expiresAt = obj.ttl] IN
       WriteInPass(o) /\ GoOn("head", o)
    /\ UNCHANGED <<clockVars, configMap, jobVars, worldVars, lives, commands>>

PastExpiryWrite == pc = "head" /\ ~obj.deleting /\ obj.finalizer /\ ExpiryIsKnown

\* The operator deletes the project, whatever its stored version is by now.
Expire ==
    /\ PastExpiryWrite /\ obj.ttl /\ expired
    /\ LET p == [project EXCEPT !.deleting = TRUE] IN
       project' = p /\ queued' = (queued \/ Wakes(p))
    /\ EndPass
    /\ OnlyProjectMoves

NotExpired ==
    /\ PastExpiryWrite /\ ~(obj.ttl /\ expired)
    /\ GoOn("body", obj)
    /\ OnlyPassMoves /\ UNCHANGED queued

Suspended ==
    /\ pc = "body" /\ ~obj.forceUnlock /\ obj.suspend
    /\ IF obj.phase = "Suspended" THEN EndPass ELSE ThenReport("Suspended")
    /\ OnlyPassMoves /\ UNCHANGED queued

Resume ==
    /\ pc = "body" /\ ~obj.forceUnlock /\ ~obj.suspend /\ obj.phase = "Suspended"
    /\ LET o == [obj EXCEPT !.phase = ""] IN WriteInPass(o) /\ GoOn("body", o)
    /\ UNCHANGED <<clockVars, configMap, jobVars, worldVars, lives, commands>>

-----------------------------------------------------------------------------
(***************************************************************************)
(* handleForceUnlock.                                                      *)
(***************************************************************************)

\* Mutant: the Jobs that run are left alone.
VictimsMutant == {k \in Kinds : jobs[k] = "pending"} \ {"unlock"}

\* Every active Job of the project but the force-unlock Job is deleted; the same
\* pass goes on to the force-unlock Job.
Victims == Active(jobs) \ {"unlock"}

KillActiveJobs ==
    /\ pc = "body" /\ obj.forceUnlock
    /\ Remove(Victims)
    /\ queued' = (queued \/ (jobs' # jobs /\ Reported(Victims)))
    /\ GoOn("unlock", obj)
    /\ UNCHANGED <<project, clockVars, configMap, lives, commands>>

NothingToUnlock ==
    /\ pc = "unlock" /\ configMap = "absent"
    /\ GoOn("clear", [obj EXCEPT !.phase = ""])
    /\ OnlyPassMoves /\ UNCHANGED queued

UnlockTurn == pc = "unlock" /\ configMap # "absent"

CreateUnlockJob ==
    /\ UnlockTurn /\ jobs["unlock"] = "absent"
    /\ SetJobs([jobs EXCEPT !["unlock"] = "pending"])
    /\ queued' = TRUE
    /\ ThenReport("ForceUnlocking")
    /\ UNCHANGED <<project, clockVars, configMap, orphans, worldVars, boundVars>>

UnlockStillActive ==
    /\ UnlockTurn /\ "unlock" \in Active(jobs)
    /\ queued' = TRUE
    /\ ThenReport("ForceUnlocking")
    /\ OnlyPassMoves

\* The Job is deleted, so that the next request creates a new one.
UnlockSucceeded ==
    /\ UnlockTurn /\ jobs["unlock"] = "succeeded"
    /\ queued' = TRUE
    /\ Remove({"unlock"})
    /\ GoOn("clear", [obj EXCEPT !.phase = ""])
    /\ UNCHANGED <<project, clockVars, configMap, lives, commands>>

UnlockFailed ==
    /\ UnlockTurn /\ jobs["unlock"] = "failed"
    /\ GoOn("clear", [obj EXCEPT !.phase = "Error"])
    /\ OnlyPassMoves /\ UNCHANGED queued

\* Mutant: only a successful unlock is taken off the project.
ClearsMutant == obj.phase = ""

\* Whatever came of it, the request is taken off the project.
Clears == TRUE

\* clearForceUnlockAnnotation drops the error of its Update; the fields of the
\* status are assigned after it.
ClearForceUnlock ==
    /\ pc = "clear"
    /\ \/ /\ fresh /\ Clears
          /\ LET p == [project EXCEPT !.forceUnlock = FALSE] IN
             project' = p /\ queued' = (queued \/ Wakes(p))
          /\ UNCHANGED faults
       \/ /\ ~(fresh /\ Clears)
          /\ UNCHANGED <<project, queued, faults>>
       \/ /\ IgnoredErrors /\ faults < MaxFaults
          /\ faults' = faults + 1
          /\ UNCHANGED <<project, queued>>
    /\ GoOn("status", [obj EXCEPT !.forceUnlock = FALSE])
    /\ UNCHANGED <<clockVars, configMap, jobVars, worldVars, lives, commands>>

-----------------------------------------------------------------------------
(***************************************************************************)
(* prepareReconcile and reconcileAutoApprove.                              *)
(***************************************************************************)

\* A ConfigMap of an earlier life has another owner: an error until it is gone.
EnsureTFConfigMap ==
    /\ pc = "body" /\ ~obj.forceUnlock /\ ~obj.suspend /\ obj.phase # "Suspended"
    /\ IF configMap = "orphan"
       THEN EndPass /\ queued' = TRUE /\ UNCHANGED configMap
       ELSE /\ configMap' = "mine"
            /\ queued' = (queued \/ configMap = "absent")
            /\ GoOn("lock", obj)
    /\ UNCHANGED <<project, clockVars, jobVars, worldVars, boundVars>>

\* checkJobLock: every Job with the project's label counts.
LockHeld == Active(jobs) # {}

WaitForActiveJob ==
    /\ pc = "lock" /\ LockHeld
    /\ queued' = TRUE
    /\ ThenReport("Running")
    /\ OnlyPassMoves

NoActiveJob ==
    /\ pc = "lock" /\ ~LockHeld
    /\ GoOn("apply", obj)
    /\ OnlyPassMoves /\ UNCHANGED queued

\* Reconcile clamps an empty Result to the time the TTL leaves, if any is left.
ClampToTTL == timer' = (timer \/ (obj.ttl /\ ~expired))

AlreadyApplied ==
    /\ pc = "apply" /\ obj.applied
    /\ ClampToTTL
    /\ EndPass
    /\ UNCHANGED <<project, expired, configMap, jobVars, worldVars, queued,
                   boundVars>>

ApplyTurn == pc = "apply" /\ ~obj.applied

CreateApplyJob ==
    /\ ApplyTurn /\ jobs["apply"] = "absent"
    /\ SetJobs([jobs EXCEPT !["apply"] = "pending"])
    /\ queued' = TRUE
    /\ ThenReport("Running")
    /\ UNCHANGED <<project, clockVars, configMap, orphans, worldVars, boundVars>>

ApplySucceeded ==
    /\ ApplyTurn /\ jobs["apply"] = "succeeded"
    /\ GoOn("report", [obj EXCEPT !.phase = "Succeeded", !.applied = TRUE])
    /\ OnlyPassMoves /\ UNCHANGED queued

\* A log that shows a lock error makes the phase Locked.
ApplyFailed ==
    /\ ApplyTurn /\ jobs["apply"] = "failed"
    /\ \E phase \in {"Error", "Locked"} :
          GoOn("report", [obj EXCEPT !.phase = phase])
    /\ OnlyPassMoves /\ UNCHANGED queued

-----------------------------------------------------------------------------
(***************************************************************************)
(* The end of a pass.                                                      *)
(***************************************************************************)

\* Only the passes that reach the flow have their Result clamped.
WriteStatus ==
    /\ pc \in {"status", "report"}
    /\ WriteInPass(obj)
    /\ IF pc = "report" THEN ClampToTTL ELSE UNCHANGED timer
    /\ EndPass
    /\ UNCHANGED <<expired, configMap, jobVars, worldVars, lives, commands>>

\* An API call fails and the returned error requeues the project.  From "clear" on
\* every error is dropped.
CallFails ==
    /\ pc \notin {"idle", "clear", "status", "report"} /\ faults < MaxFaults
    /\ faults' = faults + 1
    /\ queued' = TRUE
    /\ EndPass
    /\ UNCHANGED <<project, clockVars, configMap, jobVars, worldVars, lives,
                   commands>>

\* The operator restarts: the work queue is filled again, its timers are lost.
Restart ==
    /\ faults < MaxFaults
    /\ faults' = faults + 1
    /\ queued' = Exists /\ timer' = FALSE
    /\ EndPass
    /\ UNCHANGED <<project, expired, configMap, jobVars, worldVars, lives,
                   commands>>

-----------------------------------------------------------------------------
(***************************************************************************)
(* Jobs, garbage collection, time and users.                               *)
(***************************************************************************)

JobChanges(k, state) ==
    /\ SetJobs([jobs EXCEPT ![k] = state])
    /\ queued' = (queued \/ Reported({k}))
    /\ UNCHANGED <<project, clockVars, configMap, orphans, ghosts, passVars, boundVars>>

\* The pod needs the ConfigMap to start; its command fails at once when it
\* cannot get the state lock.
StartJob(k) ==
    /\ jobs[k] = "pending" /\ configMap # "absent"
    /\ IF k = "unlock" \/ ~StateLock
       THEN JobChanges(k, "running") /\ UNCHANGED holder
       ELSE IF holder = "nobody"
       THEN JobChanges(k, "running") /\ holder' = k
       ELSE JobChanges(k, "failed") /\ UNCHANGED holder
    /\ UNCHANGED infra

SucceedJob(k) ==
    /\ jobs[k] = "running"
    /\ JobChanges(k, "succeeded")
    /\ infra' = CASE k = "apply" -> TRUE
                  [] k = "destroy" -> FALSE
                  [] k = "unlock" -> infra
    /\ holder' = IF k = "unlock" \/ holder = k THEN "nobody" ELSE holder

\* The command fails or activeDeadlineSeconds pass: an apply may have made
\* resources, and the state lock may stay behind.
FailJob(k) ==
    /\ k \in Active(jobs)
    /\ JobChanges(k, "failed")
    /\ infra' \in {infra} \cup {b \in {TRUE} : k = "apply" /\ jobs[k] = "running"}
    /\ holder' \in IF holder = k THEN {"lost", "nobody"} ELSE {holder}

\* The pod of a deleted Job goes, its command interrupted or done.  Two of a kind go
\* together.
EndGhost(k) ==
    /\ k \in ghosts /\ ghosts' = ghosts \ {k}
    /\ infra' \in {infra} \cup {b \in BOOLEAN : k = (IF b THEN "apply" ELSE "destroy")}
    /\ \/ UNCHANGED holder /\ (holder = "dying" => ghosts' # {})
       \/ holder = "dying" /\ holder' \in {"lost", "nobody"}
       \/ k = "unlock" /\ holder' = "nobody"
    /\ UNCHANGED <<project, clockVars, configMap, jobVars, queued, passVars, boundVars>>

CollectConfigMap ==
    /\ configMap = "orphan"
    /\ configMap' = "absent"
    /\ queued' = TRUE
    /\ UNCHANGED <<project, clockVars, jobVars, worldVars, passVars, boundVars>>

CollectJob(k) ==
    /\ k \in orphans
    /\ Kill({k})
    /\ queued' = TRUE
    /\ UNCHANGED <<project, clockVars, configMap, passVars, boundVars>>

\* The moment of expiry comes; a timer set for it fires.
TimePasses ==
    /\ Exists /\ ~expired
    /\ expired' = TRUE /\ timer' = FALSE
    /\ queued' = (queued \/ timer)
    /\ UNCHANGED <<project, configMap, jobVars, worldVars, passVars, boundVars>>

\* The frame of a user's write of the project.
UserWrites(p) ==
    /\ project' = p
    /\ Outdate(Wakes(p))
    /\ queued' = (queued \/ Wakes(p))
    /\ UNCHANGED <<clockVars, configMap, jobVars, worldVars, pc, obj, faults>>

CreateProject ==
    /\ ~Exists /\ lives < MaxLives
    /\ project' \in NewProjects
    /\ lives' = lives + 1
    /\ expired' = FALSE /\ timer' = FALSE
    /\ queued' = TRUE
    /\ Outdate(TRUE)
    /\ UNCHANGED <<configMap, jobVars, worldVars, pc, obj, commands, faults>>

\* Deleting a project that has no finalizer yet removes it; it owns nothing.
DeleteProject ==
    /\ Exists /\ ~project.deleting
    /\ UserWrites(IF project.finalizer THEN [project EXCEPT !.deleting = TRUE]
                  ELSE Gone)
    /\ UNCHANGED <<lives, commands>>

\* kubectl tofu delete, before or after the deletion itself.
ApproveDelete ==
    /\ Exists /\ Protected /\ ~project.approvedDelete
    /\ UserWrites([project EXCEPT !.approvedDelete = TRUE])
    /\ UNCHANGED <<lives, commands>>

UserCommand(kind, p) ==
    /\ kind \in Commands /\ commands < MaxCommands
    /\ commands' = commands + 1
    /\ UserWrites(p)
    /\ UNCHANGED lives

SuspendOrResume ==
    /\ Exists
    /\ UserCommand("suspend", [project EXCEPT !.suspend = ~@])

EditTTL ==
    /\ Exists
    /\ UserCommand("ttl", [project EXCEPT !.ttl = ~@])

AskForceUnlock ==
    /\ Exists /\ ~project.forceUnlock
    /\ UserCommand("force-unlock", [project EXCEPT !.forceUnlock = TRUE])

-----------------------------------------------------------------------------
Pass ==
    \/ StartPass \/ NotFound
    \/ AwaitDeleteApproval \/ ReleaseWithoutDestroy \/ CreateDestroyJob
    \/ DestroyStillActive \/ DestroyStuck \/ DestroySucceeded \/ DestroyFailed
    \/ AddFinalizer \/ WriteExpiry \/ Expire \/ NotExpired
    \/ Suspended \/ Resume
    \/ KillActiveJobs \/ NothingToUnlock \/ CreateUnlockJob
    \/ UnlockStillActive \/ UnlockSucceeded \/ UnlockFailed \/ ClearForceUnlock
    \/ EnsureTFConfigMap \/ WaitForActiveJob \/ NoActiveJob \/ AlreadyApplied
    \/ CreateApplyJob \/ ApplySucceeded \/ ApplyFailed \/ WriteStatus

Cluster ==
    \/ \E k \in Kinds : \/ StartJob(k) \/ SucceedJob(k) \/ FailJob(k)
                         \/ CollectJob(k) \/ EndGhost(k)
    \/ CollectConfigMap \/ TimePasses

Users ==
    \/ CreateProject \/ DeleteProject \/ ApproveDelete
    \/ SuspendOrResume \/ EditTTL \/ AskForceUnlock

Next == Pass \/ CallFails \/ Restart \/ Cluster \/ Users

Spec == Init /\ [][Next]_vars

\* The single worker serves a queued project and every pass ends; a Job ends,
\* by its deadline at the latest, even when its pod cannot start; the garbage
\* collector runs, time passes, and a user approves the deletion.
Fairness ==
    /\ WF_vars(Pass)
    /\ \A k \in Kinds : WF_vars(StartJob(k) \/ SucceedJob(k) \/ FailJob(k))
                        /\ WF_vars(CollectJob(k)) /\ WF_vars(EndGhost(k))
    /\ WF_vars(CollectConfigMap) /\ WF_vars(TimePasses)
    /\ WF_vars(ApproveDelete)

FairSpec == Spec /\ Fairness

-----------------------------------------------------------------------------
(***************************************************************************)
(* Properties.                                                             *)
(***************************************************************************)

\* A destroy Job is created, and a finalizer removed, only for a project that
\* is being deleted and, when it is protected, whose deletion has been
\* approved in this life (checkDeleteProtection, reconcileDestroy).
DeletionNeedsConsent ==
    [][ \/ jobs["destroy"] = "absent" /\ jobs'["destroy"] # "absent"
        \/ Exists /\ project.finalizer /\ project' = Gone
        => project.deleting /\ (Protected => project.approvedDelete) ]_vars

\* While errors are reported, no apply Job is active beside the force-unlock Job
\* (handleForceUnlock deletes it first, checkJobLock keeps new ones out), so that no
\* apply starts while the lock is being broken.  The pod of a deleted apply may
\* still be on its way out.
NoApplyJobBesideUnlock ==
    ~IgnoredErrors => ~({"apply", "unlock"} \subseteq Active(jobs))

\* In its first life a project is released with its resources destroyed, unless
\* an apply, though its Job be deleted, was under way beside the destroy
\* (reconcileDestroy).
ReleasedClean == lives = 1 /\ ~Exists /\ infra => overlap

\* A project at rest shows when it expires, and nothing when it does not,
\* however the TTL was edited meanwhile (handleLifecycle).
ExpiryIsReported ==
    ~IgnoredErrors /\ pc = "idle" /\ ~queued /\ Exists /\ ~project.deleting
        => project.expiresAt = project.ttl

\* A deletion ends: the project goes, or its destroy Job fails
\* (reconcileDestroy's requeues and watches lose no wakeup).
DeletionEnds ==
    Exists /\ project.deleting ~> (~Exists \/ jobs["destroy"] = "failed")

\* A force-unlock request is served: it is taken off a project that lives on
\* (handleForceUnlock, clearForceUnlockAnnotation).
UnlockEnds ==
    Exists /\ project.forceUnlock
        ~> (~Exists \/ project.deleting \/ ~project.forceUnlock)

\* tofuproject_controller.go:201: "Delete any active jobs for this project (they'd
\* fail anyway with a lock)".  Violated: a Job that holds the lock itself is deleted
\* as well, and the lock that the force-unlock Job breaks is that of its pod.
VictimsWouldFail ==
    [][pc = "body" /\ pc' = "unlock" /\ holder \in Active(jobs)
        => holder \in Active(jobs')]_vars
=============================================================================
