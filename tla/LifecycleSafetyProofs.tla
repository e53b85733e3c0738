------------------------ MODULE LifecycleSafetyProofs ------------------------
(***************************************************************************)
(* Lifecycle: a deletion has consent, no apply Job is active beside the    *)
(* force-unlock Job, a released project leaves nothing behind, and a       *)
(* project at rest shows its expiry, each from the invariant of            *)
(* LifecycleProofs and a strengthening of its own.                         *)
(***************************************************************************)
EXTENDS LifecycleProofs

-----------------------------------------------------------------------------
(***************************************************************************)
(* What every step does to the Jobs and to the project.                    *)
(***************************************************************************)

\* Jobs get no more active than they were, and no destroy Job appears.
JobsOnlyEnd ==
    /\ Active(jobs') \subseteq Active(jobs)
    /\ jobs["destroy"] = "absent" => jobs'["destroy"] = "absent"

\* The project stays, and neither its finalizer nor its deletion is taken back.
ProjectIsHeld ==
    \/ project' = project
    \/ /\ Exists /\ Exists'
       /\ project.finalizer => project'.finalizer
       /\ project.deleting => project'.deleting

LEMMA KillEndsJobs ==
    ASSUME Sound, NEW S \in SUBSET Kinds, Kill(S)
    PROVE  JobsOnlyEnd
<1>1. jobs' = [k \in Kinds |-> IF k \in S THEN "absent" ELSE jobs[k]]
  BY DEF Kill, SetJobs
<1>2. QED
  BY <1>1 DEF JobsOnlyEnd, Active, Kinds

LEMMA RemoveEndsJobs ==
    ASSUME Sound, NEW S \in SUBSET Kinds, Remove(S)
    PROVE  JobsOnlyEnd
<1>1. CASE Kill(S)
  BY <1>1, KillEndsJobs
<1>2. CASE UNCHANGED jobs
  BY <1>2 DEF JobsOnlyEnd, Active
<1>3. QED
  BY <1>1, <1>2 DEF Remove, jobVars

\* Only the pass that creates a Job makes one active.
LEMMA OnlyCreationActivates ==
    ASSUME Sound, [Next]_vars,
           ~CreateDestroyJob, ~CreateUnlockJob, ~CreateApplyJob
    PROVE  JobsOnlyEnd
<1>1. CASE UNCHANGED jobs
  BY <1>1 DEF JobsOnlyEnd, Active
<1>2. CASE DestroyStuck \/ KillActiveJobs \/ UnlockSucceeded
  <2>1. /\ {"destroy"} \in SUBSET Kinds /\ {"unlock"} \in SUBSET Kinds
        /\ Victims \in SUBSET Kinds
    BY DEF Kinds, Victims, Active
  <2>2. QED
    BY <1>2, <2>1, RemoveEndsJobs DEF DestroyStuck, KillActiveJobs, UnlockSucceeded
<1>3. CASE Cluster
  <2>1. ASSUME NEW k \in Kinds, CollectJob(k) PROVE JobsOnlyEnd
    BY <2>1, KillEndsJobs DEF CollectJob
  <2>2. ASSUME NEW k \in Kinds, StartJob(k) \/ SucceedJob(k) \/ FailJob(k)
        PROVE  JobsOnlyEnd
    <3>1. PICK state \in JobStates : jobs' = [jobs EXCEPT ![k] = state]
      BY <2>2 DEF StartJob, SucceedJob, FailJob, JobChanges, SetJobs, JobStates
    <3>2. jobs[k] \in {"pending", "running"} /\ jobs \in [Kinds -> JobStates]
      BY <2>2 DEF StartJob, SucceedJob, FailJob, Active, Sound, TypeOK
    <3>3. QED
      BY <3>1, <3>2 DEF JobsOnlyEnd, Active, Kinds
  <2>3. CASE CollectConfigMap \/ TimePasses \/ \E k \in Kinds : EndGhost(k)
    BY <2>3, <1>1 DEF CollectConfigMap, TimePasses, EndGhost, jobVars
  <2>4. QED
    BY <1>3, <2>1, <2>2, <2>3 DEF Cluster
<1>4. CASE Users
  BY <1>1, <1>4
     DEF Users, CreateProject, DeleteProject, ApproveDelete, SuspendOrResume,
         EditTTL, AskForceUnlock, UserCommand, UserWrites, jobVars
<1>5. CASE CallFails \/ Restart \/ UNCHANGED vars
  BY <1>1, <1>5 DEF CallFails, Restart, vars, jobVars
<1>6. CASE Pass /\ ~(DestroyStuck \/ KillActiveJobs \/ UnlockSucceeded)
  BY <1>1, <1>6
     DEF Pass, StartPass, NotFound, AwaitDeleteApproval, ReleaseWithoutDestroy,
         DestroyStillActive, DestroySucceeded, DestroyFailed, RemoveFinalizer,
         AddFinalizer, WriteExpiry, Expire, NotExpired, Suspended, Resume,
         NothingToUnlock, UnlockStillActive, UnlockFailed, ClearForceUnlock,
         EnsureTFConfigMap, WaitForActiveJob, NoActiveJob, AlreadyApplied,
         ApplySucceeded, ApplyFailed, WriteStatus, OnlyPassMoves,
         OnlyProjectMoves, jobVars
<1>7. QED
  BY <1>2, <1>3, <1>4, <1>5, <1>6 DEF Next

LEMMA UserWritesHold ==
    ASSUME Sound, Exists, ApproveDelete \/ SuspendOrResume \/ EditTTL \/ AskForceUnlock
    PROVE  ProjectIsHeld
<1>1. project \in Projects
  BY DEF Sound, TypeOK, Exists
<1>2. PICK p :
          /\ project' = p
          /\ \/ p = [project EXCEPT !.approvedDelete = TRUE]
             \/ p = [project EXCEPT !.suspend = ~@]
             \/ p = [project EXCEPT !.ttl = ~@]
             \/ p = [project EXCEPT !.forceUnlock = TRUE]
  BY DEF ApproveDelete, SuspendOrResume, EditTTL, AskForceUnlock, UserCommand,
         UserWrites
<1>3. p \in Projects /\ p.finalizer = project.finalizer /\ p.deleting = project.deleting
  BY <1>1, <1>2 DEF Projects
<1>4. QED
  BY <1>2, <1>3, GoneAssumption DEF ProjectIsHeld, Exists

\* A pass that releases nothing keeps the project.
LEMMA PassHolds ==
    ASSUME Sound, Pass, ~ReleaseWithoutDestroy, ~DestroySucceeded
    PROVE  ProjectIsHeld
<1>1. CASE UNCHANGED project
  BY <1>1 DEF ProjectIsHeld
<1>2. CASE AddFinalizer \/ Expire \/ ClearForceUnlock
  <2>1. ~UNCHANGED project => Exists
    BY <1>2
       DEF AddFinalizer, Expire, PastExpiryWrite, ClearForceUnlock, Sound, CopyInv
  <2>2. PICK p \in {[project EXCEPT !.finalizer = TRUE],
                    [project EXCEPT !.deleting = TRUE],
                    [project EXCEPT !.forceUnlock = FALSE], project} : project' = p
    BY <1>2 DEF AddFinalizer, Expire, ClearForceUnlock
  <2>3. CASE Exists
    <3>1. project \in Projects
      BY <2>3 DEF Sound, TypeOK, Exists
    <3>2. /\ p \in Projects
          /\ project.finalizer => p.finalizer
          /\ project.deleting => p.deleting
      BY <3>1 DEF Projects
    <3>3. QED
      BY <2>2, <2>3, <3>2, GoneAssumption DEF ProjectIsHeld, Exists
  <2>4. QED
    BY <2>1, <2>3, <1>1
<1>3. CASE WriteExpiry \/ Resume \/ WriteStatus
  <2>1. PICK o \in Projects : WriteInPass(o) /\ pc # "idle"
    <3>1. obj \in Projects
      BY DEF Sound, TypeOK
    <3>2. [obj EXCEPT !.expiresAt = obj.ttl] \in Projects
          /\ [obj EXCEPT !.phase = ""] \in Projects
      BY <3>1 DEF Projects, Phases
    <3>3. QED
      BY <1>3, <3>1, <3>2 DEF WriteExpiry, Resume, WriteStatus
  <2>2. QED
    BY <2>1, WriteInPassType DEF ProjectIsHeld, SameFate
<1>4. CASE ~(AddFinalizer \/ Expire \/ ClearForceUnlock)
           /\ ~(WriteExpiry \/ Resume \/ WriteStatus)
  BY <1>1, <1>4
     DEF Pass, StartPass, NotFound, AwaitDeleteApproval, CreateDestroyJob,
         DestroyStillActive, DestroyStuck, DestroyFailed, NotExpired, Suspended,
         KillActiveJobs, NothingToUnlock, CreateUnlockJob, UnlockStillActive,
         UnlockSucceeded, UnlockFailed, EnsureTFConfigMap, WaitForActiveJob,
         NoActiveJob, AlreadyApplied, CreateApplyJob, ApplySucceeded,
         ApplyFailed, OnlyPassMoves
<1>5. QED
  BY <1>2, <1>3, <1>4

\* Only the release of its finalizer, or a deletion that meets none, removes a
\* project.
LEMMA OnlyReleaseRemoves ==
    ASSUME Sound, [Next]_vars, ~ReleaseWithoutDestroy, ~DestroySucceeded,
           ~DeleteProject, ~CreateProject
    PROVE  ProjectIsHeld
<1>1. CASE Pass
  BY <1>1, PassHolds
<1>2. CASE Users
  BY <1>2, UserWritesHold
     DEF Users, ApproveDelete, SuspendOrResume, EditTTL, AskForceUnlock
<1>3. CASE Cluster \/ CallFails \/ Restart \/ UNCHANGED vars
  BY <1>3
     DEF Cluster, StartJob, SucceedJob, FailJob, CollectJob, JobChanges, EndGhost,
         CollectConfigMap, TimePasses, CallFails, Restart, vars, ProjectIsHeld
<1>4. QED
  BY <1>1, <1>2, <1>3 DEF Next

-----------------------------------------------------------------------------
(***************************************************************************)
(* Consent.                                                                *)
(***************************************************************************)

\* What DeletionNeedsConsent says of one step.
Consented ==
    \/ jobs["destroy"] = "absent" /\ jobs'["destroy"] # "absent"
    \/ Exists /\ project.finalizer /\ project' = Gone
    => project.deleting /\ (Protected => project.approvedDelete)

LEMMA StepConsented == Sound /\ [Next]_vars => Consented
<1> SUFFICES ASSUME Sound, [Next]_vars PROVE Consented
  OBVIOUS
<1>1. CASE CreateDestroyJob \/ ReleaseWithoutDestroy \/ DestroySucceeded
  <2>1. obj.deleting /\ (Protected => obj.approvedDelete)
    BY <1>1
       DEF CreateDestroyJob, ReleaseWithoutDestroy, DestroySucceeded,
           DestroyTurn, Deleting, MayDestroy
  <2>2. QED
    BY <2>1 DEF Consented, Sound, CopyInv
<1>2. CASE ~(CreateDestroyJob \/ ReleaseWithoutDestroy \/ DestroySucceeded)
  <2>1. jobs["destroy"] = "absent" => jobs'["destroy"] = "absent"
    <3>1. CASE CreateUnlockJob \/ CreateApplyJob
      BY <3>1 DEF CreateUnlockJob, CreateApplyJob, SetJobs, Sound, TypeOK, Kinds
    <3>2. CASE ~CreateUnlockJob /\ ~CreateApplyJob
      BY <1>2, <3>2, OnlyCreationActivates DEF JobsOnlyEnd
    <3>3. QED
      BY <3>1, <3>2
  <2>2. Exists /\ project.finalizer => project' # Gone
    <3>1. CASE CreateProject
      BY <3>1 DEF CreateProject
    <3>2. CASE DeleteProject
      BY <3>2, GoneAssumption
         DEF DeleteProject, UserWrites, Sound, TypeOK, Exists, Projects
    <3>3. CASE ~CreateProject /\ ~DeleteProject
      BY <1>2, <3>3, OnlyReleaseRemoves DEF ProjectIsHeld, Exists
    <3>4. QED
      BY <3>1, <3>2, <3>3
  <2>3. QED
    BY <2>1, <2>2 DEF Consented
<1>3. QED
  BY <1>1, <1>2

\* However others' writes interleave with the pass that read the project, only
\* a project whose deletion is asked for, and approved when it is protected,
\* gets a destroy Job or loses its finalizer.
THEOREM ConsentHolds == Spec => DeletionNeedsConsent
<1>1. Sound /\ [Next]_vars => [Consented]_vars
  BY StepConsented
<1>2. Spec => [][Consented]_vars
  BY <1>1, SoundAlways, PTL DEF Spec
<1>3. QED
  BY <1>2 DEF DeletionNeedsConsent, Consented

-----------------------------------------------------------------------------
(***************************************************************************)
(* Force-unlock.                                                           *)
(***************************************************************************)

\* The pass that is about to create the force-unlock Job has deleted the apply
\* Job, and the one that is about to create the apply Job has seen no active Job.
UnlockInv ==
    ~IgnoredErrors =>
        /\ ~({"apply", "unlock"} \subseteq Active(jobs))
        /\ pc = "unlock" => "apply" \notin Active(jobs)
        /\ pc = "apply" => Active(jobs) = {}

\* Only these steps turn the pass to the creation of either Job.
LEMMA WhoTurnsToCreation ==
    ASSUME Sound, [Next]_vars, ~KillActiveJobs, ~NoActiveJob
    PROVE  pc' \in {"unlock", "apply"} => pc' = pc
<1>1. CASE Pass
  BY <1>1
     DEF Pass, StartPass, NotFound, AwaitDeleteApproval, ReleaseWithoutDestroy,
         CreateDestroyJob, DestroyStillActive, DestroyStuck, DestroySucceeded,
         DestroyFailed, RemoveFinalizer, AddFinalizer, WriteExpiry, Expire,
         NotExpired, Suspended, Resume, NothingToUnlock, CreateUnlockJob,
         UnlockStillActive, UnlockSucceeded, UnlockFailed, ClearForceUnlock,
         EnsureTFConfigMap, WaitForActiveJob, AlreadyApplied, CreateApplyJob,
         ApplySucceeded, ApplyFailed, WriteStatus, EndPass, GoOn, ThenReport,
         passVars
<1>2. CASE CallFails \/ Restart \/ UNCHANGED vars
  BY <1>2 DEF CallFails, Restart, EndPass, vars, passVars
<1>3. CASE Cluster
  BY <1>3
     DEF Cluster, StartJob, SucceedJob, FailJob, CollectJob, JobChanges, EndGhost,
         CollectConfigMap, TimePasses, passVars
<1>4. CASE Users
  BY <1>4
     DEF Users, CreateProject, DeleteProject, ApproveDelete, SuspendOrResume,
         EditTTL, AskForceUnlock, UserCommand, UserWrites
<1>5. QED
  BY <1>1, <1>2, <1>3, <1>4 DEF Next

THEOREM InitUnlock == Init => UnlockInv
BY DEF Init, UnlockInv, Active

THEOREM StepUnlock == Sound /\ UnlockInv /\ [Next]_vars => UnlockInv'
<1> SUFFICES ASSUME Sound, UnlockInv, [Next]_vars, ~IgnoredErrors
             PROVE  UnlockInv'
  BY DEF UnlockInv
<1>1. CASE KillActiveJobs
  <2>1. Kill(Victims) /\ pc' = "unlock"
    BY <1>1 DEF KillActiveJobs, Remove, GoOn
  <2>2. jobs' = [k \in Kinds |-> IF k \in Victims THEN "absent" ELSE jobs[k]]
    BY <2>1 DEF Kill, SetJobs
  <2>3. "apply" \notin Active(jobs')
    BY <2>2 DEF Active, Victims, Kinds
  <2>4. QED
    BY <2>1, <2>3 DEF UnlockInv
<1>2. CASE NoActiveJob
  BY <1>2
     DEF NoActiveJob, LockHeld, GoOn, OnlyPassMoves, jobVars, UnlockInv, Active
<1>3. CASE CreateDestroyJob \/ CreateUnlockJob
  <2>1. PICK k \in {"destroy", "unlock"} : jobs' = [jobs EXCEPT ![k] = "pending"]
    BY <1>3 DEF CreateDestroyJob, CreateUnlockJob, SetJobs
  <2>2. "apply" \in Active(jobs') => "apply" \in Active(jobs)
    BY <2>1 DEF Active, Kinds, Sound, TypeOK
  <2>3. jobs' = [jobs EXCEPT !["destroy"] = "pending"]
            => ("unlock" \in Active(jobs') => "unlock" \in Active(jobs))
    BY DEF Active, Kinds, Sound, TypeOK
  <2>4. CreateUnlockJob => pc = "unlock"
    BY DEF CreateUnlockJob, UnlockTurn
  <2>5. CreateDestroyJob => jobs' = [jobs EXCEPT !["destroy"] = "pending"]
    BY DEF CreateDestroyJob, SetJobs
  <2>6. pc' = "status"
    BY <1>3 DEF CreateDestroyJob, CreateUnlockJob, ThenReport, GoOn
  <2>7. QED
    BY <1>3, <2>2, <2>3, <2>4, <2>5, <2>6 DEF UnlockInv
<1>4. CASE CreateApplyJob
  <2>1. Active(jobs) = {} /\ pc' = "status"
    BY <1>4 DEF CreateApplyJob, ApplyTurn, ThenReport, GoOn, UnlockInv
  <2>2. jobs'["unlock"] = jobs["unlock"]
    BY <1>4 DEF CreateApplyJob, SetJobs, Sound, TypeOK, Kinds
  <2>3. "unlock" \notin Active(jobs')
    BY <2>1, <2>2 DEF Active
  <2>4. QED
    BY <2>1, <2>3 DEF UnlockInv
<1>5. CASE /\ ~KillActiveJobs /\ ~NoActiveJob /\ ~CreateDestroyJob
           /\ ~CreateUnlockJob /\ ~CreateApplyJob
  <2>1. Active(jobs') \subseteq Active(jobs)
    BY <1>5, OnlyCreationActivates DEF JobsOnlyEnd
  <2>2. pc' \in {"unlock", "apply"} => pc' = pc
    BY <1>5, WhoTurnsToCreation
  <2>3. QED
    BY <2>1, <2>2 DEF UnlockInv
<1>6. QED
  BY <1>1, <1>2, <1>3, <1>4, <1>5

\* Whatever the user, the Jobs and the garbage collector do between the API
\* calls of a pass, no apply Job is active, so none can start, while the
\* force-unlock Job is, as long as the errors of those calls are reported.  The
\* command of an apply whose Job was deleted is not spoken of: it may still run.
THEOREM UnlockSafe == Spec => []NoApplyJobBesideUnlock
<1>1. UnlockInv => NoApplyJobBesideUnlock
  BY DEF UnlockInv, NoApplyJobBesideUnlock
<1>2. Spec => []UnlockInv
  BY InitUnlock, StepUnlock, SoundAlways, PTL DEF Spec
<1>3. QED
  BY <1>1, <1>2, PTL

-----------------------------------------------------------------------------
(***************************************************************************)
(* Release.                                                                *)
(***************************************************************************)

\* The kinds whose command runs or may still start, with their Job or without.
UnderWay == Active(jobs) \cup ghosts

\* Resources, or an apply that may make some, are in sight of the destroy: the
\* project and its ConfigMap are there, and a destroy Job that is over has met
\* no apply.
InSight ==
    /\ jobs["destroy"] # "absent" =>
          /\ "apply" \notin UnderWay
          /\ Exists => project.deleting
          /\ pc # "idle" => obj.deleting
    /\ jobs["destroy"] = "succeeded" => ~infra
    /\ ~Exists \/ configMap = "absent" => "apply" \notin UnderWay /\ ~infra
    /\ Exists /\ ~project.finalizer => configMap = "absent"
    /\ configMap = "orphan" => ~Exists
    /\ pc \in {"lock", "apply"} => configMap # "absent"

CleanInv == lives = 1 /\ ~overlap => InSight

\* Only the first creation, a release, the ConfigMap's writers and the Jobs
\* touch what InSight speaks of; this is what every other step does.
Bystands ==
    /\ UNCHANGED <<jobs, overlap, infra, ghosts, configMap, lives>>
    /\ \/ ProjectIsHeld
       \/ project' = Gone /\ ~project.finalizer
    /\ \/ pc' = "idle"
       \/ pc # "idle" /\ obj'.deleting = obj.deleting
       \/ Exists /\ UNCHANGED project /\ obj' = project
    /\ pc' \in {"lock", "apply"} => pc \in {"lock", "apply"}

LEMMA BystanderStep ==
    ASSUME CleanInv, Bystands
    PROVE  CleanInv'
<1> SUFFICES ASSUME lives = 1, ~overlap, InSight PROVE InSight'
  BY DEF CleanInv, Bystands
<1>1. jobs' = jobs /\ infra' = infra /\ configMap' = configMap
  BY DEF Bystands
<1>2. UnderWay' = UnderWay
  BY DEF Bystands, UnderWay, Active
<1>3. CASE ProjectIsHeld
  <2>1. (Exists' <=> Exists) /\ (project'.finalizer \/ ~project.finalizer \/ ~Exists)
        /\ (Exists /\ project.deleting => project'.deleting)
    BY <1>3 DEF ProjectIsHeld, Exists
  <2>2. QED
    BY <1>1, <1>2, <2>1, <1>3 DEF InSight, Bystands, ProjectIsHeld, Exists
<1>4. CASE project' = Gone /\ ~project.finalizer
  BY <1>1, <1>2, <1>4 DEF InSight, Bystands, Exists
<1>5. QED
  BY <1>3, <1>4 DEF Bystands

\* The steps of a pass that stand by.
LEMMA PassBystands ==
    ASSUME Sound, Pass,
           ~ReleaseWithoutDestroy, ~CreateDestroyJob, ~DestroyStuck,
           ~DestroySucceeded, ~KillActiveJobs, ~CreateUnlockJob,
           ~UnlockSucceeded, ~EnsureTFConfigMap, ~CreateApplyJob
    PROVE  Bystands
<1>1. UNCHANGED <<jobs, overlap, infra, ghosts, configMap, lives>>
  BY DEF Pass, StartPass, NotFound, AwaitDeleteApproval, DestroyStillActive,
         DestroyFailed, AddFinalizer, WriteExpiry, Expire, NotExpired, Suspended,
         Resume, NothingToUnlock, UnlockStillActive, UnlockFailed,
         ClearForceUnlock, WaitForActiveJob, NoActiveJob, AlreadyApplied,
         ApplySucceeded, ApplyFailed, WriteStatus, OnlyPassMoves,
         OnlyProjectMoves, jobVars, worldVars, boundVars
<1>2. ProjectIsHeld
  BY PassHolds
<1>3. CASE StartPass \/ NotFound
  <2>1. \/ Exists /\ UNCHANGED project /\ obj' = project /\ pc' = "head"
        \/ pc' = "idle"
    BY <1>3 DEF StartPass, NotFound, passVars, OnlyPassMoves
  <2>2. QED
    BY <1>1, <1>2, <2>1 DEF Bystands
<1>4. CASE ~StartPass /\ ~NotFound
  <2>1. PICK p : /\ \/ EndPass
                    \/ pc # "idle" /\ obj' = p /\ pc' # "lock"
                       /\ (pc' = "apply" => pc = "lock")
                 /\ \/ p = obj
                    \/ \E x \in Phases : p = [obj EXCEPT !.phase = x]
                    \/ p = [obj EXCEPT !.finalizer = TRUE]
                    \/ p = [obj EXCEPT !.expiresAt = obj.ttl]
                    \/ p = [obj EXCEPT !.forceUnlock = FALSE]
                    \/ p = [obj EXCEPT !.phase = "Succeeded", !.applied = TRUE]
    BY <1>4
       DEF Pass, AwaitDeleteApproval, Deleting, DestroyStillActive, DestroyTurn,
           DestroyFailed, AddFinalizer, WriteExpiry, Expire, NotExpired,
           PastExpiryWrite, Suspended, Resume, NothingToUnlock,
           UnlockStillActive, UnlockFailed, UnlockTurn, ClearForceUnlock,
           WaitForActiveJob, NoActiveJob, AlreadyApplied, ApplySucceeded,
           ApplyFailed, ApplyTurn, WriteStatus, GoOn, ThenReport, Phases
  <2>2. p.deleting = obj.deleting
    BY <2>1 DEF Sound, TypeOK, Projects
  <2>3. EndPass => pc' = "idle"
    BY DEF EndPass
  <2>4. QED
    BY <1>1, <1>2, <2>1, <2>2, <2>3 DEF Bystands
<1>5. QED
  BY <1>3, <1>4

LEMMA OthersBystand ==
    ASSUME Sound,
           \/ DeleteProject \/ ApproveDelete \/ SuspendOrResume \/ EditTTL
           \/ AskForceUnlock \/ TimePasses \/ CallFails \/ Restart
           \/ UNCHANGED vars
    PROVE  Bystands
<1>1. /\ UNCHANGED <<jobs, overlap, infra, ghosts, configMap, lives>>
      /\ pc' = "idle" \/ UNCHANGED <<pc, obj>>
  BY DEF DeleteProject, ApproveDelete, SuspendOrResume, EditTTL, AskForceUnlock,
         UserCommand, UserWrites, TimePasses, CallFails, Restart, EndPass, vars,
         jobVars, worldVars, boundVars, passVars
<1>2. CASE DeleteProject
  <2>1. Exists /\ project \in Projects
    BY <1>2 DEF DeleteProject, Sound, TypeOK, Exists
  <2>2. project' = IF project.finalizer THEN [project EXCEPT !.deleting = TRUE]
                   ELSE Gone
    BY <1>2 DEF DeleteProject, UserWrites
  <2>3. \/ ProjectIsHeld
        \/ project' = Gone /\ ~project.finalizer
    BY <2>1, <2>2, GoneAssumption DEF ProjectIsHeld, Exists, Projects
  <2>4. QED
    BY <1>1, <2>3 DEF Bystands
<1>3. CASE ApproveDelete \/ SuspendOrResume \/ EditTTL \/ AskForceUnlock
  <2>1. Exists
    BY <1>3 DEF ApproveDelete, SuspendOrResume, EditTTL, AskForceUnlock
  <2>2. QED
    BY <1>1, <1>3, <2>1, UserWritesHold DEF Bystands
<1>4. CASE TimePasses \/ CallFails \/ Restart \/ UNCHANGED vars
  BY <1>1, <1>4 DEF Bystands, ProjectIsHeld, TimePasses, CallFails, Restart, vars
<1>5. QED
  BY <1>2, <1>3, <1>4

\* Deleting Jobs starts no command; those that run do so until their pods go.
LEMMA KillClean ==
    ASSUME Sound, CleanInv, NEW S \in SUBSET Kinds, Kill(S),
           UNCHANGED <<project, configMap, lives>>,
           \/ UNCHANGED <<pc, obj>>
           \/ pc # "idle" /\ obj'.deleting = obj.deleting /\ pc' \notin {"lock", "apply"}
    PROVE  CleanInv'
<1> SUFFICES ASSUME lives = 1, ~overlap, InSight PROVE InSight'
  BY DEF CleanInv, Kill, SetJobs
<1>1. jobs' = [k \in Kinds |-> IF k \in S THEN "absent" ELSE jobs[k]]
  BY DEF Kill, SetJobs
<1>2. /\ jobs'["destroy"] \in {jobs["destroy"], "absent"}
      /\ "apply" \in Active(jobs') => "apply" \in Active(jobs)
  BY <1>1 DEF Kinds, Active
<1>3. infra' = infra /\ ("apply" \in UnderWay' => "apply" \in UnderWay)
  BY <1>2 DEF Kill, UnderWay, Active
<1>4. QED
  BY <1>2, <1>3 DEF InSight, Exists

LEMMA RemoveClean ==
    ASSUME Sound, CleanInv, DestroyStuck \/ KillActiveJobs \/ UnlockSucceeded
    PROVE  CleanInv'
<1>1. PICK S \in SUBSET Kinds :
          Remove(S) /\ UNCHANGED <<project, configMap, lives>>
  BY DEF DestroyStuck, KillActiveJobs, UnlockSucceeded, Kinds, Victims, Active
<1>2. /\ pc # "idle" /\ obj'.deleting = obj.deleting
      /\ pc' \notin {"lock", "apply"}
  BY DEF DestroyStuck, DestroyTurn, Deleting, KillActiveJobs, UnlockSucceeded,
         UnlockTurn, ThenReport, GoOn, Sound, TypeOK, Projects
<1>3. CASE Kill(S)
  BY <1>1, <1>2, <1>3, KillClean
<1>4. CASE UNCHANGED <<jobVars, worldVars>>
  <2>1. Bystands
    BY <1>1, <1>2, <1>4 DEF Bystands, ProjectIsHeld, jobVars, worldVars
  <2>2. QED
    BY <2>1, BystanderStep
<1>5. QED
  BY <1>1, <1>3, <1>4 DEF Remove

\* The finalizer goes when there is nothing to destroy or it is destroyed.
LEMMA ReleaseClean ==
    ASSUME Sound, CleanInv, ReleaseWithoutDestroy \/ DestroySucceeded
    PROVE  CleanInv'
<1>1. /\ RemoveFinalizer /\ obj.deleting
      /\ configMap = "absent" \/ jobs["destroy"] = "succeeded"
  BY DEF ReleaseWithoutDestroy, DestroySucceeded, DestroyTurn, Deleting,
         DestroyIsDone
<1>2. /\ pc' = "idle" /\ UNCHANGED <<jobs, overlap, infra, lives>>
      /\ UnderWay' = UnderWay
  BY <1>1 DEF RemoveFinalizer, EndPass, worldVars, boundVars, UnderWay, Active
<1> SUFFICES ASSUME lives = 1, ~overlap, InSight PROVE InSight'
  BY <1>2 DEF CleanInv
<1>3. "apply" \notin UnderWay /\ ~infra
  BY <1>1 DEF InSight
<1>4. CASE fresh
  <2>1. project' = Gone
    BY <1>1, <1>4 DEF RemoveFinalizer
  <2>2. QED
    BY <1>2, <1>3, <2>1 DEF InSight, Exists
<1>5. CASE ~fresh
  <2>1. UNCHANGED <<project, configMap>>
    BY <1>1, <1>5 DEF RemoveFinalizer
  <2>2. QED
    BY <1>2, <2>1 DEF InSight, Exists
<1>6. QED
  BY <1>4, <1>5

\* The passes that create Jobs and the ConfigMap.
LEMMA CreationClean ==
    ASSUME Sound, CleanInv,
           \/ CreateDestroyJob \/ CreateUnlockJob \/ CreateApplyJob
           \/ EnsureTFConfigMap
    PROVE  CleanInv'
<1>1. jobs \in [Kinds -> JobStates] /\ obj \in Projects
  BY DEF Sound, TypeOK
<1>2. CASE EnsureTFConfigMap
  <2>1. /\ pc = "body" /\ obj.finalizer /\ ~obj.deleting
        /\ Exists /\ project.finalizer
        /\ UNCHANGED <<project, jobs, overlap, infra, lives>>
        /\ UnderWay' = UnderWay
        /\ \/ pc' = "idle" /\ UNCHANGED configMap
           \/ pc' = "lock" /\ configMap' = "mine" /\ obj' = obj
    BY <1>2
       DEF EnsureTFConfigMap, EndPass, GoOn, jobVars, worldVars, boundVars,
           UnderWay, Active, Sound, CopyInv
  <2>2. QED
    BY <2>1 DEF CleanInv, InSight, Exists
<1>3. CASE CreateDestroyJob \/ CreateUnlockJob \/ CreateApplyJob
  <2>1. /\ UNCHANGED <<project, infra, ghosts, configMap, lives>>
        /\ pc' = "status" /\ pc # "idle" /\ obj'.deleting = obj.deleting
    BY <1>1, <1>3
       DEF CreateDestroyJob, DestroyTurn, Deleting, CreateUnlockJob, UnlockTurn,
           CreateApplyJob, ApplyTurn, ThenReport, GoOn, worldVars, boundVars,
           Projects
  <2>2. PICK k \in Kinds : /\ SetJobs([jobs EXCEPT ![k] = "pending"])
                           /\ k = "destroy" => CreateDestroyJob
                           /\ k = "apply" => CreateApplyJob
    BY <1>3 DEF CreateDestroyJob, CreateUnlockJob, CreateApplyJob, Kinds
  <2> SUFFICES ASSUME lives = 1, ~overlap, ~overlap', InSight PROVE InSight'
    BY <2>1, <2>2 DEF CleanInv, SetJobs
  <2>3. /\ jobs' = [jobs EXCEPT ![k] = "pending"]
        /\ ~({"apply", "destroy"} \subseteq UnderWay')
    BY <2>1, <2>2 DEF SetJobs, UnderWay, Active
  <2>4. CASE k = "destroy"
    <3>1. obj.deleting /\ Exists /\ project.deleting /\ project.finalizer
          /\ configMap # "absent"
      BY <2>2, <2>4
         DEF CreateDestroyJob, DestroyTurn, Deleting, Sound, CopyInv
    <3>2. jobs'["destroy"] = "pending" /\ "apply" \notin UnderWay'
      BY <1>1, <2>3, <2>4 DEF UnderWay, Active, Kinds
    <3>3. QED
      BY <2>1, <3>1, <3>2 DEF InSight, Exists
  <2>5. CASE k = "apply"
    <3>1. /\ pc = "apply" /\ ~obj.deleting /\ Exists /\ project.finalizer
      BY <2>2, <2>5 DEF CreateApplyJob, ApplyTurn, Sound, CopyInv
    <3>2. jobs["destroy"] = "absent" /\ configMap # "absent"
      BY <3>1 DEF InSight
    <3>3. jobs'["destroy"] = "absent"
      BY <1>1, <2>3, <2>5, <3>2 DEF Kinds
    <3>4. QED
      BY <2>1, <3>1, <3>2, <3>3 DEF InSight, Exists
  <2>6. CASE k = "unlock"
    <3>1. /\ jobs'["destroy"] = jobs["destroy"]
          /\ "apply" \in UnderWay' <=> "apply" \in UnderWay
      BY <1>1, <2>1, <2>3, <2>6 DEF UnderWay, Active, Kinds
    <3>2. QED
      BY <2>1, <3>1 DEF InSight, Exists
  <2>7. QED
    BY <2>4, <2>5, <2>6 DEF Kinds
<1>4. QED
  BY <1>2, <1>3

LEMMA JobClean ==
    ASSUME Sound, CleanInv, NEW k \in Kinds,
           StartJob(k) \/ SucceedJob(k) \/ FailJob(k)
    PROVE  CleanInv'
<1>1. PICK state \in JobStates : JobChanges(k, state)
  BY DEF StartJob, SucceedJob, FailJob, JobStates
<1>2. /\ UNCHANGED <<project, configMap, ghosts, lives, pc, obj>>
      /\ jobs' = [jobs EXCEPT ![k] = state]
  BY <1>1 DEF JobChanges, SetJobs, boundVars, passVars
<1> SUFFICES ASSUME lives = 1, ~overlap, InSight PROVE InSight'
  BY <1>1, <1>2 DEF CleanInv, JobChanges, SetJobs
<1>3. jobs \in [Kinds -> JobStates] /\ jobs[k] \in {"pending", "running"}
  BY DEF StartJob, SucceedJob, FailJob, Active, Sound, TypeOK
<1>4. /\ "apply" \in UnderWay' => "apply" \in UnderWay
      /\ jobs'["destroy"] # "absent" => jobs["destroy"] # "absent"
  BY <1>2, <1>3 DEF UnderWay, Active, Kinds
<1>5. infra' # infra => \/ k = "apply" /\ "apply" \in UnderWay
                        \/ k = "destroy" /\ infra' = FALSE
  BY <1>3 DEF StartJob, SucceedJob, FailJob, UnderWay, Active, Kinds, Sound, TypeOK
<1>6. jobs'["destroy"] = "succeeded" =>
          jobs["destroy"] = "succeeded" \/ infra' = FALSE
  BY <1>2, <1>3 DEF StartJob, SucceedJob, FailJob, JobChanges, SetJobs, Kinds
<1>7. QED
  BY <1>2, <1>4, <1>5, <1>6 DEF InSight, Exists

LEMMA CollectClean ==
    ASSUME Sound, CleanInv, CollectConfigMap \/ \E k \in Kinds : CollectJob(k)
    PROVE  CleanInv'
<1>1. CASE CollectConfigMap
  <2>1. /\ configMap = "orphan" /\ configMap' = "absent"
        /\ UNCHANGED <<project, jobs, overlap, infra, lives, pc, obj>>
        /\ UnderWay' = UnderWay
    BY <1>1
       DEF CollectConfigMap, jobVars, worldVars, passVars, boundVars, UnderWay,
           Active
  <2>2. pc \in {"lock", "apply"} => Exists
    BY DEF Sound, CopyInv
  <2>3. QED
    BY <2>1, <2>2 DEF CleanInv, InSight, Exists
<1>2. ASSUME NEW k \in Kinds, CollectJob(k) PROVE CleanInv'
  <2>1. Kill({k}) /\ UNCHANGED <<project, configMap, lives, pc, obj>>
    BY <1>2 DEF CollectJob, passVars, boundVars
  <2>2. UNCHANGED <<project, configMap, lives>> /\ UNCHANGED <<pc, obj>>
    BY <2>1
  <2>3. QED
    BY <2>1, <2>2, KillClean
<1>3. QED
  BY <1>1, <1>2

\* An interrupted apply leaves resources, which the ConfigMap and the project are
\* still there to destroy.
LEMMA GhostClean ==
    ASSUME Sound, CleanInv, NEW k \in Kinds, EndGhost(k)
    PROVE  CleanInv'
<1>1. /\ UNCHANGED <<project, jobs, overlap, configMap, lives, pc, obj>>
      /\ k \in ghosts /\ ghosts' \subseteq ghosts
  BY DEF EndGhost, jobVars, passVars, boundVars
<1> SUFFICES ASSUME lives = 1, ~overlap, InSight PROVE InSight'
  BY <1>1 DEF CleanInv
<1>2. "apply" \in UnderWay' => "apply" \in UnderWay
  BY <1>1 DEF UnderWay, Active
<1>3. infra' # infra => infra' = FALSE \/ "apply" \in UnderWay
  BY <1>1 DEF EndGhost, UnderWay, Sound, TypeOK
<1>4. QED
  BY <1>1, <1>2, <1>3 DEF InSight, Exists

THEOREM InitClean == Init => CleanInv
<1>1. NewProjects \subseteq Projects
  BY NewProjectType
<1>2. QED
  BY <1>1, GoneAssumption DEF Init, CleanInv, InSight, UnderWay, Active, Exists, Kinds

THEOREM StepClean == Sound /\ CleanInv /\ [Next]_vars => CleanInv'
<1> SUFFICES ASSUME Sound, CleanInv, [Next]_vars PROVE CleanInv'
  OBVIOUS
<1>1. CASE Pass
  <2>1. CASE \/ CreateDestroyJob \/ CreateUnlockJob \/ CreateApplyJob
             \/ EnsureTFConfigMap
    BY <2>1, CreationClean
  <2>2. CASE DestroyStuck \/ KillActiveJobs \/ UnlockSucceeded
    BY <2>2, RemoveClean
  <2>3. CASE ReleaseWithoutDestroy \/ DestroySucceeded
    BY <2>3, ReleaseClean
  <2>4. QED
    BY <1>1, <2>1, <2>2, <2>3, PassBystands, BystanderStep
<1>2. CASE Cluster /\ ~TimePasses
  BY <1>2, JobClean, CollectClean, GhostClean DEF Cluster
<1>3. CASE CreateProject
  <2>1. lives' # 1
    BY <1>3 DEF CreateProject, Sound, TypeOK
  <2>2. QED
    BY <2>1 DEF CleanInv
<1>4. CASE Users /\ ~CreateProject
  BY <1>4, OthersBystand, BystanderStep DEF Users
<1>5. CASE CallFails \/ Restart \/ TimePasses \/ UNCHANGED vars
  BY <1>5, OthersBystand, BystanderStep
<1>6. QED
  BY <1>1, <1>2, <1>3, <1>4, <1>5 DEF Next

\* In its first life a project is gone only with its resources, unless an apply,
\* with its Job or without, was under way beside the destroy; the deletion of Jobs
\* by the operator, stuck destroys, faults and force-unlocks included.
THEOREM ReleaseIsClean == Spec => []ReleasedClean
<1>1. CleanInv => ReleasedClean
  BY DEF CleanInv, InSight, ReleasedClean
<1>2. Spec => []CleanInv
  BY InitClean, StepClean, SoundAlways, PTL DEF Spec
<1>3. QED
  BY <1>1, <1>2, PTL

-----------------------------------------------------------------------------
(***************************************************************************)
(* Expiry.                                                                 *)
(***************************************************************************)

\* Without a wakeup pending, the copy of a pass shows the stored TTL and moment
\* of expiry, and a pass past the expiry write has made the two agree.
ExpiryInv ==
    ~IgnoredErrors =>
        /\ pc = "idle" /\ ~queued /\ Exists /\ ~project.deleting
              => project.expiresAt = project.ttl
        /\ pc # "idle" /\ ~fresh => queued
        /\ pc # "idle" /\ fresh
              => obj.ttl = project.ttl /\ obj.expiresAt = project.expiresAt
        /\ pc \notin {"idle", "head"} /\ ~obj.deleting => obj.expiresAt = obj.ttl

\* p says the same as q of deletion and expiry.
SameExpiry(p, q) ==
    p.deleting = q.deleting /\ p.ttl = q.ttl /\ p.expiresAt = q.expiresAt

\* Most updates of one field leave expiry alone.
LEMMA ExpiryFields ==
    ASSUME NEW p \in Projects
    PROVE  /\ SameExpiry(p, p)
           /\ \A x \in Phases : SameExpiry([p EXCEPT !.phase = x], p)
           /\ \A x \in Phases, b \in BOOLEAN :
                 SameExpiry([p EXCEPT !.phase = x, !.applied = b], p)
           /\ \A b \in BOOLEAN :
                 /\ SameExpiry([p EXCEPT !.forceUnlock = b], p)
                 /\ SameExpiry([p EXCEPT !.finalizer = b], p)
BY DEF Projects, SameExpiry

\* A pass that ends without a write has passed the expiry write, deletes, or
\* comes back.
LEMMA ExpiryEnds ==
    ASSUME Sound, ExpiryInv, UNCHANGED project, queued => queued', EndPass,
           pc # "idle", pc # "head" \/ obj.deleting \/ queued'
    PROVE  ExpiryInv'
BY DEF Sound, CopyInv, ExpiryInv, EndPass, Exists

\* A pass that goes on leaves the head with the expiry known.
LEMMA ExpiryGoesOn ==
    ASSUME Sound, ExpiryInv, UNCHANGED project, queued => queued',
           NEW p, SameExpiry(p, obj), NEW step, GoOn(step, p), pc # "idle",
           step # "head" => pc # "head" \/ obj.deleting \/ ExpiryIsKnown,
           step # "idle"
    PROVE  ExpiryInv'
BY DEF ExpiryInv, SameExpiry, GoOn, ExpiryIsKnown

LEMMA ExpiryReports ==
    ASSUME Sound, ExpiryInv, UNCHANGED project, queued => queued',
           NEW x \in Phases, ThenReport(x), pc # "idle",
           pc # "head" \/ obj.deleting
    PROVE  ExpiryInv'
<1>1. SameExpiry([obj EXCEPT !.phase = x], obj)
  BY ExpiryFields DEF Sound, TypeOK
<1>2. GoOn("status", [obj EXCEPT !.phase = x])
  BY DEF ThenReport
<1>3. QED
  BY <1>1, <1>2, ExpiryGoesOn

\* A pass that writes the project, if it still can, and goes on with p.
LEMMA ExpiryWrites ==
    ASSUME Sound, ExpiryInv, ~IgnoredErrors, pc # "idle", NEW p, NEW step,
           GoOn(step, p), step # "idle", queued => queued',
           p.ttl = obj.ttl, p.deleting = obj.deleting,
           step # "head" => p.expiresAt = p.ttl,
           \/ ~fresh
           \/ /\ project'.ttl = project.ttl
              /\ project'.expiresAt = p.expiresAt
    PROVE  ExpiryInv'
BY DEF ExpiryInv, GoOn

LEMMA DeletionExpiry ==
    ASSUME Sound, ExpiryInv,
           \/ AwaitDeleteApproval \/ ReleaseWithoutDestroy \/ CreateDestroyJob
           \/ DestroyStillActive \/ DestroyStuck \/ DestroySucceeded
           \/ DestroyFailed
    PROVE  ExpiryInv'
<1>1. pc = "head" /\ obj.deleting
  BY DEF AwaitDeleteApproval, ReleaseWithoutDestroy, CreateDestroyJob,
         DestroyStillActive, DestroyStuck, DestroySucceeded, DestroyFailed,
         DestroyTurn, Deleting
<1>2. CASE ReleaseWithoutDestroy \/ DestroySucceeded
  BY <1>2 DEF ReleaseWithoutDestroy, DestroySucceeded, RemoveFinalizer, EndPass,
              ExpiryInv
<1>3. CASE ~ReleaseWithoutDestroy /\ ~DestroySucceeded
  <2>1. UNCHANGED project /\ (queued => queued')
    BY <1>3 DEF AwaitDeleteApproval, CreateDestroyJob, DestroyStillActive,
                DestroyAgain, DestroyStuck, DestroyFailed, OnlyPassMoves
  <2>2. \/ EndPass
        \/ \E x \in {"WaitingDeleteApproval", "Destroying", "DestroyFailed",
                     obj.phase} : ThenReport(x)
    BY <1>3 DEF AwaitDeleteApproval, CreateDestroyJob, DestroyStillActive,
                DestroyStuck, DestroyFailed
  <2>3. {"WaitingDeleteApproval", "Destroying", "DestroyFailed", obj.phase}
            \subseteq Phases
    BY DEF Phases, Sound, TypeOK, Projects
  <2>4. QED
    BY <1>1, <2>1, <2>2, <2>3, ExpiryEnds, ExpiryReports
<1>4. QED
  BY <1>2, <1>3

LEMMA HeadExpiry ==
    ASSUME Sound, ExpiryInv, ~IgnoredErrors,
           AddFinalizer \/ WriteExpiry \/ Expire \/ NotExpired
    PROVE  ExpiryInv'
<1>1. pc = "head" /\ ~obj.deleting /\ obj \in Projects
  BY DEF AddFinalizer, WriteExpiry, Expire, NotExpired, PastExpiryWrite, Sound,
         TypeOK
<1>2. fresh => project \in Projects
  BY <1>1 DEF Sound, CopyInv, TypeOK, Exists
<1>3. CASE AddFinalizer /\ fresh
  <2>1. /\ project' = [project EXCEPT !.finalizer = TRUE]
        /\ GoOn("head", [obj EXCEPT !.finalizer = TRUE])
        /\ queued => queued'
    BY <1>3 DEF AddFinalizer
  <2>2. /\ project'.ttl = project.ttl /\ project'.expiresAt = project.expiresAt
        /\ SameExpiry([obj EXCEPT !.finalizer = TRUE], obj)
    BY <1>1, <1>2, <1>3, <2>1, ExpiryFields DEF SameExpiry
  <2>3. obj.expiresAt = project.expiresAt
    BY <1>1, <1>3 DEF ExpiryInv
  <2>4. QED
    BY <1>1, <2>1, <2>2, <2>3, ExpiryWrites DEF SameExpiry
<1>4. CASE AddFinalizer /\ ~fresh
  BY <1>1, <1>4, ExpiryEnds DEF AddFinalizer
<1>5. CASE WriteExpiry
  <2> DEFINE o == [obj EXCEPT !.expiresAt = obj.ttl]
  <2>1. GoOn("head", o) /\ WriteInPass(o)
    BY <1>5 DEF WriteExpiry
  <2>2. o.ttl = obj.ttl /\ o.deleting = obj.deleting
    BY <1>1 DEF Projects
  <2> HIDE DEF o
  <2>3. queued => queued'
    BY <2>1 DEF WriteInPass
  <2>4. fresh => project'.ttl = project.ttl /\ project'.expiresAt = o.expiresAt
    BY <1>2, <2>1 DEF WriteInPass, WithStatus, Projects
  <2>5. QED
    BY <1>1, <2>1, <2>2, <2>3, <2>4, ExpiryWrites
<1>6. CASE Expire
  <2>1. Exists /\ project \in Projects
    BY <1>6 DEF Expire, PastExpiryWrite, Sound, CopyInv, TypeOK, Exists
  <2>2. project'.deleting /\ EndPass
    BY <1>6, <2>1 DEF Expire, Projects
  <2>3. QED
    BY <2>2 DEF ExpiryInv, EndPass
<1>7. CASE NotExpired
  <2>1. GoOn("body", obj) /\ UNCHANGED <<project, queued>> /\ ExpiryIsKnown
    BY <1>7 DEF NotExpired, PastExpiryWrite, OnlyPassMoves
  <2>2. QED
    BY <1>1, <2>1, ExpiryGoesOn, ExpiryFields
<1>8. QED
  BY <1>3, <1>4, <1>5, <1>6, <1>7

\* The passes past the head that write nothing of the project.
LEMMA BodyExpiry ==
    ASSUME Sound, ExpiryInv,
           \/ Suspended \/ KillActiveJobs \/ NothingToUnlock \/ CreateUnlockJob
           \/ UnlockStillActive \/ UnlockSucceeded \/ UnlockFailed
           \/ EnsureTFConfigMap \/ WaitForActiveJob \/ NoActiveJob
           \/ AlreadyApplied \/ CreateApplyJob \/ ApplySucceeded \/ ApplyFailed
    PROVE  ExpiryInv'
<1>1. pc \in {"body", "unlock", "lock", "apply"}
  BY DEF Suspended, KillActiveJobs, NothingToUnlock, CreateUnlockJob,
         UnlockStillActive, UnlockSucceeded, UnlockFailed, UnlockTurn,
         EnsureTFConfigMap, WaitForActiveJob, NoActiveJob, AlreadyApplied,
         CreateApplyJob, ApplySucceeded, ApplyFailed, ApplyTurn
<1>2. UNCHANGED project
  BY DEF Suspended, KillActiveJobs, NothingToUnlock, CreateUnlockJob,
         UnlockStillActive, UnlockSucceeded, UnlockFailed, EnsureTFConfigMap,
         WaitForActiveJob, NoActiveJob, AlreadyApplied, CreateApplyJob,
         ApplySucceeded, ApplyFailed, OnlyPassMoves
<1>3. queued => queued'
  <2>1. CASE KillActiveJobs
    BY <2>1 DEF KillActiveJobs, Sound, TypeOK
  <2>2. CASE EnsureTFConfigMap
    BY <2>2 DEF EnsureTFConfigMap, Sound, TypeOK
  <2>3. CASE ~KillActiveJobs /\ ~EnsureTFConfigMap
    BY <2>3
       DEF Suspended, NothingToUnlock, CreateUnlockJob, UnlockStillActive,
           UnlockSucceeded, UnlockFailed, WaitForActiveJob, NoActiveJob,
           AlreadyApplied, CreateApplyJob, ApplySucceeded, ApplyFailed
  <2>4. QED
    BY <2>1, <2>2, <2>3
<1>4. /\ obj \in Projects
      /\ {"", "Error", "Locked", "Running", "Suspended", "Succeeded",
          "ForceUnlocking"} \subseteq Phases
  BY DEF Phases, Sound, TypeOK
<1>5. CASE \/ KillActiveJobs \/ EnsureTFConfigMap \/ NoActiveJob
           \/ AlreadyApplied
  <2>1. \/ EndPass
        \/ \E step \in {"unlock", "lock", "apply"} : GoOn(step, obj)
    BY <1>5 DEF KillActiveJobs, EnsureTFConfigMap, NoActiveJob, AlreadyApplied
  <2>2. QED
    BY <1>1, <1>2, <1>3, <1>4, <2>1, ExpiryEnds, ExpiryGoesOn, ExpiryFields
<1>6. CASE Suspended \/ CreateUnlockJob \/ UnlockStillActive
           \/ WaitForActiveJob \/ CreateApplyJob
  <2>1. \/ EndPass
        \/ \E x \in {"Suspended", "ForceUnlocking", "Running"} : ThenReport(x)
    BY <1>6 DEF Suspended, CreateUnlockJob, UnlockStillActive,
                WaitForActiveJob, CreateApplyJob
  <2>2. QED
    BY <1>1, <1>2, <1>3, <1>4, <2>1, ExpiryEnds, ExpiryReports
<1>7. CASE NothingToUnlock \/ UnlockSucceeded \/ UnlockFailed \/ ApplyFailed
  <2>1. \E x \in {"", "Error", "Locked"}, step \in {"clear", "report"} :
            GoOn(step, [obj EXCEPT !.phase = x])
    BY <1>7 DEF NothingToUnlock, UnlockSucceeded, UnlockFailed, ApplyFailed
  <2>2. \A x \in {"", "Error", "Locked"} :
            SameExpiry([obj EXCEPT !.phase = x], obj)
    BY <1>4, ExpiryFields
  <2>3. QED
    BY <1>1, <1>2, <1>3, <2>1, <2>2, ExpiryGoesOn
<1>8. CASE ApplySucceeded
  <2> DEFINE o == [obj EXCEPT !.phase = "Succeeded", !.applied = TRUE]
  <2>1. GoOn("report", o)
    BY <1>8 DEF ApplySucceeded
  <2>2. SameExpiry(o, obj)
    BY <1>4, ExpiryFields
  <2> HIDE DEF o
  <2>3. QED
    BY <1>1, <1>2, <1>3, <2>1, <2>2, ExpiryGoesOn
<1>9. QED
  BY <1>5, <1>6, <1>7, <1>8

LEMMA WriterExpiry ==
    ASSUME Sound, ExpiryInv, ~IgnoredErrors,
           Resume \/ ClearForceUnlock \/ WriteStatus
    PROVE  ExpiryInv'
<1>1. pc \notin {"idle", "head"} /\ obj \in Projects
  BY DEF Resume, ClearForceUnlock, WriteStatus, Sound, TypeOK
<1>2. fresh => project \in Projects
  BY <1>1 DEF Sound, CopyInv, TypeOK, Exists
<1>3. "" \in Phases
  BY DEF Phases
<1>4. CASE Resume
  <2> DEFINE o == [obj EXCEPT !.phase = ""]
  <2>1. GoOn("body", o) /\ WriteInPass(o) /\ pc = "body"
    BY <1>4 DEF Resume
  <2>2. SameExpiry(o, obj)
    BY <1>1, <1>3, ExpiryFields
  <2> HIDE DEF o
  <2>3. queued => queued'
    BY <2>1 DEF WriteInPass
  <2>4. fresh => project'.ttl = project.ttl /\ project'.expiresAt = o.expiresAt
    BY <1>2, <2>1 DEF WriteInPass, WithStatus, Projects
  <2>5. obj.expiresAt = obj.ttl
    BY <2>1 DEF ExpiryInv, Sound, CopyInv
  <2>6. QED
    BY <1>1, <2>1, <2>2, <2>3, <2>4, <2>5, ExpiryWrites DEF SameExpiry
<1>5. CASE ClearForceUnlock
  <2> DEFINE o == [obj EXCEPT !.forceUnlock = FALSE]
  <2>1. GoOn("status", o) /\ pc = "clear"
    BY <1>5 DEF ClearForceUnlock
  <2>2. SameExpiry(o, obj)
    BY <1>1, ExpiryFields
  <2> HIDE DEF o
  <2>3. queued => queued'
    BY <1>5 DEF ClearForceUnlock, Wakes, Sound, TypeOK
  <2>4. fresh => project'.ttl = project.ttl /\ project'.expiresAt = project.expiresAt
    BY <1>2, <1>5 DEF ClearForceUnlock, Projects
  <2>5. fresh => obj.expiresAt = project.expiresAt
    BY <1>1 DEF ExpiryInv
  <2>6. obj.expiresAt = obj.ttl
    BY <2>1 DEF ExpiryInv, Sound, CopyInv
  <2>7. QED
    BY <1>1, <2>1, <2>2, <2>3, <2>4, <2>5, <2>6, ExpiryWrites DEF SameExpiry
<1>6. CASE WriteStatus
  <2>1. WriteInPass(obj) /\ EndPass
    BY <1>6 DEF WriteStatus
  <2>2. CASE fresh
    <3>1. /\ project'.deleting = project.deleting /\ project'.ttl = project.ttl
          /\ project'.expiresAt = obj.expiresAt
      BY <1>2, <2>1, <2>2 DEF WriteInPass, WithStatus, Projects
    <3>2. /\ obj.ttl = project.ttl
          /\ obj.deleting => project.deleting
          /\ ~obj.deleting => obj.expiresAt = obj.ttl
      BY <1>1, <2>2 DEF ExpiryInv, Sound, CopyInv
    <3>3. QED
      BY <2>1, <3>1, <3>2 DEF ExpiryInv, EndPass
  <2>3. CASE ~fresh
    <3>1. UNCHANGED <<project, queued>>
      BY <2>1, <2>3 DEF WriteInPass
    <3>2. QED
      BY <1>1, <2>1, <3>1, ExpiryEnds
  <2>4. QED
    BY <2>2, <2>3
<1>7. QED
  BY <1>4, <1>5, <1>6

LEMMA UsersExpiry == ASSUME Sound, ExpiryInv, Users PROVE ExpiryInv'
<1>1. CASE CreateProject
  BY <1>1 DEF CreateProject, Outdate, ExpiryInv
<1>2. CASE ~CreateProject
  <2>1. PICK p : UserWrites(p)
    BY <1>2 DEF Users, DeleteProject, ApproveDelete, SuspendOrResume, EditTTL,
                AskForceUnlock, UserCommand
  <2>2. /\ project' = p /\ fresh' = (fresh /\ (pc = "idle" \/ p = project))
        /\ queued' = (queued \/ p # project) /\ UNCHANGED <<pc, obj>>
    BY <2>1 DEF UserWrites, Outdate, Wakes
  <2>3. CASE p = project
    BY <2>2, <2>3 DEF ExpiryInv, Exists
  <2>4. CASE p # project
    BY <2>2, <2>4 DEF ExpiryInv
  <2>5. QED
    BY <2>3, <2>4
<1>3. QED
  BY <1>1, <1>2

THEOREM InitExpiry == Init => ExpiryInv
BY DEF Init, ExpiryInv

THEOREM StepExpiry == Sound /\ ExpiryInv /\ [Next]_vars => ExpiryInv'
<1> SUFFICES ASSUME Sound, ExpiryInv, [Next]_vars, ~IgnoredErrors
             PROVE  ExpiryInv'
  BY DEF ExpiryInv
<1>1. CASE StartPass \/ NotFound
  BY <1>1 DEF StartPass, NotFound, OnlyPassMoves, passVars, ExpiryInv, Exists
<1>2. CASE Pass /\ ~StartPass /\ ~NotFound
  BY <1>2, DeletionExpiry, HeadExpiry, BodyExpiry, WriterExpiry DEF Pass
<1>3. CASE CallFails \/ Restart
  BY <1>3 DEF CallFails, Restart, EndPass, ExpiryInv, Exists
<1>4. CASE Cluster \/ UNCHANGED vars
  <2>1. UNCHANGED <<project, pc, obj, fresh>>
    BY <1>4
       DEF Cluster, StartJob, SucceedJob, FailJob, CollectJob, JobChanges,
           EndGhost, CollectConfigMap, TimePasses, vars, passVars
  <2>2. \/ queued' = TRUE \/ queued' = queued
        \/ \E b \in BOOLEAN : queued' = (queued \/ b)
    BY <1>4
       DEF Cluster, StartJob, SucceedJob, FailJob, CollectJob, JobChanges,
           EndGhost, CollectConfigMap, TimePasses, vars, Reported, Sound, TypeOK
  <2>3. queued => queued'
    BY <2>2
  <2>4. QED
    BY <2>1, <2>3 DEF ExpiryInv, Exists
<1>5. CASE Users
  BY <1>5, UsersExpiry
<1>6. QED
  BY <1>1, <1>2, <1>3, <1>4, <1>5 DEF Next

\* However edits of the TTL, re-creations and failed calls fall between the
\* reads and the writes of a pass, a project at rest shows its expiry truly,
\* as long as the error of the write that shows it is not one the code drops.
THEOREM ExpiryReported == Spec => []ExpiryIsReported
<1>1. ExpiryInv => ExpiryIsReported
  BY DEF ExpiryInv, ExpiryIsReported
<1>2. Spec => []ExpiryInv
  BY InitExpiry, StepExpiry, SoundAlways, PTL DEF Spec
<1>3. QED
  BY <1>1, <1>2, PTL
=============================================================================
