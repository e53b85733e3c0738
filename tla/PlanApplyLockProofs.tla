------------------------- MODULE PlanApplyLockProofs -------------------------
(***************************************************************************)
(* Three theorems about PlanApply that rest on what a pass knows when it   *)
(* acts: with a Job informer that keeps up the job lock admits one active  *)
(* Job, the controller never erases an approval it has not read, and it    *)
(* does not retry an apply more often than it counts.                      *)
(***************************************************************************)
EXTENDS PlanApplyProofs, FiniteSetTheorems

-----------------------------------------------------------------------------
(***************************************************************************)
(* The job lock.  It is looked at once, and Jobs are created later in the  *)
(* pass; meanwhile no other Job can appear, because only a pass creates    *)
(* Jobs and every pass that creates one is then over.                      *)
(***************************************************************************)

LockInv ==
    ~JobLag =>
        /\ pc \in {"decide", "approve"} => Active(jobs) = {}
        /\ \A i, j \in Active(jobs) : i = j

\* A pass gets past the lock only when the lock was free.
LEMMA PastLock ==
    ASSUME [Next]_vars, pc' \in {"decide", "approve"}
    PROVE  \/ pc \in {"decide", "approve"}
           \/ ~LockHeld /\ UNCHANGED <<jobs, seen>>
<1>1. CASE NoActiveJob
  BY <1>1 DEF NoActiveJob, OnlyPassMoves, jobVars
<1>2. CASE InvalidateApproval \/ InvalidatePlan
  BY <1>2 DEF InvalidateApproval, InvalidatePlan
<1>3. CASE \/ StartPass \/ StartInvalidPass \/ EnsureTFConfigMap
           \/ WaitForActiveJob \/ AlreadyApplied \/ AwaitApproval
           \/ CreatePlanJob \/ PlanStillActive \/ PlanSucceeded \/ PlanAutoApproved
           \/ PlanFailed \/ OutsideWindow
           \/ CreateApplyJob \/ ApplyStillActive \/ ApplySucceeded \/ RetryApply
           \/ ApplyFailed \/ WriteStatus \/ PassFails \/ StatusWriteLost
  <2>1. pc' \in {"idle", "status", "render", "lock"}
    BY <1>3 DEF StartPass, StartInvalidPass, EnsureTFConfigMap, WaitForActiveJob,
       AlreadyApplied, AwaitApproval, CreatePlanJob, PlanStillActive, PlanSucceeded,
       PlanAutoApproved, PlanFailed, OutsideWindow, CreateApplyJob, ApplyStillActive,
       ApplySucceeded, RetryApply, ApplyFailed, WriteStatus, PassFails,
       StatusWriteLost, Create, AwaitActive, ThenReport, EndPass
  <2>2. QED
    BY <2>1
<1>4. CASE Cluster \/ Informers \/ Users \/ UNCHANGED vars
  BY <1>4 DEF Cluster, StartJob, SucceedJob, FailJob, JobChanges, Informers,
     SyncProject, SyncJob, Users, EditInputs, ReviewPlan, Approve, passVars, vars
<1>5. QED
  BY <1>1, <1>2, <1>3, <1>4 DEF Next, Pass

LEMMA LockStep == IInv /\ LockInv /\ [Next]_vars => LockInv'
<1> SUFFICES ASSUME IInv, LockInv, [Next]_vars, ~JobLag
             PROVE  /\ pc' \in {"decide", "approve"} => Active(jobs') = {}
                    /\ \A i, j \in Active(jobs') : i = j
  BY DEF LockInv, Active
<1>0. seen = jobs /\ jobs \in [JobNames -> JobStates]
  BY DEF IInv, SeenIsTrue, Typed, TypeOK
<1>1. CASE UNCHANGED <<jobs, seen>>
  <2>1. pc' \in {"decide", "approve"} => Active(jobs) = {}
    BY <1>0, PastLock DEF LockInv, LockHeld
  <2>2. QED
    BY <1>1, <2>1 DEF LockInv
<1>2. ASSUME NEW j \in JobNames, Created(j)
      PROVE  /\ pc' \in {"decide", "approve"} => Active(jobs') = {}
             /\ \A i, k \in Active(jobs') : i = k
  <2>1. Active(jobs) = {} /\ pc' = "status"
    BY <1>2 DEF Created, LockInv
  <2>2. Active(jobs') = {j}
    BY <1>0, <1>2, <2>1 DEF Created, SetJobs, Active
  <2>3. QED
    BY <2>1, <2>2
<1>3. ASSUME NEW j \in JobNames, Removed(j) \/ Ran(j) \/ Synced(j)
      PROVE  /\ pc' \in {"decide", "approve"} => Active(jobs') = {}
             /\ \A i, k \in Active(jobs') : i = k
  <2>1. Active(jobs') \subseteq Active(jobs)
    BY <1>0, <1>3 DEF Removed, Ran, Synced, SetJobs, Active
  <2>2. \A i, k \in Active(jobs') : i = k
    BY <2>1 DEF LockInv
  <2>3. ASSUME pc' \in {"decide", "approve"} PROVE Active(jobs') = {}
    <3>1. CASE pc \in {"decide", "approve"}
      BY <2>1, <3>1 DEF LockInv
    <3>2. CASE ~LockHeld
      BY <1>0, <2>1, <3>2 DEF LockHeld
    <3>3. QED
      BY <2>3, <3>1, <3>2, PastLock
  <2>4. QED
    BY <2>2, <2>3
<1>4. QED
  BY <1>1, <1>2, <1>3, StepMovesJobs DEF IInv, JobsMove

\* While the Job informer keeps up, a project never has two active plan or
\* apply Jobs, whatever is edited, approved or lost meanwhile (checkJobLock).
THEOREM LockExcludes == Spec => []OneActiveJob
<1>1. Init => LockInv
  BY DEF Init, LockInv, Active
<1>2. ASSUME LockInv PROVE OneActiveJob
  <2> SUFFICES ASSUME ~JobLag PROVE Cardinality(Active(jobs)) <= 1
    BY DEF OneActiveJob
  <2>1. CASE Active(jobs) = {}
    BY <2>1, FS_EmptySet
  <2>2. CASE Active(jobs) # {}
    <3>1. PICK j : j \in Active(jobs)
      BY <2>2
    <3>2. Active(jobs) = {j}
      BY <1>2, <3>1 DEF LockInv
    <3>3. Cardinality({j}) = 1
      BY FS_Singleton, Zenon
    <3>4. QED
      BY <3>2, <3>3
  <2>3. QED
    BY <2>1, <2>2
<1>3. QED
  BY <1>1, <1>2, LockStep, IInvInductive, Invariance, PTL DEF Spec

-----------------------------------------------------------------------------
(***************************************************************************)
(* Approvals.  A pass may be working on an old copy of the project, but    *)
(* then the API server refuses its Update: an accepted write comes from a  *)
(* copy that holds the approval the write replaces.                        *)
(***************************************************************************)

CopyInv ==
    /\ current => cache = project
    /\ ~ProjectLag => current
    /\ pc # "idle" /\ fresh => obj.approvedHash = project.approvedHash

\* The API server's and the informer's side of a write.
LEMMA StoreKeepsCopy ==
    ASSUME CopyInv, NEW p, Store(p)
    PROVE  (current' => cache' = project') /\ (~ProjectLag => current')
BY DEF CopyInv, Store

LEMMA CopyStep == IInv /\ CopyInv /\ [Next]_vars => CopyInv'
<1> SUFFICES ASSUME IInv, CopyInv, [Next]_vars PROVE CopyInv'
  OBVIOUS
<1>t. project \in Projects /\ cache \in Projects /\ obj \in Projects
  BY DEF IInv, Typed, TypeOK
<1>1. CASE StartPass \/ StartInvalidPass
  BY <1>1, <1>t DEF StartPass, StartInvalidPass, OnlyPassMoves, storeVars, CopyInv,
                    Projects
<1>2. CASE EnsureTFConfigMap \/ NoActiveJob
  BY <1>2 DEF EnsureTFConfigMap, NoActiveJob, OnlyPassMoves, storeVars, CopyInv
<1>3. CASE AlreadyApplied \/ AwaitApproval \/ PassFails \/ StatusWriteLost
  BY <1>3 DEF AlreadyApplied, AwaitApproval, PassFails, StatusWriteLost, EndPass,
              OnlyPassMoves, storeVars, CopyInv
<1>4. CASE InvalidateApproval
  <2>1. CASE UpdateAccepted
    BY <1>4, <2>1, <1>t, StoreKeepsCopy DEF InvalidateApproval, Store, CopyInv, Projects
  <2>2. CASE ~UpdateAccepted
    BY <1>4, <2>2 DEF InvalidateApproval, EndPass, storeVars, CopyInv
  <2>3. QED
    BY <2>1, <2>2
<1>5. CASE InvalidatePlan
  <2> DEFINE p == [obj EXCEPT !.pendingPlanHash = None]
  <2>1. pc = "decide" /\ fresh' = fresh /\ obj' = p
    BY <1>5 DEF InvalidatePlan
  <2>2. CASE fresh /\ Store(p)
    <3>1. project' = p /\ p.approvedHash = obj.approvedHash
      BY <2>2, <1>t DEF Store, Projects
    <3>2. (current' => cache' = project') /\ (~ProjectLag => current')
      BY <2>2, StoreKeepsCopy
    <3>3. QED
      BY <2>1, <3>1, <3>2 DEF CopyInv
  <2>3. CASE UNCHANGED storeVars
    BY <2>1, <2>3, <1>t DEF storeVars, CopyInv, Projects
  <2>4. QED
    BY <1>5, <2>2, <2>3 DEF InvalidatePlan, storeVars
<1>6. CASE PlanAutoApproved
  <2>1. CASE UpdateAccepted
    <3>1. Store([project EXCEPT !.approvedHash = hash])
          /\ obj'.approvedHash = hash
      BY <1>6, <2>1, <1>t DEF PlanAutoApproved, ThenReport, Projects
    <3>2. project'.approvedHash = hash
      BY <3>1, <1>t DEF Store, Projects
    <3>3. QED
      BY <3>1, <3>2, StoreKeepsCopy DEF CopyInv
  <2>2. CASE ~UpdateAccepted
    BY <1>6, <2>2 DEF PlanAutoApproved, EndPass, storeVars, CopyInv
  <2>3. QED
    BY <2>1, <2>2
<1>7. CASE WaitForActiveJob \/ PlanSucceeded \/ PlanFailed \/ OutsideWindow
           \/ ApplySucceeded \/ ApplyFailed \/ RetryApply
  <2>1. obj'.approvedHash = obj.approvedHash /\ fresh' = fresh
        /\ UNCHANGED storeVars /\ pc # "idle"
    BY <1>7, <1>t DEF WaitForActiveJob, PlanSucceeded, PlanFailed, OutsideWindow,
       ApplySucceeded, ApplyFailed, RetryApply, ThenReport, OnlyPassMoves, Projects,
       PlanTurn, Unapproved, PastStalePlan, ApplyTurn
  <2>2. QED
    BY <2>1 DEF storeVars, CopyInv
<1>8. CASE CreatePlanJob \/ CreateApplyJob \/ PlanStillActive \/ ApplyStillActive
  <2>1. /\ pc' # "idle" => obj'.approvedHash = obj.approvedHash /\ fresh' = fresh
        /\ UNCHANGED storeVars /\ pc # "idle"
    BY <1>8, <1>t DEF CreatePlanJob, CreateApplyJob, PlanStillActive,
       ApplyStillActive, Create, AwaitActive, ThenReport, EndPass, Projects,
       PlanTurn, Unapproved, PastStalePlan, ApplyTurn
  <2>2. QED
    BY <2>1 DEF storeVars, CopyInv
<1>9. CASE WriteStatus
  <2>1. /\ current' => cache' = project'
        /\ ~ProjectLag => current'
    <3>1. CASE fresh
      BY <1>9, <3>1, StoreKeepsCopy DEF WriteStatus
    <3>2. CASE ~fresh
      BY <1>9, <3>2 DEF WriteStatus, storeVars, CopyInv
    <3>3. QED
      BY <3>1, <3>2
  <2>2. QED
    BY <1>9, <2>1 DEF WriteStatus, EndPass, CopyInv
<1>10. CASE Cluster \/ (\E j \in JobNames : SyncJob(j)) \/ ReviewPlan \/ UNCHANGED vars
  <2>1. UNCHANGED <<storeVars, passVars>>
    BY <1>10 DEF Cluster, StartJob, SucceedJob, FailJob, JobChanges, SyncJob,
                 ReviewPlan, vars
  <2>2. QED
    BY <2>1 DEF storeVars, passVars, CopyInv
<1>11. CASE SyncProject
  BY <1>11 DEF SyncProject, passVars, CopyInv
<1>12. ASSUME NEW c \in ConfigsOrNone, NEW kind \in EditKinds, EditInputs(c, kind)
       PROVE  CopyInv'
  BY <1>12 DEF EditInputs, Outdate, CopyInv
<1>13. CASE Approve
  BY <1>13, StoreKeepsCopy DEF Approve, Store, Outdate, CopyInv
<1>14. QED
  BY <1>1, <1>2, <1>3, <1>4, <1>5, <1>6, <1>7, <1>8, <1>9, <1>10, <1>11, <1>12,
     <1>13 DEF Next, Pass, Informers, Users

\* The controller erases only an approval that the pass erasing it has read: an
\* approval that arrives while a pass is under way is not lost with the stale
\* plan (invalidateStalePlan).
THEOREM ApprovalKept == Spec => ApprovalNotErasedUnseen
<1>1. Init => CopyInv
  BY DEF Init, CopyInv
<1>2. ASSUME IInv, CopyInv, [Next]_vars,
             project.approvedHash # None, project'.approvedHash = None
      PROVE  obj.approvedHash = project.approvedHash
  <2>t. project \in Projects /\ obj \in Projects
    BY <1>2 DEF IInv, Typed, TypeOK
  <2>1. CASE UNCHANGED project
    BY <1>2, <2>1
  <2>2. CASE InvalidateApproval \/ InvalidatePlan \/ WriteStatus
    BY <1>2, <2>2 DEF InvalidateApproval, InvalidatePlan, WriteStatus, UpdateAccepted,
                      storeVars, CopyInv
  <2>3. CASE PlanAutoApproved
    <3>1. hash # None
      BY <1>2, <2>3, ConfigsAssumption DEF PlanAutoApproved, PlanTurn, Unapproved,
         PastStalePlan, IInv, Typed, HashIsKnown
    <3>2. UNCHANGED project \/ project'.approvedHash = hash
      BY <2>3, <2>t DEF PlanAutoApproved, Store, storeVars, Projects
    <3>3. QED
      BY <1>2, <3>1, <3>2
  <2>4. CASE Approve
    BY <1>2, <2>4, <2>t DEF Approve, Store, Projects
  <2>5. CASE \/ StartPass \/ StartInvalidPass \/ EnsureTFConfigMap
             \/ WaitForActiveJob \/ NoActiveJob \/ AlreadyApplied \/ AwaitApproval
             \/ CreatePlanJob \/ PlanStillActive \/ PlanSucceeded
             \/ PlanFailed \/ OutsideWindow
             \/ CreateApplyJob \/ ApplyStillActive \/ ApplySucceeded \/ RetryApply
             \/ ApplyFailed \/ PassFails \/ StatusWriteLost
    BY <2>1, <2>5 DEF StartPass, StartInvalidPass, EnsureTFConfigMap, WaitForActiveJob,
       NoActiveJob, AlreadyApplied, AwaitApproval, CreatePlanJob, PlanStillActive,
       PlanSucceeded, PlanFailed, OutsideWindow, CreateApplyJob, ApplyStillActive,
       ApplySucceeded, RetryApply, ApplyFailed, PassFails, StatusWriteLost, Create,
       AwaitActive, OnlyPassMoves, storeVars
  <2>6. CASE Cluster \/ Informers \/ UNCHANGED vars \/ ReviewPlan
    BY <2>1, <2>6 DEF Cluster, StartJob, SucceedJob, FailJob, JobChanges, Informers,
       SyncProject, SyncJob, ReviewPlan, storeVars, vars
  <2>7. ASSUME NEW c \in ConfigsOrNone, NEW kind \in EditKinds, EditInputs(c, kind)
        PROVE  UNCHANGED project
    BY <2>7 DEF EditInputs
  <2>8. QED
    BY <1>2, <2>1, <2>2, <2>3, <2>4, <2>5, <2>6, <2>7 DEF Next, Pass, Users
<1>3. IInv /\ CopyInv /\ [Next]_vars =>
         (project.approvedHash # None /\ project'.approvedHash = None =>
              obj.approvedHash = project.approvedHash)
  BY <1>2
<1>4. QED
  BY <1>1, <1>3, CopyStep, Invariance, PTL DEF Spec, ApprovalNotErasedUnseen

-----------------------------------------------------------------------------
(***************************************************************************)
(* Retries.  With one configuration, a project whose informer keeps up and *)
(* no spec.resourceTimeout, an apply Job beyond the first is paid for by a *)
(* retry that the status counts, an edit or a fault.  A pass deletes the   *)
(* failed Job and counts the retry in its own copy; until that copy is     *)
(* stored the retry is not counted anywhere else, and it is never stored   *)
(* if somebody has changed the project meanwhile.                          *)
(***************************************************************************)

SoleConfig == Cardinality(Configs) = 1 /\ ~ProjectLag /\ ~StuckTimeout

ApplyJob == <<"apply", CHOOSE c \in Configs : TRUE>>
ApplyState == jobs[ApplyJob]

InPass == pc \in {"render", "lock", "decide", "approve"}
CanApply == AutoApprove \/ obj.approvedHash # None

\* No more apply Jobs than n, and one for every edit and every fault.
Within(n) == attempts <= n + edits + faults

\* A trailing informer shows a failure that was; nothing is created before it
\* has seen that Job go.
SeenFailures ==
    \A j \in JobNames : seen[j] = "failed" => jobs[j] \in {"failed", "absent"}

\* Nobody reviews plans of a project that is applied without asking.
NoReviews ==
    AutoApprove =>
        /\ reviewed = None
        /\ \A p \in {project, cache, obj} : p.pendingPlanHash = None

\* The copy holds the stored count until the pass reports, and then at least it.
CountCopied ==
    /\ InPass /\ fresh => obj.retryCount = project.retryCount
    /\ pc = "status" /\ fresh =>
          obj.retryCount >= project.retryCount \/ ApplyState = "succeeded"

\* The retry that only the pass's copy counts.
RetryUnstored ==
    /\ pc = "status" /\ fresh /\ CanApply
    /\ obj.retryCount = project.retryCount + 1
    /\ Within(1 + project.retryCount)

\* A Job that is there may be the first one.  If the project has changed under
\* a pass that may delete it, the edit has paid for the retry that gets lost.
RetryInv ==
    /\ Within(1 + MaxRetries)
    /\ ApplyState = "absent" => Within(project.retryCount) \/ RetryUnstored
    /\ ApplyState \notin {"absent", "succeeded"} =>
          /\ Within(1 + project.retryCount)
          /\ InPass /\ ~fresh /\ CanApply => Within(project.retryCount)

CountInv == CountCopied /\ RetryInv

LEMMA SeenFailuresStep == IInv /\ SeenFailures /\ [Next]_vars => SeenFailures'
<1> SUFFICES ASSUME IInv, SeenFailures, [Next]_vars
             PROVE  SeenFailures'
  OBVIOUS
<1>0. /\ jobs \in [JobNames -> JobStates] /\ seen \in [JobNames -> JobStates]
      /\ \A j \in JobNames : seen[j] = "succeeded" => jobs[j] = "succeeded"
  BY DEF IInv, Typed, TypeOK, SeenIsTrue
<1>1. CASE UNCHANGED <<jobs, seen>>
  BY <1>1 DEF SeenFailures
<1>2. ASSUME NEW j \in JobNames, Created(j) \/ Removed(j) \/ Ran(j) \/ Synced(j)
      PROVE  SeenFailures'
  BY <1>0, <1>2 DEF SeenFailures, Created, Removed, Ran, Synced, SetJobs
<1>3. QED
  BY <1>1, <1>2, StepMovesJobs DEF IInv, JobsMove

LEMMA NoReviewsStep == IInv /\ NoReviews /\ [Next]_vars => NoReviews'
<1> SUFFICES ASSUME IInv, NoReviews, [Next]_vars, AutoApprove
             PROVE  NoReviews'
  BY DEF NoReviews
<1>t. /\ project \in Projects /\ cache \in Projects /\ obj \in Projects
      /\ NewProject.pendingPlanHash = None /\ reviewed = None
      /\ project.pendingPlanHash = None /\ cache.pendingPlanHash = None
      /\ obj.pendingPlanHash = None
  BY DEF IInv, Typed, TypeOK, NewProject, NoReviews
<1>1. CASE \/ StartPass \/ StartInvalidPass \/ WaitForActiveJob \/ ApplySucceeded
           \/ ApplyFailed \/ RetryApply \/ OutsideWindow
  <2>1. UNCHANGED <<project, cache, reviewed>> /\ obj'.pendingPlanHash = None
    BY <1>t, <1>1 DEF StartPass, StartInvalidPass, WaitForActiveJob, ApplySucceeded,
       ApplyFailed, RetryApply, OutsideWindow, ThenReport, OnlyPassMoves, userVars,
       storeVars, Projects
  <2>2. QED
    BY <1>t, <2>1 DEF NoReviews
<1>2. CASE \/ EnsureTFConfigMap \/ NoActiveJob \/ AlreadyApplied \/ PassFails
           \/ StatusWriteLost
  <2>1. UNCHANGED <<project, cache, reviewed>> /\ obj'.pendingPlanHash = None
    BY <1>t, <1>2 DEF EnsureTFConfigMap, NoActiveJob, AlreadyApplied, PassFails,
       StatusWriteLost, EndPass, OnlyPassMoves, userVars, storeVars
  <2>2. QED
    BY <1>t, <2>1 DEF NoReviews
<1>3. CASE \/ InvalidateApproval \/ InvalidatePlan \/ AwaitApproval \/ CreatePlanJob
           \/ PlanStillActive \/ PlanSucceeded \/ PlanAutoApproved \/ PlanFailed
  BY <1>3 DEF InvalidateApproval, InvalidatePlan, AwaitApproval, CreatePlanJob,
     PlanStillActive, PlanSucceeded, PlanAutoApproved, PlanFailed, PlanTurn,
     Unapproved, PastStalePlan
<1>4. CASE CreateApplyJob \/ ApplyStillActive
  <2>1. UNCHANGED <<project, cache, reviewed>> /\ obj'.pendingPlanHash = None
    BY <1>t, <1>4 DEF CreateApplyJob, ApplyStillActive, Create, AwaitActive, ThenReport,
       EndPass, userVars, storeVars, Projects
  <2>2. QED
    BY <1>t, <2>1 DEF NoReviews
<1>5. CASE WriteStatus
  <2>1. project' \in {project, obj} /\ cache' \in {cache, obj} /\ reviewed' = reviewed
        /\ obj' = NewProject
    BY <1>5 DEF WriteStatus, Store, EndPass, userVars, storeVars
  <2>2. QED
    BY <1>t, <2>1 DEF NoReviews
<1>6. CASE Cluster \/ Informers \/ UNCHANGED vars
  <2>1. UNCHANGED <<project, reviewed, obj>> /\ cache' \in {cache, project}
    BY <1>6 DEF Cluster, StartJob, SucceedJob, FailJob, JobChanges, Informers,
       SyncProject, SyncJob, userVars, storeVars, passVars, vars
  <2>2. QED
    BY <1>t, <2>1 DEF NoReviews
<1>7. CASE ReviewPlan \/ Approve
  BY <1>t, <1>7 DEF ReviewPlan, Approve
<1>8. ASSUME NEW c \in ConfigsOrNone, NEW kind \in EditKinds, EditInputs(c, kind)
      PROVE  NoReviews'
  BY <1>t, <1>8 DEF EditInputs, NoReviews
<1>9. QED
  BY <1>1, <1>2, <1>3, <1>4, <1>5, <1>6, <1>7, <1>8 DEF Next, Pass, Users

LEMMA SoleHash ==
    ASSUME SoleConfig
    PROVE  /\ ApplyJob \in JobNames
           /\ \A c \in Configs : <<"apply", c>> = ApplyJob
           /\ \A c, d \in Configs : c = d
<1>1. PICK x : Configs = {x}
  BY ConfigsAssumption, FS_Singleton, Zenon DEF SoleConfig
<1>2. (CHOOSE c \in Configs : TRUE) = x
  BY <1>1
<1>3. QED
  BY <1>1, <1>2 DEF ApplyJob, JobNames

LEMMA CountTypes ==
    ASSUME IInv
    PROVE  /\ attempts \in Nat /\ edits \in Nat /\ faults \in Nat /\ MaxRetries \in Nat
           /\ fresh \in BOOLEAN /\ pc \in Steps
           /\ project \in Projects /\ cache \in Projects /\ obj \in Projects
           /\ \A p \in Projects : p.retryCount \in Nat /\ p.retryCount <= MaxRetries
<1>1. \A p \in Projects : p.retryCount \in 0 .. MaxRetries
  BY DEF Projects
<1>2. QED
  BY <1>1, BoundsAssumption DEF IInv, Typed, TypeOK

\* A step of a pass that counts nothing.
LEMMA QuietCounts ==
    ASSUME IInv, CountInv, UNCHANGED <<attempts, edits, faults>>,
           ApplyState' = ApplyState, project'.retryCount = project.retryCount,
           pc # "status",
           \/ pc' = "idle"
           \/ fresh' = TRUE /\ obj'.retryCount = project.retryCount
           \/ /\ InPass /\ fresh' = fresh
              /\ pc' = "status" \/ (InPass' /\ CanApply' = CanApply)
              /\ obj'.retryCount = obj.retryCount
                 \/ (pc' = "status" /\ ApplyState = "succeeded")
    PROVE  CountInv'
<1>1. CountCopied'
  BY CountTypes DEF CountInv, CountCopied, InPass
<1>2. \A n : Within(n)' <=> Within(n)
  BY DEF Within
<1>3. Within(1 + MaxRetries)'
  BY <1>2 DEF CountInv, RetryInv
<1>4. ApplyState' = "absent" => Within(project.retryCount)'
  BY <1>2 DEF CountInv, RetryInv, RetryUnstored, Within
<1>5. ASSUME ApplyState' \notin {"absent", "succeeded"}
      PROVE  /\ Within(1 + project.retryCount)'
             /\ InPass' /\ ~fresh' /\ CanApply' => Within(project.retryCount)'
  BY <1>5 DEF CountInv, RetryInv, Within, InPass
<1>6. QED
  BY <1>1, <1>3, <1>4, <1>5 DEF CountInv, RetryInv

\* A step beside the passes that leaves the project alone.
LEMMA JobCounts ==
    ASSUME IInv, CountInv, UNCHANGED <<attempts, edits, faults, project, pc, obj, fresh>>,
           \/ ApplyState' = ApplyState
           \/ /\ ApplyState \in {"pending", "running"}
              /\ ApplyState' \in {"running", "succeeded", "failed"}
    PROVE  CountInv'
<1>1. CountCopied'
  BY DEF CountInv, CountCopied, InPass
<1>2. RetryInv'
  BY DEF CountInv, RetryInv, RetryUnstored, Within, InPass, CanApply
<1>3. QED
  BY <1>1, <1>2 DEF CountInv

\* The pass is cut short: what it had counted is lost, and a fault is counted.
LEMMA LossCounts ==
    ASSUME IInv, CountInv, UNCHANGED <<attempts, edits, project>>, faults' = faults + 1,
           ApplyState' = ApplyState, pc' = "idle"
    PROVE  CountInv'
<1>1. CountCopied'
  BY DEF CountCopied, InPass
<1>2. RetryInv'
  BY CountTypes DEF CountInv, RetryInv, RetryUnstored, Within, InPass
<1>3. QED
  BY <1>1, <1>2 DEF CountInv

\* The first Job of a hash, or the next after a counted retry.
LEMMA CreationCounts ==
    ASSUME IInv, CountInv, UNCHANGED <<edits, faults, project, fresh>>,
           ApplyState = "absent", ApplyState' = "pending",
           attempts' \in {attempts, attempts + 1},
           InPass, pc' = "status", obj'.retryCount = obj.retryCount
    PROVE  CountInv'
<1>1. CountCopied'
  BY CountTypes DEF CountInv, CountCopied, InPass
<1>2. Within(project.retryCount)
  BY DEF CountInv, RetryInv, RetryUnstored, InPass
<1>3. Within(1 + project.retryCount)' /\ Within(1 + MaxRetries)'
  BY <1>2, CountTypes DEF Within
<1>4. QED
  BY <1>1, <1>3 DEF CountInv, RetryInv, InPass

\* A retry: the failed Job goes, or it does not and a fault is counted.
LEMMA RetryCounts ==
    ASSUME IInv, CountInv, SoleConfig, SeenFailures, RetryApply
    PROVE  CountInv'
<1>0. InPass /\ CanApply /\ <<"apply", hash>> = ApplyJob /\ ApplyJob \in JobNames
  <2>1. InPass /\ hash \in Configs
    BY DEF RetryApply, ApplyTurn, PastStalePlan, IInv, Typed, HashIsKnown, InPass
  <2>2. AutoApprove \/ obj.approvedHash = hash
    BY DEF RetryApply, ApplyTurn
  <2>3. QED
    BY <2>1, <2>2, SoleHash, ConfigsAssumption DEF CanApply
<1>1. ApplyState \in {"failed", "absent"}
  BY <1>0 DEF RetryApply, SeenFailures, ApplyState
<1>2. /\ UNCHANGED <<attempts, edits, project, fresh>> /\ pc' = "status"
      /\ obj'.retryCount = obj.retryCount + 1 /\ CanApply'
  BY <1>0, CountTypes DEF RetryApply, ThenReport, CanApply, Projects, userVars,
                          storeVars, historyVars
<1>3. CountCopied'
  BY <1>0, <1>2, CountTypes DEF CountInv, CountCopied, InPass
<1>4. CASE ApplyState' = "absent" /\ faults' = faults
  <2>1. Within(1 + project.retryCount)
        /\ (~fresh => Within(project.retryCount))
    BY <1>0, <1>1, CountTypes DEF CountInv, RetryInv, RetryUnstored, Within
  <2>2. fresh => obj'.retryCount = project.retryCount + 1
    BY <1>0, <1>2 DEF CountInv, CountCopied
  <2>3. RetryInv'
    BY <1>2, <1>4, <2>1, <2>2 DEF CountInv, RetryInv, RetryUnstored, Within
  <2>4. QED
    BY <1>3, <2>3 DEF CountInv
<1>5. CASE ApplyState' = ApplyState /\ faults' = faults + 1
  <2>1. Within(1 + project.retryCount) /\ Within(1 + MaxRetries)
        /\ (ApplyState = "absent" => Within(project.retryCount))
    BY <1>0, <1>1, CountTypes DEF CountInv, RetryInv, RetryUnstored, Within, InPass
  <2>2. RetryInv'
    BY <1>2, <1>5, <2>1, CountTypes DEF RetryInv, Within, InPass
  <2>3. QED
    BY <1>3, <2>2 DEF CountInv
<1>6. QED
  <2>1. Remove(ApplyJob)
    BY <1>0 DEF RetryApply
  <2>2. \/ jobs' = [jobs EXCEPT ![ApplyJob] = "absent"] /\ faults' = faults
        \/ jobs' = jobs /\ faults' = faults + 1
    BY <2>1 DEF Remove, SetJobs, jobVars
  <2>3. QED
    BY <1>0, <1>4, <1>5, <2>2 DEF ApplyState, IInv, Typed, TypeOK

\* The status is written, with the count of the pass, or refused.
LEMMA WriteCounts ==
    ASSUME IInv, CountInv, WriteStatus
    PROVE  CountInv'
<1>1. UNCHANGED <<attempts, edits, faults>> /\ ApplyState' = ApplyState
      /\ pc = "status" /\ pc' = "idle"
      /\ project' = IF fresh THEN obj ELSE project
  BY DEF WriteStatus, Store, EndPass, userVars, storeVars, jobVars, historyVars,
         ApplyState
<1>2. CountCopied'
  BY <1>1 DEF CountCopied, InPass
<1>3. RetryInv'
  <2>1. CASE fresh
    BY <1>1, <2>1, CountTypes
       DEF CountInv, CountCopied, RetryInv, RetryUnstored, Within, InPass
  <2>2. CASE ~fresh
    BY <1>1, <2>2 DEF CountInv, RetryInv, RetryUnstored, Within, InPass
  <2>3. QED
    BY <2>1, <2>2
<1>4. QED
  BY <1>2, <1>3 DEF CountInv

\* An edit is counted, and may make the copy of the running pass old.
LEMMA EditCounts ==
    ASSUME IInv, CountInv,
           NEW c \in ConfigsOrNone, NEW kind \in EditKinds, EditInputs(c, kind)
    PROVE  CountInv'
<1>1. UNCHANGED <<attempts, faults, project, pc, obj>> /\ ApplyState' = ApplyState
      /\ edits' = edits + 1 /\ (fresh' => fresh)
  BY DEF EditInputs, Outdate, jobVars, historyVars, ApplyState
<1>2. CountCopied'
  BY <1>1 DEF CountInv, CountCopied, InPass
<1>3. RetryInv'
  BY <1>1, CountTypes DEF CountInv, RetryInv, RetryUnstored, Within
<1>4. QED
  BY <1>2, <1>3 DEF CountInv

\* An approval makes old only the copy of a pass that finds none, and such a pass
\* neither applies nor retries.
LEMMA ApprovalCounts ==
    ASSUME IInv, CopyInv, NoReviews, CountInv, SoleConfig, Approve
    PROVE  CountInv'
<1>1. /\ UNCHANGED <<attempts, edits, faults, pc, obj>> /\ ApplyState' = ApplyState
      /\ project' = [project EXCEPT !.approvedHash = reviewed]
      /\ fresh' \in BOOLEAN /\ (fresh' => fresh)
      /\ fresh' # fresh => pc # "idle" /\ project' # project
  BY CountTypes DEF Approve, Store, Outdate, jobVars, ApplyState
<1>2. project'.retryCount = project.retryCount
  BY <1>1, CountTypes DEF Projects
<1>3. ASSUME fresh, ~fresh' PROVE ~CanApply
  <2>1. reviewed \in Configs /\ ~AutoApprove
    BY DEF Approve, NoReviews, IInv, Typed, TypeOK, ConfigsOrNone
  <2>2. project.approvedHash # reviewed /\ obj.approvedHash = project.approvedHash
    BY <1>1, <1>3, CountTypes DEF CopyInv, Projects
  <2>3. project.approvedHash \in ConfigsOrNone
    BY CountTypes DEF Projects
  <2>4. QED
    BY <2>1, <2>2, <2>3, SoleHash DEF CanApply, ConfigsOrNone
<1>4. CountCopied'
  BY <1>1, <1>2 DEF CountInv, CountCopied, InPass
<1>5. RetryInv'
  <2>1. CanApply' = CanApply
    BY <1>1 DEF CanApply
  <2>2. CASE fresh' = fresh
    BY <1>1, <1>2, <2>1, <2>2 DEF CountInv, RetryInv, RetryUnstored, Within, InPass
  <2>3. CASE fresh /\ ~fresh'
    BY <1>1, <1>2, <1>3, <2>1, <2>3 DEF CountInv, RetryInv, RetryUnstored, Within, InPass
  <2>4. QED
    BY <1>1, <2>2, <2>3, CountTypes
<1>6. QED
  BY <1>4, <1>5 DEF CountInv

\* A pass changes apply Jobs only where it applies, and without resourceTimeout
\* deletes them only where it retries.
LEMMA PassCounts ==
    ASSUME IInv, CopyInv, SeenFailures, CountInv, SoleConfig, Pass
    PROVE  CountInv'
<1>t. /\ project \in Projects /\ cache \in Projects /\ obj \in Projects
      /\ current /\ cache = project
  BY CountTypes DEF CopyInv, SoleConfig
<1>1. CASE StartPass \/ StartInvalidPass
  <2>1. /\ UNCHANGED <<attempts, edits, faults, project>> /\ ApplyState' = ApplyState
        /\ pc # "status" /\ fresh' = current /\ obj'.retryCount = cache.retryCount
    BY <1>t, <1>1 DEF StartPass, StartInvalidPass, OnlyPassMoves, userVars, storeVars,
                      jobVars, historyVars, ApplyState, Projects
  <2>2. fresh' = TRUE
    BY <1>t, <2>1 DEF IInv, Typed, TypeOK
  <2>3. QED
    BY <1>t, <2>1, <2>2, QuietCounts
<1>2. CASE EnsureTFConfigMap \/ NoActiveJob
  <2>1. /\ UNCHANGED <<attempts, edits, faults, project, obj, fresh>>
        /\ ApplyState' = ApplyState /\ InPass /\ InPass' /\ CanApply' = CanApply
        /\ pc # "status"
    BY <1>2 DEF EnsureTFConfigMap, NoActiveJob, OnlyPassMoves, userVars, storeVars,
                jobVars, historyVars, ApplyState, InPass, CanApply
  <2>2. QED
    BY <2>1, QuietCounts
<1>3. CASE AlreadyApplied \/ AwaitApproval
  <2>1. /\ UNCHANGED <<attempts, edits, faults, project>> /\ ApplyState' = ApplyState
        /\ pc # "status" /\ pc' = "idle"
    BY <1>3 DEF AlreadyApplied, AwaitApproval, Unapproved, PastStalePlan, EndPass,
                OnlyPassMoves, userVars, storeVars, jobVars, historyVars, ApplyState
  <2>2. QED
    BY <2>1, QuietCounts
<1>4. CASE InvalidateApproval \/ InvalidatePlan
  <2>1. hash \in Configs /\ obj.pendingPlanHash \in Configs /\ obj.pendingPlanHash # hash
    BY <1>t, <1>4 DEF InvalidateApproval, InvalidatePlan, PlanIsStale, IInv, Typed,
                      HashIsKnown, Projects, ConfigsOrNone
  <2>2. QED
    BY <2>1, SoleHash
<1>5. CASE WaitForActiveJob \/ PlanSucceeded \/ PlanFailed \/ OutsideWindow \/ ApplyFailed
  <2>1. /\ UNCHANGED <<attempts, edits, faults, project, fresh>>
        /\ ApplyState' = ApplyState
        /\ pc' = "status" /\ obj'.retryCount = obj.retryCount
    BY <1>t, <1>5 DEF WaitForActiveJob, PlanSucceeded, PlanFailed, OutsideWindow,
       ApplyFailed, ThenReport, OnlyPassMoves, userVars, storeVars, jobVars, historyVars,
       ApplyState, Projects
  <2>2. InPass /\ pc # "status"
    BY <1>5 DEF WaitForActiveJob, PlanSucceeded, PlanFailed, OutsideWindow, ApplyFailed,
       PlanTurn, Unapproved, ApplyTurn, PastStalePlan, InPass
  <2>3. QED
    BY <2>1, <2>2, QuietCounts
<1>6. CASE PlanAutoApproved
  <2>1. InPass /\ pc # "status"
    BY <1>6 DEF PlanAutoApproved, PlanTurn, Unapproved, PastStalePlan, InPass
  <2>2. /\ UNCHANGED <<attempts, edits, faults>> /\ ApplyState' = ApplyState
        /\ project'.retryCount = project.retryCount
    BY <1>t, <1>6 DEF PlanAutoApproved, Store, userVars, storeVars, jobVars, ApplyState,
                      Projects
  <2>3. \/ pc' = "idle"
        \/ pc' = "status" /\ fresh' = fresh /\ obj'.retryCount = obj.retryCount
    BY <1>t, <1>6 DEF PlanAutoApproved, ThenReport, EndPass, Projects
  <2>4. QED
    BY <2>1, <2>2, <2>3, QuietCounts
<1>7. CASE PlanStillActive \/ ApplyStillActive
  <2>1. InPass /\ pc # "status"
    BY <1>7 DEF PlanStillActive, ApplyStillActive, PlanTurn, Unapproved, ApplyTurn,
                PastStalePlan, InPass
  <2>2. /\ UNCHANGED <<attempts, edits, faults, project, fresh>>
        /\ ApplyState' = ApplyState
        /\ pc' = "status" /\ obj'.retryCount = obj.retryCount
    BY <1>t, <1>7 DEF PlanStillActive, ApplyStillActive, AwaitActive, SoleConfig,
       ThenReport, userVars, storeVars, jobVars, historyVars, ApplyState, Projects
  <2>3. QED
    BY <2>1, <2>2, QuietCounts
<1>8. CASE CreatePlanJob
  <2>1. InPass /\ pc # "status"
    BY <1>8 DEF CreatePlanJob, PlanTurn, Unapproved, PastStalePlan, InPass
  <2>2. /\ UNCHANGED <<attempts, edits, faults, project>>
        /\ \/ pc' = "idle"
           \/ pc' = "status" /\ fresh' = fresh /\ obj'.retryCount = obj.retryCount
    BY <1>t, <1>8 DEF CreatePlanJob, Create, ThenReport, EndPass, userVars, storeVars,
                      Projects
  <2>3. ApplyState' = ApplyState
    <3>1. ApplyJob # <<"plan", hash>>
      BY DEF ApplyJob
    <3>2. jobs' \in {jobs, [jobs EXCEPT ![<<"plan", hash>>] = "pending"]}
      BY <1>8 DEF CreatePlanJob, Create, SetJobs
    <3>3. QED
      BY <3>1, <3>2, SoleHash DEF ApplyState, IInv, Typed, TypeOK
  <2>4. QED
    BY <2>1, <2>2, <2>3, QuietCounts
<1>9. CASE CreateApplyJob
  <2>1. InPass /\ pc # "status" /\ <<"apply", hash>> = ApplyJob /\ ApplyJob \in JobNames
    <3>1. InPass /\ pc # "status" /\ hash \in Configs
      BY <1>9 DEF CreateApplyJob, ApplyTurn, PastStalePlan, InPass, IInv, Typed,
                  HashIsKnown
    <3>2. QED
      BY <3>1, SoleHash
  <2>2. UNCHANGED <<edits, faults, project>>
    BY <1>9 DEF CreateApplyJob, Create, userVars, storeVars
  <2>3. CASE ApplyState = "absent"
    <3>1. jobs' = [jobs EXCEPT ![ApplyJob] = "pending"]
      BY <1>9, <2>1, <2>3 DEF CreateApplyJob, Create, SetJobs, ApplyState
    <3>2. ApplyState' = "pending"
      BY <2>1, <3>1 DEF ApplyState, IInv, Typed, TypeOK
    <3>3. pc' = "status" /\ obj'.retryCount = obj.retryCount /\ fresh' = fresh
      BY <1>t, <1>9, <2>1, <2>3
         DEF CreateApplyJob, Create, ThenReport, ApplyState, Projects
    <3>4. attempts' \in {attempts, attempts + 1}
      BY <1>9 DEF CreateApplyJob
    <3>5. QED
      BY <2>1, <2>2, <2>3, <3>2, <3>3, <3>4, CreationCounts
  <2>4. CASE ApplyState # "absent"
    <3>1. pc' = "idle" /\ attempts' = attempts /\ ApplyState' = ApplyState
      BY <1>9, <2>1, <2>4 DEF CreateApplyJob, Create, EndPass, ApplyState
    <3>2. QED
      BY <2>1, <2>2, <3>1, QuietCounts
  <2>5. QED
    BY <2>3, <2>4
<1>10. CASE ApplySucceeded
  <2>1. InPass /\ pc # "status" /\ ApplyState = "succeeded"
    <3>1. InPass /\ pc # "status" /\ hash \in Configs
      BY <1>10 DEF ApplySucceeded, ApplyTurn, PastStalePlan, InPass, IInv, Typed,
                   HashIsKnown
    <3>2. QED
      BY <1>10, <3>1, SoleHash
         DEF ApplySucceeded, ApplyIsDone, IInv, SeenIsTrue, ApplyState
  <2>2. /\ UNCHANGED <<attempts, edits, faults, project, fresh>>
        /\ ApplyState' = ApplyState /\ pc' = "status"
    BY <1>10 DEF ApplySucceeded, ThenReport, OnlyPassMoves, userVars, storeVars, jobVars,
                 historyVars, ApplyState
  <2>3. QED
    BY <2>1, <2>2, QuietCounts
<1>11. QED
  BY <1>1, <1>2, <1>3, <1>4, <1>5, <1>6, <1>7, <1>8, <1>9, <1>10, RetryCounts,
     WriteCounts DEF Pass

LEMMA CountStep ==
    ASSUME IInv, CopyInv, SeenFailures, NoReviews, CountInv, SoleConfig, [Next]_vars
    PROVE  CountInv'
<1>1. CASE PassFails \/ StatusWriteLost
  BY <1>1, LossCounts DEF PassFails, StatusWriteLost, EndPass, userVars, storeVars,
                          jobVars, historyVars, ApplyState
<1>2. ASSUME NEW j \in JobNames, StartJob(j) \/ SucceedJob(j) \/ FailJob(j)
      PROVE  CountInv'
  <2>1. UNCHANGED <<attempts, edits, faults, project, pc, obj, fresh>>
    BY <1>2 DEF StartJob, SucceedJob, FailJob, JobChanges, userVars, storeVars, passVars
  <2>2. /\ jobs[j] \in {"pending", "running"}
        /\ \E s \in {"running", "succeeded", "failed"} : jobs' = [jobs EXCEPT ![j] = s]
    BY <1>2 DEF StartJob, SucceedJob, FailJob, JobChanges, Active, SetJobs
  <2>3. \/ ApplyState' = ApplyState
        \/ /\ ApplyState \in {"pending", "running"}
           /\ ApplyState' \in {"running", "succeeded", "failed"}
    BY <2>2, SoleHash DEF ApplyState, IInv, Typed, TypeOK
  <2>4. QED
    BY <2>1, <2>3, JobCounts
<1>3. CASE Informers \/ ReviewPlan \/ UNCHANGED vars
  <2>1. UNCHANGED <<attempts, edits, faults, project, pc, obj, fresh>>
        /\ ApplyState' = ApplyState
    BY <1>3 DEF Informers, SyncProject, SyncJob, ReviewPlan, userVars, storeVars, jobVars,
                passVars, historyVars, vars, ApplyState
  <2>2. QED
    BY <2>1, JobCounts
<1>4. QED
  BY <1>1, <1>2, <1>3, PassCounts, EditCounts, ApprovalCounts DEF Next, Cluster, Users

\* What is recorded of retries is not less than what was retried: with one
\* configuration, each apply beyond the first is a counted retry, or an edit or a
\* fault lost the count (handleApplyJobResult, updateStatusWithCondition), whatever
\* the order of conflicts, crashes, approvals and late reads of Jobs.
THEOREM RetriesCounted ==
    Spec => []((~ProjectLag /\ ~StuckTimeout) => RetriesAreCounted)
<1> DEFINE Inv == /\ IInv /\ CopyInv /\ SeenFailures /\ NoReviews
                  /\ SoleConfig => CountInv
<1>1. Init => Inv
  <2> SUFFICES ASSUME Init PROVE Inv
    OBVIOUS
  <2>1. IInv
    BY IInvInductive
  <2>2. CopyInv /\ SeenFailures /\ NoReviews
    <3>1. SeenFailures
      BY DEF Init, SeenFailures
    <3>2. CopyInv
      BY DEF Init, CopyInv
    <3>3. project = NewProject /\ cache = NewProject /\ obj = NewProject
          /\ reviewed = None /\ NewProject.pendingPlanHash = None
      BY DEF Init, NewProject
    <3>4. QED
      BY <3>1, <3>2, <3>3 DEF NoReviews
  <2>3. ASSUME SoleConfig PROVE CountInv
    <3>1. ApplyState = "absent"
      BY <2>3, SoleHash DEF Init, ApplyState
    <3>2. attempts = 0 /\ edits = 0 /\ faults = 0 /\ project.retryCount = 0
          /\ pc = "idle"
      BY DEF Init, NewProject
    <3>3. QED
      BY <3>1, <3>2, BoundsAssumption DEF CountInv, CountCopied, RetryInv, Within, InPass
  <2>4. QED
    BY <2>1, <2>2, <2>3
<1>2. Inv /\ [Next]_vars => Inv'
  <2> SUFFICES ASSUME Inv, [Next]_vars PROVE Inv'
    OBVIOUS
  <2>1. IInv' /\ CopyInv' /\ SeenFailures' /\ NoReviews'
    BY IInvInductive, CopyStep, SeenFailuresStep, NoReviewsStep
  <2>2. (SoleConfig => CountInv)'
    BY CountStep DEF SoleConfig
  <2>3. QED
    BY <2>1, <2>2
<1>3. Inv => ((~ProjectLag /\ ~StuckTimeout) => RetriesAreCounted)
  BY DEF SoleConfig, CountInv, RetryInv, Within, RetriesAreCounted
<1>4. QED
  BY <1>1, <1>2, <1>3, PTL DEF Spec
=============================================================================
