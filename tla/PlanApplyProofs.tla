--------------------------- MODULE PlanApplyProofs ---------------------------
(***************************************************************************)
(* Theorems about PlanApply, for any number of configurations, any retry   *)
(* limit, any number of edits and faults and informers that may or may not *)
(* trail the API server.                                                   *)
(***************************************************************************)
EXTENDS PlanApply, TLAPS

-----------------------------------------------------------------------------
(***************************************************************************)
(* Type correctness.                                                       *)
(***************************************************************************)

\* A pass that is past its first read and has not reported yet works on a
\* valid configuration.
HashIsKnown == pc \in {"render", "lock", "decide", "approve"} => hash \in Configs

Typed == TypeOK /\ HashIsKnown

\* A project that nobody has touched is well typed.
LEMMA NewProjectType == NewProject \in Projects
<1>1. 0 \in 0 .. MaxRetries
  BY BoundsAssumption
<1>2. "" \in Phases /\ None \in ConfigsOrNone
  BY DEF Phases, ConfigsOrNone
<1>3. QED
  BY <1>1, <1>2 DEF NewProject, Projects

\* The handlers' updates of one field keep a project well typed.
LEMMA FieldTypes ==
    ASSUME NEW p \in Projects
    PROVE  /\ \A x \in Phases : [p EXCEPT !.phase = x] \in Projects
           /\ \A h \in ConfigsOrNone :
                 /\ [p EXCEPT !.approvedHash = h] \in Projects
                 /\ [p EXCEPT !.pendingPlanHash = h] \in Projects
BY DEF Projects

\* Storing a well-typed project keeps the store well typed.
LEMMA StoreType ==
    ASSUME TypeOK, NEW p \in Projects, Store(p)
    PROVE  /\ project' \in Projects /\ cache' \in Projects
           /\ rendered' \in ConfigsOrNone /\ current' \in BOOLEAN
BY DEF TypeOK, Store

\* So does setting the Jobs' states.
LEMMA SetJobsType ==
    ASSUME TypeOK, NEW f \in [JobNames -> JobStates], SetJobs(f)
    PROVE  jobs' \in [JobNames -> JobStates] /\ seen' \in [JobNames -> JobStates]
BY DEF TypeOK, SetJobs

\* The end of a pass leaves well-typed pass variables.
LEMMA EndPassType ==
    ASSUME EndPass
    PROVE  /\ pc' \in Steps /\ hash' \in ConfigsOrNone /\ obj' \in Projects
           /\ fresh' \in BOOLEAN /\ HashIsKnown'
BY NewProjectType DEF EndPass, Steps, ConfigsOrNone, HashIsKnown

\* So does turning to the report of a well-typed status.
LEMMA ThenReportType ==
    ASSUME TypeOK, NEW p \in Projects, ThenReport(p)
    PROVE  /\ pc' \in Steps /\ hash' \in ConfigsOrNone /\ obj' \in Projects
           /\ fresh' \in BOOLEAN /\ HashIsKnown'
BY DEF TypeOK, ThenReport, Steps, HashIsKnown

\* Deleting a Job keeps everything it touches well typed.
LEMMA RemoveType ==
    ASSUME TypeOK, NEW j \in JobNames, Remove(j)
    PROVE  /\ jobs' \in [JobNames -> JobStates] /\ seen' \in [JobNames -> JobStates]
           /\ mounted' \in [JobNames -> ConfigsOrNone]
           /\ faults' \in 0 .. MaxFaults
<1>1. [jobs EXCEPT ![j] = "absent"] \in [JobNames -> JobStates]
  BY DEF TypeOK, JobStates
<1>2. [mounted EXCEPT ![j] = None] \in [JobNames -> ConfigsOrNone]
  BY DEF TypeOK, ConfigsOrNone
<1>3. CASE UNCHANGED faults /\ SetJobs([jobs EXCEPT ![j] = "absent"])
           /\ mounted' = [mounted EXCEPT ![j] = None]
  BY <1>1, <1>2, <1>3, SetJobsType DEF TypeOK
<1>4. CASE faults < MaxFaults /\ faults' = faults + 1 /\ UNCHANGED jobVars
  BY <1>4, BoundsAssumption DEF TypeOK, jobVars
<1>5. QED
  BY <1>3, <1>4 DEF Remove

THEOREM InitTyped == Init => Typed
<1> SUFFICES ASSUME Init PROVE Typed
  OBVIOUS
<1>1. /\ 0 \in 0 .. MaxEdits /\ 0 \in 0 .. MaxFaults /\ 0 \in 0 .. AttemptCap
  BY BoundsAssumption
<1>2. /\ jobs \in [JobNames -> JobStates] /\ seen \in [JobNames -> JobStates]
      /\ mounted \in [JobNames -> ConfigsOrNone]
  BY DEF Init, JobStates, ConfigsOrNone
<1>3. QED
  BY <1>1, <1>2, NewProjectType
     DEF Init, Typed, TypeOK, HashIsKnown, ConfigsOrNone, Steps

LEMMA CreateTyped ==
    ASSUME Typed, NEW kind \in {"plan", "apply"}, hash \in Configs,
           NEW phase \in Phases, Create(kind, phase),
           attempts' \in 0 .. AttemptCap
    PROVE  Typed'
<1> DEFINE j == <<kind, hash>>
<1>1. j \in JobNames
  BY DEF JobNames
<1>2. UNCHANGED <<userVars, storeVars, configMap, mounted, faults, infra, granted>>
      /\ queued' = TRUE
  BY DEF Create
<1>3. CASE jobs[j] = "absent"
  <2>1. [jobs EXCEPT ![j] = "pending"] \in [JobNames -> JobStates]
    BY <1>1 DEF Typed, TypeOK, JobStates
  <2>2. jobs' \in [JobNames -> JobStates] /\ seen' \in [JobNames -> JobStates]
    BY <1>3, <2>1, SetJobsType DEF Create, Typed
  <2>3. [obj EXCEPT !.phase = phase] \in Projects
    BY FieldTypes DEF Typed, TypeOK
  <2>4. QED
    BY <1>2, <1>3, <2>2, <2>3, ThenReportType
       DEF Create, Typed, TypeOK, userVars, storeVars
<1>4. CASE jobs[j] # "absent"
  BY <1>2, <1>4, EndPassType DEF Create, Typed, TypeOK, userVars, storeVars
<1>5. QED
  BY <1>3, <1>4

LEMMA AwaitActiveTyped ==
    ASSUME Typed, NEW kind \in {"plan", "apply"}, hash \in Configs,
           NEW phase \in Phases, AwaitActive(kind, phase)
    PROVE  Typed'
<1> DEFINE j == <<kind, hash>>
<1>1. j \in JobNames
  BY DEF JobNames
<1>2. UNCHANGED <<userVars, storeVars, configMap, historyVars>> /\ queued' = TRUE
  BY DEF AwaitActive
<1>3. CASE ThenReport([obj EXCEPT !.phase = phase]) /\ UNCHANGED <<jobVars, faults>>
  <2>1. [obj EXCEPT !.phase = phase] \in Projects
    BY FieldTypes DEF Typed, TypeOK
  <2>2. QED
    BY <1>2, <1>3, <2>1, ThenReportType
       DEF Typed, TypeOK, userVars, storeVars, historyVars, jobVars
<1>4. CASE Remove(j) /\ ThenReport(obj)
  BY <1>1, <1>2, <1>4, RemoveType, ThenReportType
     DEF Typed, TypeOK, userVars, storeVars, historyVars
<1>5. QED
  BY <1>3, <1>4 DEF AwaitActive

\* A step that moves nothing but the pass, and leaves it well typed.
LEMMA OnlyPassMovesTyped ==
    ASSUME Typed, OnlyPassMoves, queued' \in BOOLEAN,
           pc' \in Steps, hash' \in ConfigsOrNone, obj' \in Projects,
           fresh' \in BOOLEAN, HashIsKnown'
    PROVE  Typed'
BY DEF Typed, TypeOK, OnlyPassMoves, userVars, storeVars, jobVars, historyVars

\* Such a step when it turns to the report of a well-typed status.
LEMMA OnlyReportTyped ==
    ASSUME Typed, OnlyPassMoves, queued' \in BOOLEAN,
           NEW p \in Projects, ThenReport(p)
    PROVE  Typed'
BY OnlyPassMovesTyped, ThenReportType DEF Typed

LEMMA PassTyped == Typed /\ Pass => Typed'
<1> SUFFICES ASSUME Typed, Pass PROVE Typed'
  OBVIOUS
<1> USE DEF Typed
<1>b. queued \in BOOLEAN
  BY DEF TypeOK
<1>p. \A x \in Phases : [obj EXCEPT !.phase = x] \in Projects
  BY FieldTypes DEF TypeOK
<1>1. CASE StartPass
  <2>1. pc' \in Steps /\ hash' \in ConfigsOrNone /\ obj' \in Projects
        /\ fresh' \in BOOLEAN /\ HashIsKnown'
    BY <1>1 DEF StartPass, TypeOK, Steps, HashIsKnown, ConfigsOrNone
  <2>2. QED
    BY <1>1, <2>1, OnlyPassMovesTyped DEF StartPass
<1>2. CASE StartInvalidPass
  <2>1. [cache EXCEPT !.phase = "Error"] \in Projects
    BY FieldTypes DEF TypeOK, Phases
  <2>2. pc' \in Steps /\ hash' \in ConfigsOrNone /\ obj' \in Projects
        /\ fresh' \in BOOLEAN /\ HashIsKnown'
    BY <1>2, <2>1 DEF StartInvalidPass, TypeOK, Steps, HashIsKnown
  <2>3. QED
    BY <1>2, <2>2, <1>b, OnlyPassMovesTyped DEF StartInvalidPass
<1>3. CASE EnsureTFConfigMap
  BY <1>3 DEF EnsureTFConfigMap, TypeOK, HashIsKnown, Steps, ConfigsOrNone,
              userVars, storeVars, jobVars, historyVars
<1>4. CASE WaitForActiveJob
  BY <1>4, <1>p, OnlyReportTyped DEF WaitForActiveJob, Phases
<1>5. CASE NoActiveJob
  <2>1. pc' \in Steps /\ HashIsKnown'
    BY <1>5 DEF NoActiveJob, Steps, HashIsKnown
  <2>2. QED
    BY <1>5, <2>1, OnlyPassMovesTyped DEF NoActiveJob, TypeOK
<1>6. CASE AlreadyApplied
  BY <1>6, <1>b, EndPassType, OnlyPassMovesTyped DEF AlreadyApplied
<1>7. CASE InvalidateApproval
  <2>1. [project EXCEPT !.approvedHash = None] \in Projects
        /\ [obj EXCEPT !.approvedHash = None] \in Projects
    BY FieldTypes DEF TypeOK, ConfigsOrNone
  <2>2. /\ project' \in Projects /\ cache' \in Projects
        /\ rendered' \in ConfigsOrNone /\ current' \in BOOLEAN
    BY <1>7, <2>1, StoreType DEF InvalidateApproval, TypeOK, storeVars
  <2>3. /\ pc' \in Steps /\ hash' \in ConfigsOrNone /\ obj' \in Projects
        /\ fresh' \in BOOLEAN /\ HashIsKnown'
    BY <1>7, <2>1, EndPassType DEF InvalidateApproval, TypeOK, Steps, HashIsKnown
  <2>4. queued' \in BOOLEAN
    BY <1>7, <1>b DEF InvalidateApproval, Wakes
  <2>5. QED
    BY <1>7, <2>2, <2>3, <2>4
       DEF InvalidateApproval, TypeOK, userVars, jobVars, historyVars
<1>8. CASE InvalidatePlan
  <2>1. [obj EXCEPT !.pendingPlanHash = None] \in Projects
    BY FieldTypes DEF TypeOK, ConfigsOrNone
  <2>2. /\ project' \in Projects /\ cache' \in Projects
        /\ rendered' \in ConfigsOrNone /\ current' \in BOOLEAN
        /\ queued' \in BOOLEAN
    BY <1>8, <1>b, <2>1, StoreType DEF InvalidatePlan, TypeOK, storeVars, Wakes
  <2>3. faults' \in 0 .. MaxFaults
    BY <1>8, BoundsAssumption DEF InvalidatePlan, TypeOK
  <2>4. QED
    BY <1>8, <2>1, <2>2, <2>3
       DEF InvalidatePlan, TypeOK, Steps, HashIsKnown, userVars, jobVars, historyVars
<1>9. CASE AwaitApproval
  BY <1>9, <1>b, EndPassType, OnlyPassMovesTyped DEF AwaitApproval
<1>h. ASSUME PastStalePlan PROVE hash \in Configs
  BY <1>h DEF PastStalePlan, HashIsKnown
<1>10. CASE CreatePlanJob
  BY <1>10, <1>h, CreateTyped
     DEF CreatePlanJob, PlanTurn, Unapproved, Phases, TypeOK
<1>11. CASE PlanStillActive
  BY <1>11, <1>h, AwaitActiveTyped DEF PlanStillActive, PlanTurn, Unapproved, Phases
<1>12. CASE PlanSucceeded
  <2>1. [obj EXCEPT !.pendingPlanHash = hash, !.phase = "WaitingApproval"] \in Projects
    BY DEF TypeOK, Projects, Phases
  <2>2. QED
    BY <1>12, <1>b, <2>1, OnlyReportTyped DEF PlanSucceeded
<1>13. CASE PlanAutoApproved
  <2>h. hash \in Configs
    BY <1>13, <1>h DEF PlanAutoApproved, PlanTurn, Unapproved
  <2>1. CASE UpdateAccepted
    <3>1. [project EXCEPT !.approvedHash = hash] \in Projects
      BY FieldTypes DEF TypeOK
    <3>2. PICK phase \in {"WaitingApproval", "ScheduledApply"} :
             ThenReport([obj EXCEPT
                      !.approvedHash = hash, !.phase = phase,
                      !.pendingPlanHash = IF project.pendingPlanHash = None
                                          THEN hash
                                          ELSE project.pendingPlanHash])
      BY <1>13, <2>1 DEF PlanAutoApproved
    <3>3. [obj EXCEPT !.approvedHash = hash, !.phase = phase,
                      !.pendingPlanHash = IF project.pendingPlanHash = None
                                          THEN hash
                                          ELSE project.pendingPlanHash] \in Projects
      BY DEF TypeOK, Projects, Phases
    <3>4. granted' \in SUBSET Configs
      BY <1>13, <2>1, <2>h DEF PlanAutoApproved, TypeOK
    <3>5. /\ project' \in Projects /\ cache' \in Projects
          /\ rendered' \in ConfigsOrNone /\ current' \in BOOLEAN
      BY <1>13, <2>1, <3>1, StoreType DEF PlanAutoApproved
    <3>6. QED
      BY <1>13, <3>2, <3>3, <3>4, <3>5, ThenReportType
         DEF PlanAutoApproved, TypeOK, userVars, jobVars
  <2>2. CASE ~UpdateAccepted
    BY <1>13, <2>2, EndPassType
       DEF PlanAutoApproved, TypeOK, userVars, storeVars, jobVars
  <2>3. QED
    BY <2>1, <2>2
<1>14. CASE PlanFailed
  BY <1>14, <1>b, <1>p, OnlyReportTyped DEF PlanFailed, Phases
<1>15. CASE OutsideWindow
  BY <1>15, <1>p, OnlyReportTyped DEF OutsideWindow, Phases
<1>a. ASSUME ApplyTurn PROVE hash \in Configs
  BY <1>a DEF ApplyTurn, PastStalePlan, HashIsKnown
<1>16. CASE CreateApplyJob
  <2>1. attempts' \in 0 .. AttemptCap
    BY <1>16, BoundsAssumption DEF CreateApplyJob, TypeOK
  <2>2. QED
    BY <1>16, <1>a, <2>1, CreateTyped DEF CreateApplyJob, Phases
<1>17. CASE ApplyStillActive
  BY <1>17, <1>a, AwaitActiveTyped DEF ApplyStillActive, Phases
<1>18. CASE ApplySucceeded
  <2>1. [obj EXCEPT
           !.phase = "Succeeded", !.lastAppliedHash = hash, !.retryCount = 0,
           !.pendingPlanHash = IF AutoApprove THEN @ ELSE None] \in Projects
    <3>1. 0 \in 0 .. MaxRetries /\ None \in ConfigsOrNone /\ "Succeeded" \in Phases
      BY BoundsAssumption DEF ConfigsOrNone, Phases
    <3>2. QED
      BY <3>1 DEF TypeOK, Projects
  <2>2. QED
    BY <1>18, <1>b, <2>1, OnlyReportTyped DEF ApplySucceeded
<1>19. CASE RetryApply
  <2>1. [obj EXCEPT !.phase = "Retrying", !.retryCount = @ + 1] \in Projects
    <3>1. obj.retryCount + 1 \in 0 .. MaxRetries
      BY <1>19, BoundsAssumption DEF RetryApply, RetriesLeft, TypeOK, Projects
    <3>2. "Retrying" \in Phases
      BY DEF Phases
    <3>3. QED
      BY <3>1, <3>2 DEF TypeOK, Projects
  <2>2. <<"apply", hash>> \in JobNames
    BY <1>19, <1>a DEF RetryApply, JobNames
  <2>3. QED
    BY <1>19, <2>1, <2>2, RemoveType, ThenReportType
       DEF RetryApply, TypeOK, userVars, storeVars, historyVars
<1>20. CASE ApplyFailed
  BY <1>20, <1>p, OnlyReportTyped DEF ApplyFailed, Phases
<1>21. CASE WriteStatus
  <2>1. /\ project' \in Projects /\ cache' \in Projects
        /\ rendered' \in ConfigsOrNone /\ current' \in BOOLEAN
        /\ queued' \in BOOLEAN
    BY <1>21, <1>b, StoreType DEF WriteStatus, TypeOK, storeVars, Wakes
  <2>2. QED
    BY <1>21, <2>1, EndPassType
       DEF WriteStatus, TypeOK, userVars, jobVars, historyVars
<1>22. QED
  BY <1>1, <1>2, <1>3, <1>4, <1>5, <1>6, <1>7, <1>8, <1>9, <1>10, <1>11, <1>12,
     <1>13, <1>14, <1>15, <1>16, <1>17, <1>18, <1>19, <1>20, <1>21 DEF Pass

\* A Job's own change keeps everything well typed.
LEMMA JobChangesType ==
    ASSUME Typed, NEW j \in JobNames, NEW state \in JobStates,
           JobChanges(j, state),
           mounted' \in [JobNames -> ConfigsOrNone], infra' \in ConfigsOrNone
    PROVE  Typed'
<1>1. [jobs EXCEPT ![j] = state] \in [JobNames -> JobStates]
  BY DEF Typed, TypeOK
<1>2. jobs' \in [JobNames -> JobStates] /\ seen' \in [JobNames -> JobStates]
  BY <1>1, SetJobsType DEF JobChanges, Typed
<1>3. queued' \in BOOLEAN
  BY FlagsAssumption DEF JobChanges
<1>4. QED
  BY <1>2, <1>3
     DEF JobChanges, Typed, TypeOK, HashIsKnown, userVars, storeVars, passVars

LEMMA ClusterTyped == Typed /\ Cluster => Typed'
<1> SUFFICES ASSUME Typed, NEW j \in JobNames,
                    StartJob(j) \/ SucceedJob(j) \/ FailJob(j)
             PROVE  Typed'
  BY DEF Cluster
<1> USE DEF Typed, JobStates
<1>1. CASE StartJob(j)
  <2>1. mounted' \in [JobNames -> ConfigsOrNone] /\ infra' \in ConfigsOrNone
    BY <1>1 DEF StartJob, TypeOK
  <2>2. QED
    BY <1>1, <2>1, JobChangesType DEF StartJob
<1>2. CASE SucceedJob(j)
  <2>1. mounted' \in [JobNames -> ConfigsOrNone] /\ infra' \in ConfigsOrNone
    BY <1>2 DEF SucceedJob, TypeOK
  <2>2. QED
    BY <1>2, <2>1, JobChangesType DEF SucceedJob
<1>3. CASE FailJob(j)
  <2>1. mounted' \in [JobNames -> ConfigsOrNone] /\ infra' \in ConfigsOrNone
    BY <1>3 DEF FailJob, TypeOK
  <2>2. QED
    BY <1>3, <2>1, JobChangesType DEF FailJob
<1>4. QED
  BY <1>1, <1>2, <1>3

LEMMA InformersTyped == Typed /\ Informers => Typed'
<1> SUFFICES ASSUME Typed, Informers PROVE Typed'
  OBVIOUS
<1>1. CASE SyncProject
  BY <1>1 DEF SyncProject, Typed, TypeOK, HashIsKnown, userVars, jobVars, passVars,
              historyVars
<1>2. ASSUME NEW j \in JobNames, SyncJob(j) PROVE Typed'
  BY <1>2 DEF SyncJob, Typed, TypeOK, HashIsKnown, userVars, storeVars, passVars,
              historyVars
<1>3. QED
  BY <1>1, <1>2 DEF Informers

LEMMA UsersTyped == Typed /\ Users => Typed'
<1> SUFFICES ASSUME Typed, Users PROVE Typed'
  OBVIOUS
<1> USE DEF Typed
<1>1. ASSUME NEW c \in ConfigsOrNone, NEW kind \in EditKinds, EditInputs(c, kind)
      PROVE  Typed'
  <2>1. edits' \in 0 .. MaxEdits
    BY <1>1, BoundsAssumption DEF EditInputs, TypeOK
  <2>2. fresh' \in BOOLEAN /\ queued' \in BOOLEAN
    BY <1>1 DEF EditInputs, Outdate
  <2>3. rendered' \in ConfigsOrNone /\ current' \in BOOLEAN
    BY <1>1 DEF EditInputs, TypeOK
  <2>4. QED
    BY <1>1, <2>1, <2>2, <2>3
       DEF EditInputs, TypeOK, HashIsKnown, jobVars, historyVars
<1>2. CASE ReviewPlan
  <2>1. reviewed' \in ConfigsOrNone
    BY <1>2 DEF ReviewPlan, TypeOK, Projects
  <2>2. QED
    BY <1>2, <2>1
       DEF ReviewPlan, TypeOK, HashIsKnown, storeVars, jobVars, passVars, historyVars
<1>3. CASE Approve
  <2>1. [project EXCEPT !.approvedHash = reviewed] \in Projects
    BY FieldTypes DEF TypeOK
  <2>2. /\ project' \in Projects /\ cache' \in Projects
        /\ rendered' \in ConfigsOrNone /\ current' \in BOOLEAN
    BY <1>3, <2>1, StoreType DEF Approve
  <2>3. granted' \in SUBSET Configs /\ reviewed' \in ConfigsOrNone
    BY <1>3 DEF Approve, TypeOK, ConfigsOrNone
  <2>4. fresh' \in BOOLEAN /\ queued' \in BOOLEAN
    BY <1>3 DEF Approve, Outdate
  <2>5. QED
    BY <1>3, <2>2, <2>3, <2>4 DEF Approve, TypeOK, HashIsKnown, jobVars
<1>4. QED
  BY <1>1, <1>2, <1>3 DEF Users

THEOREM StepTyped == Typed /\ [Next]_vars => Typed'
<1> SUFFICES ASSUME Typed, [Next]_vars PROVE Typed'
  OBVIOUS
<1>1. CASE PassFails
  <2>1. faults' \in 0 .. MaxFaults
    BY <1>1, BoundsAssumption DEF PassFails, Typed, TypeOK
  <2>2. QED
    BY <1>1, <2>1, EndPassType
       DEF PassFails, Typed, TypeOK, userVars, storeVars, jobVars, historyVars
<1>2. CASE StatusWriteLost
  <2>1. faults' \in 0 .. MaxFaults
    BY <1>2, BoundsAssumption DEF StatusWriteLost, Typed, TypeOK
  <2>2. QED
    BY <1>2, <2>1, EndPassType
       DEF StatusWriteLost, Typed, TypeOK, userVars, storeVars, jobVars, historyVars
<1>3. CASE UNCHANGED vars
  BY <1>3 DEF vars, Typed, TypeOK, HashIsKnown, userVars, storeVars, jobVars,
              passVars, historyVars
<1>4. QED
  BY <1>1, <1>2, <1>3, PassTyped, ClusterTyped, InformersTyped, UsersTyped DEF Next

\* Every reachable state is well typed; in particular the retry count never
\* passes spec.retryPolicy.maxRetries (handleApplyJobResult).
THEOREM TypeCorrect == Spec => []TypeOK
<1>1. Typed => TypeOK
  BY DEF Typed
<1>2. QED
  BY <1>1, InitTyped, StepTyped, PTL DEF Spec

-----------------------------------------------------------------------------
(***************************************************************************)
(* The evidence behind what is recorded.  An approval, a pending plan, a   *)
(* recorded apply are copied between the stored project, the informer's    *)
(* copy, the pass's copy and the user's terminal, each of which may be out *)
(* of date.  None of the copies is ever wrong about the past: the hash it  *)
(* names had a successful plan, an approval, a successful apply.  That is  *)
(* inductive because what the informer shows as succeeded stays so.        *)
(***************************************************************************)

SeenIsTrue ==
    /\ \A j \in JobNames : seen[j] = "succeeded" => jobs[j] = "succeeded"
    /\ ~JobLag => seen = jobs

Backed(p) ==
    /\ p.pendingPlanHash \in Configs => seen[<<"plan", p.pendingPlanHash>>] = "succeeded"
    /\ p.approvedHash \in Configs => p.approvedHash \in granted
    /\ p.lastAppliedHash \in Configs => seen[<<"apply", p.lastAppliedHash>>] = "succeeded"

Planned(h) == h \in Configs => seen[<<"plan", h>>] = "succeeded"

Evidence ==
    /\ Backed(project) /\ Backed(cache) /\ Backed(obj)
    /\ Planned(reviewed) /\ \A h \in granted : Planned(h)

ApplyIsGranted ==
    ~AutoApprove =>
        \A h \in Configs : jobs[<<"apply", h>>] # "absent" => h \in granted

IInv == Typed /\ SeenIsTrue /\ Evidence /\ ApplyIsGranted

\* What a step may do to the Jobs and to the informer's copy of them.
Created(j) ==
    /\ pc \in {"decide", "approve"} /\ pc' = "status" /\ j[2] = hash
    /\ jobs[j] = "absent" /\ seen[j] = "absent"
    /\ j[1] = "apply" /\ ~AutoApprove => obj.approvedHash = hash
    /\ SetJobs([jobs EXCEPT ![j] = "pending"])

Removed(j) ==
    /\ seen[j] \in {"pending", "running", "failed"}
    /\ SetJobs([jobs EXCEPT ![j] = "absent"])

Ran(j) ==
    /\ jobs[j] \in {"pending", "running"}
    /\ \E state \in {"running", "succeeded", "failed"} :
          SetJobs([jobs EXCEPT ![j] = state])

Synced(j) ==
    /\ JobLag
    /\ jobs' = jobs /\ seen' = [seen EXCEPT ![j] = jobs[j]]

JobsMove ==
    \/ UNCHANGED <<jobs, seen>>
    \/ \E j \in JobNames : Created(j) \/ Removed(j) \/ Ran(j) \/ Synced(j)

LEMMA CreateMoves ==
    ASSUME NEW kind \in {"plan", "apply"}, NEW phase, Create(kind, phase),
           hash \in Configs, pc \in {"decide", "approve"},
           kind = "apply" /\ ~AutoApprove => obj.approvedHash = hash
    PROVE  JobsMove
<1> DEFINE j == <<kind, hash>>
<1>1. j \in JobNames /\ j[1] = kind /\ j[2] = hash
  BY DEF JobNames
<1>2. CASE jobs[j] = "absent"
  <2>1. Created(j)
    BY <1>1, <1>2 DEF Create, Created, ThenReport
  <2>2. QED
    BY <1>1, <2>1 DEF JobsMove
<1>3. CASE jobs[j] # "absent"
  BY <1>3 DEF Create, JobsMove
<1>4. QED
  BY <1>2, <1>3

LEMMA RemoveMoves ==
    ASSUME NEW j \in JobNames, Remove(j), seen[j] \in {"pending", "running", "failed"}
    PROVE  JobsMove
BY DEF Remove, Removed, JobsMove, jobVars

LEMMA AwaitActiveMoves ==
    ASSUME NEW kind \in {"plan", "apply"}, NEW phase, AwaitActive(kind, phase)
    PROVE  JobsMove
<1> DEFINE j == <<kind, hash>>
<1>1. j \in JobNames /\ seen[j] \in {"pending", "running"}
  BY DEF AwaitActive, Active
<1>2. CASE Remove(j)
  BY <1>1, <1>2, RemoveMoves
<1>3. CASE UNCHANGED jobVars
  BY <1>3 DEF JobsMove, jobVars
<1>4. QED
  BY <1>2, <1>3 DEF AwaitActive

LEMMA StepMovesJobs == Typed /\ [Next]_vars => JobsMove
<1> SUFFICES ASSUME Typed, [Next]_vars PROVE JobsMove
  OBVIOUS
<1>p. ASSUME PastStalePlan PROVE hash \in Configs /\ pc \in {"decide", "approve"}
  BY <1>p DEF PastStalePlan, Typed, HashIsKnown
<1>a. ASSUME ApplyTurn
      PROVE  /\ hash \in Configs /\ pc \in {"decide", "approve"}
             /\ ~AutoApprove => obj.approvedHash = hash
  BY <1>a DEF ApplyTurn, PastStalePlan, Typed, HashIsKnown
<1>1. CASE CreatePlanJob
  BY <1>1, <1>p, CreateMoves DEF CreatePlanJob, PlanTurn, Unapproved
<1>2. CASE CreateApplyJob
  BY <1>2, <1>a, CreateMoves DEF CreateApplyJob
<1>3. CASE PlanStillActive \/ ApplyStillActive
  BY <1>3, AwaitActiveMoves DEF PlanStillActive, ApplyStillActive
<1>4. CASE RetryApply
  <2>1. <<"apply", hash>> \in JobNames
    BY <1>4, <1>a DEF RetryApply, JobNames
  <2>2. QED
    BY <1>4, <2>1, RemoveMoves DEF RetryApply
<1>5. ASSUME NEW j \in JobNames, StartJob(j) \/ SucceedJob(j) \/ FailJob(j)
      PROVE  JobsMove
  <2>1. Ran(j)
    BY <1>5 DEF StartJob, SucceedJob, FailJob, JobChanges, Active, Ran
  <2>2. QED
    BY <2>1 DEF JobsMove
<1>6. ASSUME NEW j \in JobNames, SyncJob(j) PROVE JobsMove
  <2>1. Synced(j)
    BY <1>6 DEF SyncJob, Synced
  <2>2. QED
    BY <2>1 DEF JobsMove
<1>7. CASE \/ StartPass \/ StartInvalidPass \/ EnsureTFConfigMap
           \/ WaitForActiveJob \/ NoActiveJob \/ AlreadyApplied
           \/ InvalidateApproval \/ InvalidatePlan \/ AwaitApproval
           \/ PlanSucceeded \/ PlanAutoApproved \/ PlanFailed \/ OutsideWindow
           \/ ApplySucceeded \/ ApplyFailed \/ WriteStatus
           \/ PassFails \/ StatusWriteLost \/ SyncProject \/ Users \/ UNCHANGED vars
  <2>1. UNCHANGED jobVars
    BY <1>7 DEF StartPass, StartInvalidPass, EnsureTFConfigMap, WaitForActiveJob,
       NoActiveJob, AlreadyApplied, InvalidateApproval, InvalidatePlan,
       AwaitApproval, PlanSucceeded, PlanAutoApproved, PlanFailed, OutsideWindow,
       ApplySucceeded, ApplyFailed, WriteStatus, PassFails, StatusWriteLost,
       SyncProject, Users, EditInputs, ReviewPlan, Approve, OnlyPassMoves, vars
  <2>2. QED
    BY <2>1 DEF JobsMove, jobVars
<1>8. QED
  BY <1>1, <1>2, <1>3, <1>4, <1>5, <1>6, <1>7 DEF Next, Pass, Cluster, Informers

\* What the informer shows is true, and what it shows as succeeded stays so.
LEMMA SeenStep ==
    ASSUME Typed, SeenIsTrue, JobsMove
    PROVE  /\ SeenIsTrue'
           /\ \A j \in JobNames : seen[j] = "succeeded" => seen'[j] = "succeeded"
<1>1. CASE UNCHANGED <<jobs, seen>>
  BY <1>1 DEF SeenIsTrue
<1>2. ASSUME NEW i \in JobNames, NEW state \in JobStates, seen[i] # "succeeded",
             SetJobs([jobs EXCEPT ![i] = state])
      PROVE  /\ SeenIsTrue'
             /\ \A j \in JobNames : seen[j] = "succeeded" => seen'[j] = "succeeded"
  BY <1>2 DEF SetJobs, SeenIsTrue, Typed, TypeOK
<1>3. ASSUME NEW i \in JobNames, Synced(i)
      PROVE  /\ SeenIsTrue'
             /\ \A j \in JobNames : seen[j] = "succeeded" => seen'[j] = "succeeded"
  BY <1>3 DEF Synced, SeenIsTrue, Typed, TypeOK
<1>4. ASSUME NEW i \in JobNames, Created(i) \/ Removed(i) \/ Ran(i)
      PROVE  /\ SeenIsTrue'
             /\ \A j \in JobNames : seen[j] = "succeeded" => seen'[j] = "succeeded"
  <2>1. seen[i] # "succeeded"
    BY <1>4 DEF Created, Removed, Ran, SeenIsTrue
  <2>2. PICK state \in JobStates : SetJobs([jobs EXCEPT ![i] = state])
    BY <1>4 DEF Created, Removed, Ran, JobStates
  <2>3. QED
    BY <1>2, <2>1, <2>2
<1>5. QED
  BY <1>1, <1>3, <1>4 DEF JobsMove

\* So whatever was backed by the past remains backed.
LEMMA EvidenceIsStable ==
    ASSUME Typed, SeenIsTrue, JobsMove, granted \subseteq granted'
    PROVE  /\ \A p \in Projects : Backed(p) => Backed(p)'
           /\ \A h \in ConfigsOrNone : Planned(h) => Planned(h)'
<1>1. \A h \in Configs : <<"plan", h>> \in JobNames /\ <<"apply", h>> \in JobNames
  BY DEF JobNames
<1>2. \A j \in JobNames : seen[j] = "succeeded" => seen'[j] = "succeeded"
  BY SeenStep
<1>3. QED
  BY <1>1, <1>2 DEF Backed, Planned

\* A step that copies projects around and grants nothing.
LEMMA CopiesStayBacked ==
    ASSUME IInv, JobsMove, UNCHANGED <<granted, reviewed>>,
           NEW p \in Projects, Backed(p),
           project' \in {project, p}, cache' \in {cache, project, p},
           NEW q \in Projects, Backed(q), obj' = q
    PROVE  Evidence'
<1>1. /\ project \in Projects /\ cache \in Projects
      /\ reviewed \in ConfigsOrNone /\ granted \subseteq ConfigsOrNone
  BY DEF IInv, Typed, TypeOK, ConfigsOrNone
<1>2. /\ \A x \in Projects : Backed(x) => Backed(x)'
      /\ \A h \in ConfigsOrNone : Planned(h) => Planned(h)'
  BY EvidenceIsStable DEF IInv
<1>3. Backed(project)' /\ Backed(cache)' /\ Backed(obj)'
  BY <1>1, <1>2 DEF Backed, IInv, Evidence
<1>4. Planned(reviewed)' /\ \A h \in granted' : Planned(h)'
  BY <1>1, <1>2 DEF Planned, IInv, Evidence
<1>5. QED
  BY <1>3, <1>4 DEF Evidence

\* A project whose hashes are all None, or whose phase alone is new.
LEMMA BackedFields ==
    /\ NewProject \in Projects /\ Backed(NewProject)
    /\ \A p \in Projects : Backed(p) =>
          /\ \A x \in Phases : [p EXCEPT !.phase = x] \in Projects
                               /\ Backed([p EXCEPT !.phase = x])
          /\ [p EXCEPT !.approvedHash = None] \in Projects
          /\ Backed([p EXCEPT !.approvedHash = None])
          /\ [p EXCEPT !.pendingPlanHash = None] \in Projects
          /\ Backed([p EXCEPT !.pendingPlanHash = None])
<1>1. None \notin Configs
  BY ConfigsAssumption
<1>2. NewProject \in Projects /\ Backed(NewProject)
  BY <1>1, NewProjectType DEF NewProject, Backed
<1>3. ASSUME NEW p \in Projects, Backed(p)
      PROVE  /\ \A x \in Phases : [p EXCEPT !.phase = x] \in Projects
                                  /\ Backed([p EXCEPT !.phase = x])
             /\ [p EXCEPT !.approvedHash = None] \in Projects
             /\ Backed([p EXCEPT !.approvedHash = None])
             /\ [p EXCEPT !.pendingPlanHash = None] \in Projects
             /\ Backed([p EXCEPT !.pendingPlanHash = None])
  BY <1>1, <1>3 DEF Projects, Backed, ConfigsOrNone
<1>4. QED
  BY <1>2, <1>3

\* The steps of a pass.
LEMMA PassKeepsEvidence == IInv /\ Pass => Evidence'
<1> SUFFICES ASSUME IInv, Pass PROVE Evidence'
  OBVIOUS
<1>m. JobsMove
  BY StepMovesJobs DEF IInv, Next
<1>o. /\ project \in Projects /\ cache \in Projects /\ obj \in Projects
      /\ Backed(project) /\ Backed(cache) /\ Backed(obj)
  BY DEF IInv, Typed, TypeOK, Evidence
<1>w. ASSUME NEW x \in Phases
      PROVE  [obj EXCEPT !.phase = x] \in Projects /\ Backed([obj EXCEPT !.phase = x])
  BY <1>o, BackedFields
<1>s. ASSUME UNCHANGED <<project, cache, granted, reviewed>>,
             NEW q \in Projects, Backed(q), obj' = q
      PROVE  Evidence'
  BY <1>s, <1>m, <1>o, CopiesStayBacked
<1>1. CASE StartPass
  BY <1>1, <1>o, <1>s
     DEF StartPass, OnlyPassMoves, userVars, storeVars, historyVars
<1>2. CASE StartInvalidPass
  <2>1. [cache EXCEPT !.phase = "Error"] \in Projects
        /\ Backed([cache EXCEPT !.phase = "Error"])
    BY <1>o, BackedFields DEF Phases
  <2>2. QED
    BY <1>2, <2>1, <1>s
       DEF StartInvalidPass, OnlyPassMoves, userVars, storeVars, historyVars
<1>3. CASE EnsureTFConfigMap \/ NoActiveJob
  BY <1>3, <1>o, <1>s DEF EnsureTFConfigMap, NoActiveJob, OnlyPassMoves, userVars,
                          storeVars, historyVars
<1>4. CASE AlreadyApplied \/ AwaitApproval
  BY <1>4, BackedFields, <1>s DEF AlreadyApplied, AwaitApproval, EndPass, OnlyPassMoves,
                          userVars, storeVars, historyVars
<1>5. CASE InvalidateApproval
  <2>1. /\ [obj EXCEPT !.approvedHash = None] \in Projects
        /\ Backed([obj EXCEPT !.approvedHash = None])
        /\ [project EXCEPT !.approvedHash = None] \in Projects
        /\ Backed([project EXCEPT !.approvedHash = None])
    BY <1>o, BackedFields
  <2>2. CASE UpdateAccepted
    BY <1>5, <2>1, <2>2, <1>m, CopiesStayBacked
       DEF InvalidateApproval, Store, userVars, historyVars
  <2>3. CASE ~UpdateAccepted
    BY <1>5, <2>3, <1>s, BackedFields
       DEF InvalidateApproval, EndPass, userVars, storeVars, historyVars
  <2>4. QED
    BY <2>2, <2>3
<1>6. CASE InvalidatePlan
  <2>1. /\ [obj EXCEPT !.pendingPlanHash = None] \in Projects
        /\ Backed([obj EXCEPT !.pendingPlanHash = None])
    BY <1>o, BackedFields
  <2>2. QED
    BY <1>6, <2>1, <1>m, CopiesStayBacked
       DEF InvalidatePlan, Store, userVars, storeVars, historyVars
<1>7. CASE \/ WaitForActiveJob \/ PlanFailed \/ OutsideWindow \/ ApplyFailed
  <2>1. PICK x \in Phases : obj' = [obj EXCEPT !.phase = x]
    BY <1>7 DEF WaitForActiveJob, PlanFailed, OutsideWindow, ApplyFailed,
                ThenReport, Phases
  <2>2. QED
    BY <1>7, <2>1, <1>w, <1>s DEF WaitForActiveJob, PlanFailed, OutsideWindow,
       ApplyFailed, OnlyPassMoves, userVars, storeVars, historyVars
<1>8. CASE CreatePlanJob \/ CreateApplyJob
  <2>1. \/ \E x \in Phases : obj' = [obj EXCEPT !.phase = x]
        \/ obj' = NewProject
    BY <1>8 DEF CreatePlanJob, CreateApplyJob, Create, ThenReport, EndPass, Phases
  <2>2. UNCHANGED <<project, cache, granted, reviewed>>
    BY <1>8 DEF CreatePlanJob, CreateApplyJob, Create, userVars, storeVars
  <2>3. QED
    BY <2>1, <2>2, <1>w, <1>s, BackedFields
<1>9. CASE PlanStillActive \/ ApplyStillActive
  <2>1. \/ \E x \in Phases : obj' = [obj EXCEPT !.phase = x]
        \/ obj' = obj
    BY <1>9 DEF PlanStillActive, ApplyStillActive, AwaitActive, ThenReport, Phases
  <2>2. UNCHANGED <<project, cache, granted, reviewed>>
    BY <1>9 DEF PlanStillActive, ApplyStillActive, AwaitActive, userVars, storeVars,
                historyVars
  <2>3. QED
    BY <2>1, <2>2, <1>w, <1>s, <1>o
<1>t. ASSUME PastStalePlan \/ ApplyTurn PROVE hash \in Configs
  BY <1>t DEF PastStalePlan, ApplyTurn, IInv, Typed, HashIsKnown
<1>10. CASE PlanSucceeded
  <2> DEFINE q == [obj EXCEPT !.pendingPlanHash = hash, !.phase = "WaitingApproval"]
  <2>1. q \in Projects /\ Backed(q)
    BY <1>10, <1>o, <1>t
       DEF PlanSucceeded, PlanTurn, Unapproved, Projects, Backed, Phases, ConfigsOrNone
  <2>2. QED
    BY <1>10, <2>1, <1>s DEF PlanSucceeded, ThenReport, OnlyPassMoves, userVars,
                             storeVars, historyVars
<1>11. CASE ApplySucceeded
  <2> DEFINE q == [obj EXCEPT
           !.phase = "Succeeded", !.lastAppliedHash = hash, !.retryCount = 0,
           !.pendingPlanHash = IF AutoApprove THEN @ ELSE None]
  <2>0. 0 \in 0 .. MaxRetries
    BY BoundsAssumption
  <2>1. q \in Projects
    BY <1>11, <1>o, <1>t, <2>0
       DEF ApplySucceeded, Projects, Phases, ConfigsOrNone
  <2>2. Backed(q)
    BY <1>11, <1>o, ConfigsAssumption
       DEF ApplySucceeded, ApplyIsDone, Projects, Backed
  <2>3. QED
    BY <1>11, <2>1, <2>2, <1>s DEF ApplySucceeded, ThenReport, OnlyPassMoves, userVars,
                             storeVars, historyVars
<1>12. CASE RetryApply
  <2> DEFINE q == [obj EXCEPT !.phase = "Retrying", !.retryCount = @ + 1]
  <2>1. q \in Projects
    <3>1. obj.retryCount + 1 \in 0 .. MaxRetries
      BY <1>12, <1>o, BoundsAssumption DEF RetryApply, RetriesLeft, Projects
    <3>2. QED
      BY <3>1, <1>o DEF Projects, Phases
  <2>2. Backed(q)
    BY <1>o DEF Projects, Backed
  <2>3. QED
    BY <1>12, <2>1, <2>2, <1>s DEF RetryApply, ThenReport, userVars, storeVars, historyVars
<1>13. CASE WriteStatus
  BY <1>13, <1>o, <1>m, BackedFields, CopiesStayBacked
     DEF WriteStatus, Store, EndPass, userVars, storeVars, historyVars
<1>14. CASE PlanAutoApproved
  <2>h. hash \in Configs /\ seen[<<"plan", hash>>] = "succeeded"
    BY <1>14, <1>t DEF PlanAutoApproved, PlanTurn, Unapproved
  <2>1. CASE ~UpdateAccepted
    BY <1>14, <2>1, <1>s, BackedFields
       DEF PlanAutoApproved, EndPass, userVars, storeVars
  <2>2. CASE UpdateAccepted
    <3>1. granted' = granted \cup {hash} /\ reviewed' = reviewed
      BY <1>14, <2>2 DEF PlanAutoApproved, userVars
    <3>2. /\ \A x \in Projects : Backed(x) => Backed(x)'
          /\ \A h \in ConfigsOrNone : Planned(h) => Planned(h)'
      BY <3>1, <1>m, EvidenceIsStable DEF IInv
    <3>3. seen'[<<"plan", hash>>] = "succeeded"
      BY <2>h, <1>m, SeenStep DEF IInv, JobNames
    <3>4. PICK x \in Phases : obj' = [obj EXCEPT
                      !.approvedHash = hash, !.phase = x,
                      !.pendingPlanHash = IF project.pendingPlanHash = None
                                          THEN hash
                                          ELSE project.pendingPlanHash]
      BY <1>14, <2>2 DEF PlanAutoApproved, ThenReport, Phases
    <3>5. project' = [project EXCEPT !.approvedHash = hash]
          /\ cache' \in {cache, project'}
      BY <1>14, <2>2 DEF PlanAutoApproved, Store
    <3>6. Backed(project)' /\ Backed(cache)'
      BY <3>1, <3>2, <3>5, <1>o DEF Backed, Projects
    <3>7. Backed(obj)'
      BY <3>1, <3>2, <3>3, <3>4, <1>o DEF Backed, Projects
    <3>8. Planned(reviewed)' /\ \A h \in granted' : Planned(h)'
      <4>1. reviewed \in ConfigsOrNone /\ granted \subseteq ConfigsOrNone
        BY DEF IInv, Typed, TypeOK, ConfigsOrNone
      <4>2. QED
        BY <3>1, <3>2, <3>3, <4>1 DEF Planned, IInv, Evidence
    <3>9. QED
      BY <3>6, <3>7, <3>8 DEF Evidence
  <2>3. QED
    BY <2>1, <2>2
<1>15. QED
  BY <1>1, <1>2, <1>3, <1>4, <1>5, <1>6, <1>7, <1>8, <1>9, <1>10, <1>11, <1>12,
     <1>13, <1>14 DEF Pass

\* Nothing takes back that a hash was approved.
LEMMA GrantedGrows == [Next]_vars => granted \subseteq granted'
<1> SUFFICES ASSUME [Next]_vars PROVE granted \subseteq granted'
  OBVIOUS
<1>1. CASE PlanAutoApproved
  BY <1>1 DEF PlanAutoApproved
<1>2. CASE CreatePlanJob \/ PlanStillActive \/ CreateApplyJob \/ ApplyStillActive
           \/ RetryApply
  BY <1>2 DEF CreatePlanJob, PlanStillActive, CreateApplyJob, ApplyStillActive,
              RetryApply, Create, AwaitActive, historyVars
<1>3. CASE Cluster
  BY <1>3 DEF Cluster, StartJob, SucceedJob, FailJob, JobChanges
<1>4. CASE Users
  BY <1>4 DEF Users, EditInputs, ReviewPlan, Approve, historyVars
<1>5. CASE \/ StartPass \/ StartInvalidPass \/ EnsureTFConfigMap
           \/ WaitForActiveJob \/ NoActiveJob \/ AlreadyApplied
           \/ InvalidateApproval \/ InvalidatePlan \/ AwaitApproval
           \/ PlanSucceeded \/ PlanFailed \/ OutsideWindow
           \/ ApplySucceeded \/ ApplyFailed \/ WriteStatus
           \/ PassFails \/ StatusWriteLost \/ Informers \/ UNCHANGED vars
  BY <1>5 DEF StartPass, StartInvalidPass, EnsureTFConfigMap, WaitForActiveJob,
     NoActiveJob, AlreadyApplied, InvalidateApproval, InvalidatePlan,
     AwaitApproval, PlanSucceeded, PlanFailed, OutsideWindow, ApplySucceeded,
     ApplyFailed, WriteStatus, PassFails, StatusWriteLost, Informers, SyncProject,
     SyncJob, OnlyPassMoves, historyVars, vars
<1>6. QED
  BY <1>1, <1>2, <1>3, <1>4, <1>5 DEF Next, Pass

LEMMA EvidenceStep == IInv /\ [Next]_vars => Evidence'
<1> SUFFICES ASSUME IInv, [Next]_vars PROVE Evidence'
  OBVIOUS
<1>m. JobsMove
  BY StepMovesJobs DEF IInv
<1>o. /\ project \in Projects /\ cache \in Projects /\ obj \in Projects
      /\ Backed(project) /\ Backed(cache) /\ Backed(obj)
  BY DEF IInv, Typed, TypeOK, Evidence
<1>f. /\ reviewed \in ConfigsOrNone /\ granted \subseteq ConfigsOrNone
  BY DEF IInv, Typed, TypeOK, ConfigsOrNone
<1>e. /\ \A x \in Projects : Backed(x) => Backed(x)'
      /\ \A h \in ConfigsOrNone : Planned(h) => Planned(h)'
  BY <1>m, GrantedGrows, EvidenceIsStable DEF IInv
<1>1. CASE Pass
  BY <1>1, PassKeepsEvidence
<1>2. CASE PassFails \/ StatusWriteLost
  BY <1>2, <1>o, <1>m, BackedFields, CopiesStayBacked
     DEF PassFails, StatusWriteLost, EndPass, userVars, storeVars, historyVars
<1>3. CASE Cluster \/ SyncProject \/ (\E j \in JobNames : SyncJob(j)) \/ UNCHANGED vars
  BY <1>3, <1>o, <1>m, CopiesStayBacked
     DEF Cluster, StartJob, SucceedJob, FailJob, JobChanges, SyncProject, SyncJob,
         userVars, storeVars, passVars, historyVars, vars
<1>4. ASSUME NEW c \in ConfigsOrNone, NEW kind \in EditKinds, EditInputs(c, kind)
      PROVE  Evidence'
  BY <1>4, <1>o, <1>m, CopiesStayBacked DEF EditInputs, historyVars
<1>5. CASE ReviewPlan
  <2>1. Planned(project.pendingPlanHash) /\ project.pendingPlanHash \in ConfigsOrNone
    BY <1>o DEF Backed, Planned, Projects
  <2>2. Planned(reviewed)' /\ \A h \in granted' : Planned(h)'
    BY <1>5, <1>e, <1>f, <2>1 DEF ReviewPlan, Planned, IInv, Evidence, historyVars
  <2>3. Backed(project)' /\ Backed(cache)' /\ Backed(obj)'
    BY <1>5, <1>e, <1>o DEF ReviewPlan, Backed, storeVars, passVars
  <2>4. QED
    BY <2>2, <2>3 DEF Evidence
<1>6. CASE Approve
  <2>1. granted' = granted \cup {reviewed} /\ reviewed' = None
    BY <1>6 DEF Approve
  <2>2. project' = [project EXCEPT !.approvedHash = reviewed]
        /\ cache' \in {cache, project'} /\ obj' = obj
    BY <1>6 DEF Approve, Store
  <2>3. Backed(project)' /\ Backed(cache)' /\ Backed(obj)'
    BY <1>e, <1>o, <2>1, <2>2 DEF Backed, Projects
  <2>4. Planned(reviewed)' /\ \A h \in granted' : Planned(h)'
    BY <1>e, <1>f, <2>1, ConfigsAssumption DEF Planned, IInv, Evidence
  <2>5. QED
    BY <2>3, <2>4 DEF Evidence
<1>7. QED
  BY <1>1, <1>2, <1>3, <1>4, <1>5, <1>6 DEF Next, Informers, Users

LEMMA GrantStep == IInv /\ [Next]_vars => ApplyIsGranted'
<1> SUFFICES ASSUME IInv, [Next]_vars, ~AutoApprove,
                    NEW h \in Configs, jobs'[<<"apply", h>>] # "absent"
             PROVE  h \in granted'
  BY DEF ApplyIsGranted
<1> DEFINE a == <<"apply", h>>
<1>1. a \in JobNames /\ granted \subseteq granted'
  BY GrantedGrows DEF JobNames
<1>2. CASE jobs[a] # "absent"
  BY <1>1, <1>2 DEF IInv, ApplyIsGranted
<1>3. CASE jobs[a] = "absent"
  <2>1. PICK j \in JobNames : Created(j) \/ Removed(j) \/ Ran(j) \/ Synced(j)
    BY <1>3, StepMovesJobs DEF IInv, JobsMove
  <2>2. Created(j) /\ j = a
    BY <1>1, <1>3, <2>1 DEF Created, Removed, Ran, Synced, SetJobs, IInv, Typed, TypeOK
  <2>3. obj.approvedHash = h
    BY <2>2 DEF Created
  <2>4. QED
    BY <1>1, <2>3 DEF IInv, Evidence, Backed
<1>4. QED
  BY <1>2, <1>3

THEOREM IInvInductive ==
    /\ Init => IInv
    /\ IInv /\ [Next]_vars => IInv'
<1>1. ASSUME Init PROVE IInv
  <2>1. None \notin Configs
    BY ConfigsAssumption
  <2>2. Evidence
    BY <1>1, <2>1, BackedFields DEF Init, Evidence, Planned
  <2>3. SeenIsTrue /\ ApplyIsGranted
    BY <1>1 DEF Init, SeenIsTrue, ApplyIsGranted, JobNames
  <2>4. QED
    BY <1>1, <2>2, <2>3, InitTyped DEF IInv
<1>2. ASSUME IInv, [Next]_vars PROVE IInv'
  <2>1. SeenIsTrue'
    BY <1>2, StepMovesJobs, SeenStep DEF IInv
  <2>2. QED
    BY <1>2, <2>1, StepTyped, EvidenceStep, GrantStep DEF IInv
<1>3. QED
  BY <1>1, <1>2

THEOREM Invariance == Spec => []IInv
BY IInvInductive, PTL DEF Spec

\* Without autoApprove an apply Job exists only for a configuration that was
\* planned successfully and approved, for any interleaving of passes, edits,
\* approvals, crashes, lost writes and trailing informers (reconcilePlanApprove,
\* createApplyAfterApproval).
THEOREM ApprovalRequired == Spec => []ApprovedBeforeApply
<1>1. ASSUME IInv PROVE ApprovedBeforeApply
  <2>1. \A h \in Configs : <<"plan", h>> \in JobNames
    BY DEF JobNames
  <2>2. QED
    BY <1>1, <2>1
       DEF IInv, ApprovedBeforeApply, ApplyIsGranted, Evidence, Planned, SeenIsTrue
<1>2. QED
  BY <1>1, Invariance, PTL

\* status.lastAppliedHash always names a configuration whose apply Job has
\* succeeded and still exists (handleApplyJobResult, createApplyAfterApproval).
THEOREM RecordBacked == Spec => []AppliedRecordIsBacked
<1>1. ASSUME IInv PROVE AppliedRecordIsBacked
  <2>1. \A h \in Configs : <<"apply", h>> \in JobNames
    BY DEF JobNames
  <2>2. QED
    BY <1>1, <2>1 DEF IInv, AppliedRecordIsBacked, Evidence, Backed, SeenIsTrue
<1>2. QED
  BY <1>1, Invariance, PTL
=============================================================================
