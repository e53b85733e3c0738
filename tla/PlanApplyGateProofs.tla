------------------------- MODULE PlanApplyGateProofs -------------------------
(***************************************************************************)
(* The plan-then-approve flow implements ApprovalGate.  A configuration's  *)
(* stage is read off the informer's copy of its Jobs and the approvals, so *)
(* a step that moves one Job, or that adds one approval, moves at most one *)
(* configuration, and the invariant IInv says from which stage.            *)
(***************************************************************************)
EXTENDS PlanApplyProofs

stage == [h \in Configs |-> GateOf(h)]

\* A step adds at most one approval, of a configuration that was planned, and
\* does not touch the Jobs when it does.
LEMMA GrantMoves ==
    ASSUME IInv, [Next]_vars
    PROVE  \/ UNCHANGED granted
           \/ /\ UNCHANGED <<jobs, seen>>
              /\ \E h \in Configs : /\ granted' = granted \cup {h}
                                    /\ seen[<<"plan", h>>] = "succeeded"
<1>1. CASE PlanAutoApproved
  <2>1. hash \in Configs /\ seen[<<"plan", hash>>] = "succeeded"
    BY <1>1 DEF PlanAutoApproved, PlanTurn, Unapproved, PastStalePlan, IInv, Typed,
                HashIsKnown
  <2>2. QED
    BY <1>1, <2>1 DEF PlanAutoApproved, jobVars
<1>2. CASE Approve
  <2>1. reviewed \in Configs
    BY <1>2 DEF Approve, IInv, Typed, TypeOK, ConfigsOrNone
  <2>2. seen[<<"plan", reviewed>>] = "succeeded"
    BY <2>1 DEF IInv, Evidence, Planned
  <2>3. QED
    BY <1>2, <2>1, <2>2 DEF Approve, jobVars
<1>3. CASE CreatePlanJob \/ PlanStillActive \/ CreateApplyJob \/ ApplyStillActive
           \/ RetryApply
  BY <1>3 DEF CreatePlanJob, PlanStillActive, CreateApplyJob, ApplyStillActive,
              RetryApply, Create, AwaitActive, historyVars
<1>4. CASE Cluster \/ ReviewPlan
  BY <1>4 DEF Cluster, StartJob, SucceedJob, FailJob, JobChanges, ReviewPlan,
              historyVars
<1>5. ASSUME NEW c \in ConfigsOrNone, NEW kind \in EditKinds, EditInputs(c, kind)
      PROVE  UNCHANGED granted
  BY <1>5 DEF EditInputs, historyVars
<1>6. CASE \/ StartPass \/ StartInvalidPass \/ EnsureTFConfigMap
           \/ WaitForActiveJob \/ NoActiveJob \/ AlreadyApplied
           \/ InvalidateApproval \/ InvalidatePlan \/ AwaitApproval
           \/ PlanSucceeded \/ PlanFailed \/ OutsideWindow
           \/ ApplySucceeded \/ ApplyFailed \/ WriteStatus
           \/ PassFails \/ StatusWriteLost \/ Informers \/ UNCHANGED vars
  BY <1>6 DEF StartPass, StartInvalidPass, EnsureTFConfigMap, WaitForActiveJob,
     NoActiveJob, AlreadyApplied, InvalidateApproval, InvalidatePlan,
     AwaitApproval, PlanSucceeded, PlanFailed, OutsideWindow, ApplySucceeded,
     ApplyFailed, WriteStatus, PassFails, StatusWriteLost, Informers, SyncProject,
     SyncJob, OnlyPassMoves, historyVars, vars
<1>7. QED
  BY <1>1, <1>2, <1>3, <1>4, <1>5, <1>6 DEF Next, Pass, Users

\* One configuration moves along the gate and the others stay: a gate step.
LEMMA OneMoves ==
    ASSUME NEW h \in Configs,
           \A g \in Configs \ {h} : GateOf(g)' = GateOf(g),
           \/ GateOf(h)' = GateOf(h)
           \/ GateOf(h) = "unplanned" /\ GateOf(h)' = "planned"
           \/ GateOf(h) = "planned" /\ GateOf(h)' = "approved"
           \/ GateOf(h) = "approved" /\ GateOf(h)' = "applying"
           \/ GateOf(h) = "applying" /\ GateOf(h)' = "approved"
           \/ GateOf(h) = "applying" /\ GateOf(h)' = "applied"
    PROVE  [Gate!GateNext]_stage
<1>1. stage[h] = GateOf(h)
  BY DEF stage
<1>2. stage' = [stage EXCEPT ![h] = GateOf(h)']
  BY DEF stage
<1>3. CASE GateOf(h)' = GateOf(h)
  <2>1. stage' = stage
    BY <1>3 DEF stage
  <2>2. QED
    BY <2>1
<1>4. CASE GateOf(h)' # GateOf(h)
  BY <1>1, <1>2, <1>4
     DEF stage, Gate!GateNext, Gate!Plan, Gate!Grant, Gate!Launch, Gate!Retry,
         Gate!Finish, Gate!Move
<1>5. QED
  BY <1>3, <1>4

\* A step that moves one Job.
LEMMA JobMovesGate ==
    ASSUME IInv, IInv', ~AutoApprove, UNCHANGED granted,
           NEW j \in JobNames, Created(j) \/ Removed(j) \/ Ran(j) \/ Synced(j)
    PROVE  [Gate!GateNext]_stage
<1>1. PICK kind \in {"plan", "apply"}, h \in Configs : j = <<kind, h>>
  BY DEF JobNames
<1> DEFINE p == <<"plan", h>>
           a == <<"apply", h>>
<1>2. p \in JobNames /\ a \in JobNames
  BY DEF JobNames
<1>t. /\ jobs \in [JobNames -> JobStates] /\ seen \in [JobNames -> JobStates]
      /\ ~JobLag => seen = jobs
  BY DEF IInv, Typed, TypeOK, SeenIsTrue
<1>3. \A i \in JobNames : i # j => jobs'[i] = jobs[i] /\ seen'[i] = seen[i]
  BY <1>t DEF Created, Removed, Ran, Synced, SetJobs
<1>4. \A g \in Configs \ {h} : GateOf(g)' = GateOf(g)
  <2>1. ASSUME NEW g \in Configs \ {h}
        PROVE  /\ <<"plan", g>> \in JobNames /\ <<"plan", g>> # j
               /\ <<"apply", g>> \in JobNames /\ <<"apply", g>> # j
    BY <1>1, <2>1 DEF JobNames
  <2>2. QED
    BY <1>3, <2>1 DEF GateOf
<1>f. /\ h \in granted => seen[p] = "succeeded"
      /\ jobs[a] # "absent" => h \in granted
      /\ seen[a] = "succeeded" => jobs[a] = "succeeded"
  BY <1>2 DEF IInv, Evidence, Planned, ApplyIsGranted, SeenIsTrue
<1>5. CASE j = p
  <2>1. jobs'[a] = jobs[a] /\ seen'[a] = seen[a]
    BY <1>2, <1>3, <1>5
  <2>2. seen[p] = "succeeded" => seen'[p] = "succeeded"
    BY <1>2, SeenStep DEF IInv, JobsMove
  <2>3. \/ GateOf(h)' = GateOf(h)
        \/ GateOf(h) = "unplanned" /\ GateOf(h)' = "planned"
    BY <2>1, <2>2 DEF GateOf
  <2>4. QED
    BY <1>4, <2>3, OneMoves
<1>6. CASE j = a
  <2>1. seen'[p] = seen[p]
    BY <1>2, <1>3, <1>6
  <2>2. CASE Created(j)
    <3>1. /\ jobs[a] = "absent" /\ seen[a] = "absent"
          /\ jobs'[a] = "pending" /\ seen'[a] # "succeeded"
      BY <1>2, <1>6, <1>t, <2>2 DEF Created, SetJobs
    <3>2. h \in granted
      BY <3>1 DEF IInv, ApplyIsGranted
    <3>3. GateOf(h) = "approved" /\ GateOf(h)' = "applying"
      BY <3>1, <3>2 DEF GateOf
    <3>4. QED
      BY <1>4, <3>3, OneMoves
  <2>3. CASE Removed(j)
    <3>1. seen[a] # "succeeded" /\ seen'[a] # "succeeded" /\ jobs'[a] = "absent"
      BY <1>2, <1>6, <1>t, <2>3 DEF Removed, SetJobs
    <3>2. \/ GateOf(h)' = GateOf(h)
          \/ GateOf(h) = "applying" /\ GateOf(h)' = "approved"
      BY <1>f, <2>1, <3>1 DEF GateOf
    <3>3. QED
      BY <1>4, <3>2, OneMoves
  <2>4. CASE Ran(j)
    <3>1. /\ jobs[a] # "absent" /\ jobs'[a] # "absent"
          /\ jobs[a] # "succeeded"
      BY <1>2, <1>6, <1>t, <2>4 DEF Ran, SetJobs
    <3>2. GateOf(h) = "applying" /\ GateOf(h)' \in {"applying", "applied"}
      BY <1>f, <3>1 DEF GateOf
    <3>3. QED
      BY <1>4, <3>2, OneMoves
  <2>5. CASE Synced(j)
    <3>1. jobs' = jobs /\ seen'[a] = jobs[a]
      BY <1>2, <1>6, <1>t, <2>5 DEF Synced
    <3>2. \/ GateOf(h)' = GateOf(h)
          \/ GateOf(h) = "applying" /\ GateOf(h)' = "applied"
      BY <1>f, <2>1, <3>1 DEF GateOf
    <3>3. QED
      BY <1>4, <3>2, OneMoves
  <2>6. QED
    BY <2>2, <2>3, <2>4, <2>5
<1>7. QED
  BY <1>1, <1>5, <1>6

LEMMA GateStep == ~AutoApprove /\ IInv /\ IInv' /\ [Next]_vars => [Gate!GateNext]_stage
<1> SUFFICES ASSUME ~AutoApprove, IInv, IInv', [Next]_vars
             PROVE  [Gate!GateNext]_stage
  OBVIOUS
<1>1. CASE UNCHANGED granted /\ UNCHANGED <<jobs, seen>>
  <2>1. stage' = stage
    BY <1>1 DEF stage, GateOf
  <2>2. QED
    BY <2>1
<1>2. CASE UNCHANGED granted /\ ~UNCHANGED <<jobs, seen>>
  BY <1>2, StepMovesJobs, JobMovesGate DEF IInv, JobsMove
<1>3. CASE ~UNCHANGED granted
  <2>1. PICK h \in Configs : /\ granted' = granted \cup {h}
                             /\ seen[<<"plan", h>>] = "succeeded"
                             /\ UNCHANGED <<jobs, seen>>
    BY <1>3, GrantMoves
  <2>2. h \notin granted
    BY <1>3, <2>1
  <2>3. \A g \in Configs \ {h} : GateOf(g)' = GateOf(g)
    BY <2>1 DEF GateOf
  <2>4. jobs[<<"apply", h>>] = "absent" /\ seen[<<"apply", h>>] # "succeeded"
    BY <2>2 DEF IInv, ApplyIsGranted, SeenIsTrue, JobNames
  <2>5. GateOf(h) = "planned" /\ GateOf(h)' = "approved"
    BY <2>1, <2>2, <2>4 DEF GateOf
  <2>6. QED
    BY <2>3, <2>5, OneMoves
<1>4. QED
  BY <1>1, <1>2, <1>3

\* The plan-then-approve flow implements the approval gate: whatever runs,
\* fails or is lost, a configuration goes from planned to approved to applying
\* to applied, and a failed apply goes back to approved (reconcilePlanApprove).
THEOREM GateImplemented ==
    ASSUME ~AutoApprove
    PROVE  Spec => ImplementsApprovalGate
<1>1. Init => Gate!GateInit
  <2> SUFFICES ASSUME Init PROVE Gate!GateInit
    OBVIOUS
  <2>1. \A h \in Configs : <<"plan", h>> \in JobNames /\ <<"apply", h>> \in JobNames
    BY DEF JobNames
  <2>2. \A h \in Configs : GateOf(h) = "unplanned"
    BY <2>1 DEF Init, GateOf
  <2>3. QED
    BY <2>2 DEF Gate!GateInit
<1>2. IInv /\ IInv' /\ [Next]_vars => [Gate!GateNext]_stage
  BY GateStep
<1>3. QED
  BY <1>1, <1>2, Invariance, PTL
     DEF Spec, ImplementsApprovalGate, Gate!GateSpec, stage
=============================================================================
