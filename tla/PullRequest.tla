---------------------------- MODULE PullRequest ----------------------------
(***************************************************************************)
(* Approval of a plan by merging a GitHub pull request: reconcilePlanApprove*)
(* of one project with spec.approval.mode githubPR, createApprovalPR,      *)
(* checkPRMergeStatus and closeStaleApprovalPR, beside people who merge    *)
(* and close pull requests.                                                *)
(*                                                                         *)
(* GitHub tells the operator nothing: an open pull request is polled.  It  *)
(* is external; it refuses a second open pull request from one branch, and *)
(* closes the open one of a branch that is deleted.  Each configuration    *)
(* has a branch of its own (prBranchName).                                 *)
(*                                                                         *)
(* As in PlanApply a pass is one action per stretch of code that ends in a *)
(* write, and works on the copy obj that it read.  The informers keep up   *)
(* here (PlanApply lets them trail).                                       *)
(*                                                                         *)
(* Not here: kubectl approve, thresholds, schedules, retries and pods      *)
(* (PlanApply).                                                            *)
(***************************************************************************)
EXTENDS Naturals, Sequences

CONSTANTS
    Configs,     \* configurations the inputs can have
    None,        \* no configuration
    Annotated,   \* the project carries other annotations
    GitHubFails, \* GitHub calls that may fail: "get", "close", "create"
    MaxEdits,    \* bound: edits, and pull requests closed without a merge
    MaxFaults,   \* bound: failing calls, operator restarts inside a pass
    MaxPRs       \* bound: pull requests ever opened

ASSUME PullRequestAssumption ==
    /\ None \notin Configs /\ Annotated \in BOOLEAN
    /\ GitHubFails \subseteq {"get", "close", "create"}
    /\ MaxEdits \in Nat /\ MaxFaults \in Nat /\ MaxPRs \in Nat

VARIABLES
    config,        \* the configuration the inputs have
    project,       \* the stored approval annotation and status
    plans, applies,\* the state of the plan and apply Job of each configuration
    prs,           \* the pull requests on GitHub, in the order of their numbers
    queued,        \* the project's key is in the work queue, now or by a timer
    pc, obj, fresh,
    wanted,        \* the configuration the running pass computed
    lost,          \* history: the last status write of the last pass was lost
    edits, faults,
    openFailed,    \* history: a pull request could not be opened
    mislaid        \* history: one was opened or left open that no status names

jobVars == <<plans, applies>>
passVars == <<pc, obj, fresh, wanted, lost>>
boundVars == <<edits, faults>>
historyVars == <<openFailed, mislaid>>
vars == <<config, project, jobVars, prs, queued, passVars, boundVars, historyVars>>

-----------------------------------------------------------------------------
JobStates == {"absent", "active", "succeeded", "failed"}
Projects == [approved : Configs \cup {None}, applied : Configs \cup {None},
             planHash : Configs \cup {None}, pr : 0 .. MaxPRs,
             phase : {"", "Running", "Planning", "WaitingApproval",
                      "PlanRejected", "Succeeded", "Error"}]
NewProject == [approved |-> None, applied |-> None, planHash |-> None, pr |-> 0,
               phase |-> ""]

TypeOK ==
    /\ config \in Configs /\ wanted \in Configs \cup {None}
    /\ project \in Projects /\ obj \in Projects
    /\ plans \in [Configs -> JobStates] /\ applies \in [Configs -> JobStates]
    /\ prs \in Seq([head : Configs, state : {"open", "closed", "merged"}])
    /\ Len(prs) <= MaxPRs
    /\ queued \in BOOLEAN /\ fresh \in BOOLEAN /\ lost \in BOOLEAN
    /\ openFailed \in BOOLEAN /\ mislaid \in BOOLEAN
    /\ pc \in {"idle", "lock", "decide", "stale", "approve", "open", "status"}
    /\ edits \in 0 .. MaxEdits /\ faults \in 0 .. MaxFaults

Init ==
    /\ config \in Configs /\ project = NewProject
    /\ plans = [c \in Configs |-> "absent"] /\ applies = plans
    /\ prs = <<>>
    /\ queued = TRUE
    /\ pc = "idle" /\ obj = NewProject /\ fresh = TRUE /\ wanted = None
    /\ lost = FALSE
    /\ edits = 0 /\ faults = 0
    /\ openFailed = FALSE /\ mislaid = FALSE

-----------------------------------------------------------------------------
BecomeIdle ==
    pc' = "idle" /\ obj' = NewProject /\ fresh' = TRUE /\ wanted' = None

EndPass == BecomeIdle /\ UNCHANGED lost

GoOn(step, o) == pc' = step /\ obj' = o /\ UNCHANGED <<fresh, wanted, lost>>

ThenReport(phase) == GoOn("status", [obj EXCEPT !.phase = phase])

OnlyPassMoves ==
    UNCHANGED <<config, project, jobVars, prs, boundVars, historyVars>>

\* The status of o replaces the stored one, unless a conflict drops the write.
WriteOf(o) ==
    IF fresh THEN [o EXCEPT !.approved = project.approved] ELSE project

Fault == faults < MaxFaults /\ faults' = faults + 1

Fails(call) == call \in GitHubFails /\ Fault

\* GitHub closes the open pull requests of head with its branch.
ClosedFrom(head) ==
    [n \in DOMAIN prs |-> IF prs[n].head = head /\ prs[n].state = "open"
                          THEN [prs[n] EXCEPT !.state = "closed"] ELSE prs[n]]

OpenPRs == {n \in DOMAIN prs : prs[n].state = "open"}

-----------------------------------------------------------------------------
StartPass ==
    /\ pc = "idle" /\ queued
    /\ queued' = FALSE
    /\ pc' = "lock" /\ obj' = project /\ fresh' = TRUE /\ wanted' = config
    /\ lost' = FALSE
    /\ OnlyPassMoves

JobIsActive == \E c \in Configs : "active" \in {plans[c], applies[c]}

WaitForActiveJob ==
    /\ pc = "lock" /\ JobIsActive
    /\ queued' = TRUE
    /\ ThenReport("Running")
    /\ OnlyPassMoves

NoActiveJob ==
    /\ pc = "lock" /\ ~JobIsActive
    /\ GoOn("decide", obj)
    /\ OnlyPassMoves /\ UNCHANGED queued

AlreadyApplied ==
    /\ pc = "decide" /\ obj.applied = wanted
    /\ EndPass
    /\ OnlyPassMoves /\ UNCHANGED queued

PlanIsStale == obj.planHash \notin {None, wanted}

\* Mutant: the branch of the new configuration is deleted.
StaleHeadMutant == wanted

\* closeStaleApprovalPR: the pull request of the plan that is pending.
StaleHead == obj.planHash

\* invalidateStalePlan; a pull request that cannot be closed stays open.
CloseStalePR ==
    /\ pc = "decide" /\ obj.applied # wanted /\ PlanIsStale
    /\ IF obj.pr = 0
       THEN UNCHANGED <<prs, faults, mislaid>>
       ELSE \/ prs' = ClosedFrom(StaleHead) /\ UNCHANGED <<faults, mislaid>>
            \/ Fails("close") /\ mislaid' = TRUE /\ UNCHANGED prs
    /\ GoOn("stale", [obj EXCEPT !.pr = 0, !.planHash = None])
    /\ UNCHANGED <<config, project, jobVars, queued, edits, openFailed>>

\* Annotations that are not an approval of this configuration: the approval is
\* deleted by an Update, whose answer brings the stored status back into memory.
InvalidateApproval ==
    /\ pc = "stale"
    /\ Annotated \/ obj.approved # None
    /\ obj.approved # wanted
    /\ IF fresh
       THEN LET p == [project EXCEPT !.approved = None] IN
            /\ project' = p
            /\ queued' = (queued \/ p # project)
            /\ GoOn("approve", p)
       ELSE EndPass /\ queued' = TRUE /\ UNCHANGED project
    /\ UNCHANGED <<config, jobVars, prs, boundVars, historyVars>>

\* Any error of the write of the status is dropped.
InvalidatePlan ==
    /\ pc = "stale"
    /\ obj.approved = wanted \/ ~(Annotated \/ obj.approved # None)
    /\ \/ project' = WriteOf(obj) /\ UNCHANGED faults
       \/ Fault /\ UNCHANGED project
    /\ queued' = (queued \/ project' # project)
    /\ GoOn("approve", obj)
    /\ UNCHANGED <<config, jobVars, prs, edits, historyVars>>

PastStalePlan ==
    \/ pc = "approve"
    \/ pc = "decide" /\ obj.applied # wanted /\ ~PlanIsStale

-----------------------------------------------------------------------------
(***************************************************************************)
(* createApplyAfterApproval.                                               *)
(***************************************************************************)

Approved == PastStalePlan /\ obj.approved = wanted

CreateApplyJob ==
    /\ Approved /\ applies[wanted] = "absent"
    /\ applies' = [applies EXCEPT ![wanted] = "active"]
    /\ queued' = TRUE
    /\ ThenReport("Running")
    /\ UNCHANGED <<config, project, plans, prs, boundVars, historyVars>>

ApplySucceeded ==
    /\ Approved /\ applies[wanted] = "succeeded"
    /\ GoOn("status", [obj EXCEPT !.phase = "Succeeded", !.applied = wanted,
                                  !.planHash = None, !.pr = 0])
    /\ OnlyPassMoves /\ UNCHANGED queued

ApplyFailed ==
    /\ Approved /\ applies[wanted] = "failed"
    /\ ThenReport("Error")
    /\ OnlyPassMoves /\ UNCHANGED queued

-----------------------------------------------------------------------------
(***************************************************************************)
(* checkPRMergeStatus.                                                     *)
(***************************************************************************)

Unapproved == PastStalePlan /\ obj.approved # wanted

\* Mutant: the pull request that is recorded is taken for the current plan's.
PollsPRMutant == obj.pr > 0

PollsPR == obj.pr > 0 /\ obj.planHash = wanted

\* Mutant: an open pull request is left to an event.
PollAgainMutant == queued

PollAgain == TRUE

\* Still open, or GitHub cannot be asked.
PROpen ==
    /\ Unapproved /\ PollsPR
    /\ \/ prs[obj.pr].state = "open" /\ UNCHANGED faults
       \/ Fails("get")
    /\ queued' = PollAgain
    /\ EndPass
    /\ UNCHANGED <<config, project, jobVars, prs, edits, historyVars>>

\* The annotation is set by an Update, which leaves the stored status alone.
PRMerged ==
    /\ Unapproved /\ PollsPR /\ prs[obj.pr].state = "merged"
    /\ prs' = ClosedFrom(wanted)
    /\ project' = IF fresh THEN [project EXCEPT !.approved = wanted] ELSE project
    /\ queued' = TRUE
    /\ EndPass
    /\ UNCHANGED <<config, jobVars, boundVars, historyVars>>

\* Mutant: another phase, and the plan stays pending.
RejectionMutant(o) == [o EXCEPT !.phase = "Rejected", !.pr = 0]

Rejection(o) == [o EXCEPT !.phase = "PlanRejected", !.planHash = None, !.pr = 0]

PRClosed ==
    /\ Unapproved /\ PollsPR /\ prs[obj.pr].state = "closed"
    /\ prs' = ClosedFrom(wanted)
    /\ queued' = TRUE
    /\ GoOn("status", Rejection(obj))
    /\ UNCHANGED <<config, project, jobVars, boundVars, historyVars>>

-----------------------------------------------------------------------------
(***************************************************************************)
(* The plan Job and createApprovalPR.                                      *)
(***************************************************************************)

PlanTurn == Unapproved /\ ~PollsPR

CreatePlanJob ==
    /\ PlanTurn /\ plans[wanted] = "absent"
    /\ plans' = [plans EXCEPT ![wanted] = "active"]
    /\ queued' = TRUE
    /\ ThenReport("Planning")
    /\ UNCHANGED <<config, project, applies, prs, boundVars, historyVars>>

\* Mutant: a plan that has failed is shown for approval as well.
PlanIsReadyMutant == plans[wanted] \in {"succeeded", "failed"}

PlanIsReady == plans[wanted] = "succeeded"

PlanFailed ==
    /\ PlanTurn /\ plans[wanted] = "failed"
    /\ ThenReport("Error")
    /\ OnlyPassMoves /\ UNCHANGED queued

PlanSucceeded ==
    /\ PlanTurn /\ PlanIsReady
    /\ GoOn("open", [obj EXCEPT !.planHash = wanted])
    /\ OnlyPassMoves /\ UNCHANGED queued

\* The number of a new pull request goes into the status after it is opened.
OpenPR ==
    /\ pc = "open" /\ Len(prs) < MaxPRs
    /\ \A n \in OpenPRs : prs[n].head # wanted
    /\ prs' = Append(prs, [head |-> wanted, state |-> "open"])
    /\ queued' = TRUE
    /\ GoOn("status", [obj EXCEPT !.phase = "WaitingApproval", !.pr = Len(prs')])
    /\ UNCHANGED <<config, project, jobVars, boundVars, historyVars>>

\* An error of any of its calls, or the branch has an open pull request: the
\* pass reports an error and does not come back by itself.
OpenPRFails ==
    /\ pc = "open"
    /\ \/ Fails("create")
       \/ /\ \E n \in OpenPRs : prs[n].head = wanted
          /\ UNCHANGED faults
    /\ openFailed' = TRUE
    /\ ThenReport("Error")
    /\ UNCHANGED <<config, project, jobVars, prs, queued, edits, mislaid>>

-----------------------------------------------------------------------------
\* The pass has opened a pull request and not recorded it yet.
Unrecorded == obj.pr \in OpenPRs \ {project.pr}

WriteStatus ==
    /\ pc = "status"
    /\ project' = WriteOf(obj)
    /\ queued' = (queued \/ project' # project)
    /\ mislaid' = (mislaid \/ (Unrecorded /\ ~fresh))
    /\ EndPass
    /\ UNCHANGED <<config, jobVars, prs, boundVars, openFailed>>

\* updateStatusWithCondition drops every error: the pass returns as it would have,
\* and after an apply nobody comes back.
StatusWriteLost ==
    /\ pc = "status" /\ Fault
    /\ mislaid' = (mislaid \/ Unrecorded)
    /\ BecomeIdle /\ lost' = TRUE
    /\ UNCHANGED <<config, project, jobVars, prs, queued, edits, openFailed>>

\* A Kubernetes call fails and its error requeues, which that of a status write does
\* not; or the operator restarts.
CallFailsOrRestart ==
    /\ pc # "idle" /\ Fault
    /\ mislaid' = (mislaid \/ Unrecorded)
    /\ queued' = TRUE
    /\ EndPass
    /\ UNCHANGED <<config, project, jobVars, prs, edits, openFailed>>

EndJob(c) ==
    /\ \/ /\ plans[c] = "active" /\ UNCHANGED applies
          /\ \E s \in {"succeeded", "failed"} : plans' = [plans EXCEPT ![c] = s]
       \/ /\ applies[c] = "active" /\ UNCHANGED plans
          /\ \E s \in {"succeeded", "failed"} : applies' = [applies EXCEPT ![c] = s]
    /\ queued' = TRUE
    /\ UNCHANGED <<config, project, prs, passVars, boundVars, historyVars>>

EditSpec ==
    /\ edits < MaxEdits /\ edits' = edits + 1
    /\ config' \in Configs \ {config}
    /\ fresh' = (pc = "idle")
    /\ queued' = TRUE
    /\ UNCHANGED <<project, jobVars, prs, pc, obj, wanted, lost, faults, historyVars>>

MergePR(n) ==
    /\ n \in OpenPRs
    /\ prs' = [prs EXCEPT ![n].state = "merged"]
    /\ UNCHANGED <<config, project, jobVars, queued, passVars, boundVars, historyVars>>

RejectPR(n) ==
    /\ n \in OpenPRs
    /\ edits < MaxEdits /\ edits' = edits + 1
    /\ prs' = [prs EXCEPT ![n].state = "closed"]
    /\ UNCHANGED <<config, project, jobVars, queued, passVars, faults, historyVars>>

-----------------------------------------------------------------------------
Pass ==
    \/ StartPass \/ WaitForActiveJob \/ NoActiveJob \/ AlreadyApplied
    \/ CloseStalePR \/ InvalidateApproval \/ InvalidatePlan
    \/ CreateApplyJob \/ ApplySucceeded \/ ApplyFailed
    \/ PROpen \/ PRMerged \/ PRClosed
    \/ CreatePlanJob \/ PlanFailed \/ PlanSucceeded \/ OpenPR \/ OpenPRFails
    \/ WriteStatus

People == EditSpec \/ \E n \in 1 .. MaxPRs : MergePR(n) \/ RejectPR(n)

Next ==
    \/ Pass \/ StatusWriteLost \/ CallFailsOrRestart
    \/ People \/ \E c \in Configs : EndJob(c)

Spec == Init /\ [][Next]_vars

\* The worker serves the queue, every pass and every Job ends.  Nobody has to
\* merge or to edit.
FairSpec == Spec /\ WF_vars(Pass) /\ \A c \in Configs : WF_vars(EndJob(c))

-----------------------------------------------------------------------------
(***************************************************************************)
(* Properties.                                                             *)
(***************************************************************************)

Merged(c) == \E n \in DOMAIN prs : prs[n].head = c /\ prs[n].state = "merged"

\* What the operator takes for approved, and what it applies, somebody merged a
\* pull request of, as long as every pull request could be opened
\* (checkPRMergeStatus approves the current hash by the recorded number).
MergeApprovesItsPlan ==
    ~openFailed =>
        \A c \in Configs : project.approved = c \/ applies[c] # "absent" => Merged(c)

\* Between passes every open pull request is the one the status names, unless
\* its record was lost or GitHub did not close it (closeStaleApprovalPR).
OpenPRsAreKnown == pc = "idle" /\ ~mislaid => OpenPRs \subseteq {project.pr}

\* How far a configuration has come.
GateOf(c) ==
    IF applies[c] = "succeeded" THEN "applied"
    ELSE IF applies[c] # "absent" THEN "applying"
    ELSE IF Merged(c) THEN "approved"
    ELSE IF plans[c] = "succeeded" THEN "planned"
    ELSE "unplanned"

stages == [c \in Configs |-> GateOf(c)]

Gate == INSTANCE ApprovalGate WITH gate <- stages

\* Merging is the approval that ApprovalGate asks for: no configuration has a
\* pull request merged before its plan has succeeded, nor is applied before its
\* merge, nor ever falls back, as long as every pull request could be opened
\* (reconcilePlanApprove, createApplyAfterApproval).
MergeIsTheGate == Gate!GateInit /\ [][~openFailed => Gate!GateNext]_stages

\* Merging the pull request that the status names for the current plan gets it
\* applied, through polls, conflicts, failing calls and restarts (checkPRMergeStatus).
\* The record of the apply is lost when the write of it is dropped.
MergeIsHonoured ==
    \A c \in Configs :
        /\ config = c /\ project.planHash = c /\ project.applied # c
        /\ project.pr # 0 /\ prs[project.pr] = [head |-> c, state |-> "merged"]
        ~> \/ config # c \/ project.applied = c \/ applies[c] = "failed"
           \/ lost /\ applies[c] = "succeeded"

(***************************************************************************)
(* What the documentation says and the code does not do.                   *)
(***************************************************************************)

\* doc/plan-approve.md: "Merge the PR to approve the plan": nothing is applied
\* of which no pull request was merged.
OnlyMergedIsApplied == \A c \in Configs : applies[c] # "absent" => Merged(c)
=============================================================================
