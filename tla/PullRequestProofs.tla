-------------------------- MODULE PullRequestProofs --------------------------
(***************************************************************************)
(* Theorems about PullRequest, for any configurations, and any number of   *)
(* pull requests, edits, rejections and failing calls.                     *)
(***************************************************************************)
EXTENDS PullRequest, TLAPS, SequenceTheorems

-----------------------------------------------------------------------------
(***************************************************************************)
(* The inductive invariant.  Only the running pass writes the project, so  *)
(* that its copy is the stored project until it changes it, and agrees     *)
(* with it on the approval until the end.  Each theorem has, beside Sound, *)
(* a part of its own: NamedInv, OpenInv or PlannedInv.                     *)
(***************************************************************************)

PassOK ==
    /\ pc # "idle" => wanted \in Configs /\ obj.approved = project.approved
    /\ pc \in {"lock", "decide"} => obj = project
    /\ pc = "open" => obj.planHash = wanted /\ obj.approved # wanted
    /\ project.pr \in {0} \cup DOMAIN prs
    /\ obj.pr \in {0} \cup DOMAIN prs

Sound == TypeOK /\ PassOK

\* The pull request that p names was opened for the plan that p names.
Names(p) == p.pr # 0 => prs[p.pr].head = p.planHash

\* A pass about to open a pull request has the new plan beside the number of the
\* old one; if it fails to open it, that is what it stores.
NamedInv ==
    ~openFailed =>
        /\ Names(project)
        /\ pc # "open" => Names(obj)
        /\ MergeApprovesItsPlan

\* Every open pull request is the one that p names, and of its plan.
Shows(p) == \A n \in OpenPRs : n = p.pr /\ prs[n].head = p.planHash

\* An approved plan has no open pull request.  A pass closes the one of a stale
\* plan before it goes on, and opens one only when there is none; while it has
\* not stored what it did, the open one is that of its copy.
OpenInv ==
    ~mislaid =>
        /\ \A n \in OpenPRs : prs[n].head # project.approved
        /\ pc # "status" => Shows(project)
        /\ pc \in {"stale", "approve", "open"} => OpenPRs = {}
        /\ pc = "status" =>
              /\ Shows(obj)
              /\ \A n \in OpenPRs : n = project.pr => prs[n].head = project.planHash

\* A pull request is opened for a plan that has succeeded.
PlannedInv ==
    /\ \A n \in DOMAIN prs : plans[prs[n].head] = "succeeded"
    /\ pc = "open" => plans[wanted] = "succeeded"

-----------------------------------------------------------------------------
(***************************************************************************)
(* The pull requests on GitHub.                                            *)
(***************************************************************************)

PRs == [head : Configs, state : {"open", "closed", "merged"}]

\* What others, and the operator's calls but the opening, do to pull requests.
OnlyCloses ==
    /\ prs' \in Seq(PRs) /\ Len(prs') = Len(prs) /\ DOMAIN prs' = DOMAIN prs
    /\ \A n \in DOMAIN prs :
          /\ prs'[n].head = prs[n].head
          /\ prs[n].state = "merged" => prs'[n].state = "merged"
          /\ prs'[n].state = "open" => prs[n].state = "open"

LEMMA PRTypes ==
    ASSUME TypeOK
    PROVE  /\ prs \in Seq(PRs) /\ Len(prs) \in Nat
           /\ DOMAIN prs = 1 .. Len(prs)
           /\ \A n \in DOMAIN prs : prs[n] \in PRs
<1>1. prs \in Seq(PRs)
  BY DEF TypeOK, PRs
<1>2. Len(prs) \in Nat /\ DOMAIN prs = 1 .. Len(prs)
  BY <1>1, LenProperties
<1>3. \A n \in 1 .. Len(prs) : prs[n] \in PRs
  BY <1>1, ElementOfSeq
<1>4. QED
  BY <1>1, <1>2, <1>3

\* A function on the numbers of the pull requests is a sequence of them.
LEMMA SamePRs ==
    ASSUME TypeOK, NEW f, DOMAIN f = DOMAIN prs, f = [n \in DOMAIN prs |-> f[n]],
           \A n \in DOMAIN prs : f[n] \in PRs
    PROVE  f \in Seq(PRs) /\ Len(f) = Len(prs)
<1>1. f = [n \in 1 .. Len(prs) |-> f[n]] /\ Len(prs) \in Nat
  BY PRTypes
<1>2. \A n \in 1 .. Len(prs) : f[n] \in PRs
  BY PRTypes
<1>3. QED
  BY <1>1, <1>2, IsASeq, LenProperties

LEMMA UnchangedCloses ==
    ASSUME TypeOK, prs' = prs
    PROVE  OnlyCloses
BY PRTypes DEF OnlyCloses

\* The branch of a plan is deleted.
LEMMA ClosedFromCloses ==
    ASSUME TypeOK, NEW c, prs' = ClosedFrom(c)
    PROVE  OnlyCloses /\ OpenPRs' = {n \in OpenPRs : prs[n].head # c}
<1>1. /\ DOMAIN prs' = DOMAIN prs
      /\ prs' = [n \in DOMAIN prs |-> prs'[n]]
      /\ \A n \in DOMAIN prs :
            prs'[n] = IF prs[n].head = c /\ prs[n].state = "open"
                      THEN [prs[n] EXCEPT !.state = "closed"] ELSE prs[n]
  BY DEF ClosedFrom
<1>2. \A n \in DOMAIN prs :
         /\ prs'[n] \in PRs /\ prs'[n].head = prs[n].head
         /\ prs'[n].state = IF prs[n].head = c /\ prs[n].state = "open"
                            THEN "closed" ELSE prs[n].state
  BY <1>1, PRTypes DEF PRs
<1>3. prs' \in Seq(PRs) /\ Len(prs') = Len(prs)
  BY <1>1, <1>2, SamePRs
<1>4. OnlyCloses
  BY <1>1, <1>2, <1>3 DEF OnlyCloses
<1>5. OpenPRs' = {n \in OpenPRs : prs[n].head # c}
  BY <1>1, <1>2 DEF OpenPRs
<1>6. QED
  BY <1>4, <1>5

\* Somebody merges or rejects one.
LEMMA DecisionCloses ==
    ASSUME TypeOK, NEW n \in OpenPRs, NEW x \in {"merged", "closed"},
           prs' = [prs EXCEPT ![n].state = x]
    PROVE  OnlyCloses /\ OpenPRs' = OpenPRs \ {n}
<1>1. n \in DOMAIN prs /\ prs[n].state = "open"
  BY DEF OpenPRs
<1>2. /\ DOMAIN prs' = DOMAIN prs
      /\ prs' = [m \in DOMAIN prs |-> prs'[m]]
      /\ \A m \in DOMAIN prs :
            prs'[m] = IF m = n THEN [prs[n] EXCEPT !.state = x] ELSE prs[m]
  BY <1>1
<1>3. \A m \in DOMAIN prs :
         /\ prs'[m] \in PRs /\ prs'[m].head = prs[m].head
         /\ prs'[m].state = IF m = n THEN x ELSE prs[m].state
  BY <1>2, PRTypes DEF PRs
<1>4. prs' \in Seq(PRs) /\ Len(prs') = Len(prs)
  BY <1>2, <1>3, SamePRs
<1>5. OnlyCloses
  BY <1>1, <1>2, <1>3, <1>4 DEF OnlyCloses
<1>6. OpenPRs' = OpenPRs \ {n}
  BY <1>1, <1>2, <1>3 DEF OpenPRs
<1>7. QED
  BY <1>5, <1>6

\* A new one is the last of them.
LEMMA OpeningAdds ==
    ASSUME TypeOK, wanted \in Configs,
           prs' = Append(prs, [head |-> wanted, state |-> "open"])
    PROVE  /\ prs' \in Seq(PRs) /\ Len(prs') = Len(prs) + 1
           /\ DOMAIN prs' = DOMAIN prs \cup {Len(prs')}
           /\ Len(prs') \notin DOMAIN prs /\ Len(prs') # 0
           /\ prs'[Len(prs')] = [head |-> wanted, state |-> "open"]
           /\ \A n \in DOMAIN prs : prs'[n] = prs[n]
           /\ OpenPRs' = OpenPRs \cup {Len(prs')}
<1> DEFINE new == [head |-> wanted, state |-> "open"]
<1>1. prs \in Seq(PRs) /\ new \in PRs
  BY PRTypes DEF PRs
<1>2. /\ prs' \in Seq(PRs) /\ Len(prs') = Len(prs) + 1
      /\ \A i \in 1 .. Len(prs) : prs'[i] = prs[i]
      /\ prs'[Len(prs) + 1] = new
  BY <1>1, AppendProperties
<1>3. /\ Len(prs) \in Nat /\ DOMAIN prs = 1 .. Len(prs)
      /\ DOMAIN prs' = 1 .. Len(prs) + 1
  BY <1>1, <1>2, LenProperties
<1>4. /\ DOMAIN prs' = DOMAIN prs \cup {Len(prs')}
      /\ Len(prs') \notin DOMAIN prs /\ Len(prs') # 0
  BY <1>2, <1>3
<1>5. OpenPRs' = OpenPRs \cup {Len(prs')}
  BY <1>2, <1>3, <1>4 DEF OpenPRs
<1>6. QED
  BY <1>2, <1>3, <1>4, <1>5

-----------------------------------------------------------------------------
(***************************************************************************)
(* Types, and what a pass has in its hands.                                *)
(***************************************************************************)

Stored ==
    /\ config \in Configs
    /\ project \in Projects
    /\ plans \in [Configs -> JobStates] /\ applies \in [Configs -> JobStates]
    /\ prs \in Seq(PRs) /\ Len(prs) <= MaxPRs
    /\ queued \in BOOLEAN /\ openFailed \in BOOLEAN /\ mislaid \in BOOLEAN
    /\ edits \in 0 .. MaxEdits /\ faults \in 0 .. MaxFaults

PassSteps == {"idle", "lock", "decide", "stale", "approve", "open", "status"}

Held ==
    /\ obj \in Projects /\ wanted \in Configs \cup {None}
    /\ fresh \in BOOLEAN /\ lost \in BOOLEAN
    /\ pc \in PassSteps
    /\ PassOK

LEMMA SoundParts == (Sound <=> Stored /\ Held) /\ (Sound' <=> Stored' /\ Held')
<1>1. Sound <=> Stored /\ Held
  BY DEF Sound, TypeOK, Stored, Held, PassSteps, PRs
<1>2. Sound' <=> Stored' /\ Held'
  BY DEF Sound, TypeOK, Stored, Held, PassSteps, PRs
<1>3. QED
  BY <1>1, <1>2

Phases == {"", "Running", "Planning", "WaitingApproval", "PlanRejected", "Succeeded",
           "Error"}

\* The copy's updates keep it a project, with the same approval.
LEMMA CopyTypes ==
    ASSUME NEW p \in Projects
    PROVE  /\ \A x \in Phases :
                 LET q == [p EXCEPT !.phase = x] IN
                 /\ q \in Projects
                 /\ q.approved = p.approved /\ q.pr = p.pr /\ q.planHash = p.planHash
           /\ LET q == [p EXCEPT !.pr = 0, !.planHash = None] IN
                 q \in Projects /\ q.approved = p.approved /\ q.pr = 0
           /\ \A x \in Phases, n \in 0 .. MaxPRs :
                 LET q == [p EXCEPT !.phase = x, !.pr = n] IN
                 /\ q \in Projects
                 /\ q.approved = p.approved /\ q.pr = n /\ q.planHash = p.planHash
           /\ \A c \in Configs :
                 LET q == [p EXCEPT !.planHash = c] IN
                 /\ q \in Projects
                 /\ q.approved = p.approved /\ q.pr = p.pr /\ q.planHash = c
           /\ \A c \in Configs \cup {None} :
                 LET q == [p EXCEPT !.approved = c] IN
                 /\ q \in Projects
                 /\ q.approved = c /\ q.pr = p.pr /\ q.planHash = p.planHash
<1>0. 0 \in 0 .. MaxPRs
  BY PullRequestAssumption
<1>1. QED
  BY <1>0 DEF Projects, Phases

\* So do the updates that end a plan.
LEMMA ResultTypes ==
    ASSUME NEW p \in Projects, NEW c \in Configs
    PROVE  /\ LET q == [p EXCEPT !.phase = "Succeeded", !.applied = c,
                                 !.planHash = None, !.pr = 0]
              IN q \in Projects /\ q.approved = p.approved /\ q.pr = 0
           /\ Rejection(p) \in Projects
           /\ Rejection(p).approved = p.approved /\ Rejection(p).pr = 0
<1>0. 0 \in 0 .. MaxPRs
  BY PullRequestAssumption
<1>1. QED
  BY <1>0 DEF Projects, Rejection

LEMMA NewProjectType == NewProject \in Projects /\ NewProject.pr = 0
<1>0. 0 \in 0 .. MaxPRs
  BY PullRequestAssumption
<1>1. QED
  BY <1>0 DEF NewProject, Projects

\* After a pass nothing is left of its copy.
LEMMA EndHeld ==
    ASSUME Sound, EndPass, project'.pr \in {0} \cup DOMAIN prs'
    PROVE  Held' /\ pc' = "idle"
BY NewProjectType DEF EndPass, BecomeIdle, Held, PassOK, PassSteps, Sound, TypeOK

\* A pass that goes on with a copy of the same approval.
LEMMA GoOnHeld ==
    ASSUME Sound, pc # "idle", project' = project, DOMAIN prs \subseteq DOMAIN prs',
           NEW step \in {"decide", "stale", "open", "status"},
           NEW o \in Projects, GoOn(step, o),
           o.approved = obj.approved, o.pr \in {0} \cup DOMAIN prs',
           step = "decide" => o = project,
           step = "open" => o.planHash = wanted /\ o.approved # wanted
    PROVE  Held' /\ pc' = step /\ obj' = o /\ wanted' = wanted /\ fresh' = fresh
<1>1. /\ pc' = step /\ obj' = o
      /\ wanted' = wanted /\ fresh' = fresh /\ lost' = lost
  BY DEF GoOn
<1>2. PassOK'
  BY <1>1 DEF PassOK, Sound
<1>3. QED
  BY <1>1, <1>2 DEF Held, PassSteps, Sound, TypeOK

\* The copy as it is, but for the phase, goes into the status.
LEMMA ReportHeld ==
    ASSUME Sound, pc # "idle", project' = project, prs' = prs,
           NEW x \in Phases, ThenReport(x)
    PROVE  /\ Held' /\ pc' = "status" /\ wanted' = wanted /\ fresh' = fresh
           /\ obj'.pr = obj.pr /\ obj'.planHash = obj.planHash
           /\ obj'.approved = obj.approved
<1> DEFINE o == [obj EXCEPT !.phase = x]
<1>1. /\ o \in Projects /\ o.approved = obj.approved /\ o.pr = obj.pr
      /\ o.planHash = obj.planHash
  BY CopyTypes DEF Sound, TypeOK
<1>2. o.pr \in {0} \cup DOMAIN prs'
  BY <1>1 DEF Sound, PassOK
<1>3. GoOn("status", o)
  BY DEF ThenReport
<1>4. QED
  BY <1>1, <1>2, <1>3, GoOnHeld

\* A step that writes nothing but the pass and the queue.
LEMMA FrameStored ==
    ASSUME Sound, OnlyPassMoves, queued' \in BOOLEAN
    PROVE  Stored' /\ project' = project /\ prs' = prs
BY DEF Sound, TypeOK, OnlyPassMoves, boundVars, jobVars, historyVars, Stored, PRs

LEMMA FailsType ==
    ASSUME Sound, NEW call, Fails(call) \/ UNCHANGED faults
    PROVE  faults' \in 0 .. MaxFaults
BY PullRequestAssumption DEF Sound, TypeOK, Fails, Fault

LEMMA InitSound == Init => Sound
<1> SUFFICES ASSUME Init PROVE Sound
  OBVIOUS
<1>1. prs = <<>> /\ Len(<<>>) = 0 /\ <<>> \in Seq(PRs)
  BY EmptySeq DEF Init
<1>2. project = NewProject /\ obj = NewProject
  BY DEF Init
<1>3. plans \in [Configs -> JobStates] /\ applies \in [Configs -> JobStates]
  BY DEF Init, JobStates
<1>4. prs \in Seq(PRs) /\ Len(prs) <= MaxPRs
  BY <1>1, PullRequestAssumption
<1>5. edits \in 0 .. MaxEdits /\ faults \in 0 .. MaxFaults
  BY PullRequestAssumption DEF Init
<1>6. Stored
  BY <1>2, <1>3, <1>4, <1>5, NewProjectType DEF Init, Stored
<1>7. PassOK
  BY <1>2, NewProjectType DEF Init, PassOK
<1>8. Held
  BY <1>2, <1>7, NewProjectType DEF Init, Held, PassSteps
<1>9. QED
  BY <1>6, <1>8, SoundParts

\* The pass up to the question whether its inputs have a plan.
LEMMA HeadSound ==
    ASSUME Sound, StartPass \/ WaitForActiveJob \/ NoActiveJob \/ AlreadyApplied
    PROVE  Sound'
<1>t. TypeOK /\ PassOK
  BY DEF Sound
<1>1. CASE StartPass
  <2>1. Stored'
    BY <1>1, FrameStored DEF StartPass
  <2>2. PassOK'
    BY <1>t, <1>1 DEF StartPass, OnlyPassMoves, PassOK, TypeOK
  <2>3. Held'
    BY <1>t, <1>1, <2>2 DEF StartPass, Held, PassSteps, TypeOK
  <2>4. QED
    BY <2>1, <2>3, SoundParts
<1>2. CASE WaitForActiveJob
  <2>1. Stored' /\ project' = project /\ prs' = prs
    BY <1>2, FrameStored DEF WaitForActiveJob
  <2>2. Held'
    BY <1>2, <2>1, ReportHeld DEF WaitForActiveJob, Phases
  <2>3. QED
    BY <2>1, <2>2, SoundParts
<1>3. CASE NoActiveJob
  <2>1. Stored' /\ project' = project /\ prs' = prs
    BY <1>t, <1>3, FrameStored DEF NoActiveJob, TypeOK
  <2>2. obj \in Projects /\ obj = project /\ obj.pr \in {0} \cup DOMAIN prs'
    BY <1>t, <1>3, <2>1 DEF NoActiveJob, TypeOK, PassOK
  <2>3. Held'
    BY <1>3, <2>1, <2>2, GoOnHeld DEF NoActiveJob
  <2>4. QED
    BY <2>1, <2>3, SoundParts
<1>4. CASE AlreadyApplied
  <2>1. Stored' /\ project' = project /\ prs' = prs
    BY <1>t, <1>4, FrameStored DEF AlreadyApplied, TypeOK
  <2>2. Held'
    BY <1>t, <1>4, <2>1, EndHeld DEF AlreadyApplied, PassOK
  <2>3. QED
    BY <2>1, <2>2, SoundParts
<1>5. QED
  BY <1>1, <1>2, <1>3, <1>4

\* invalidateStalePlan.
LEMMA StaleSound ==
    ASSUME Sound, CloseStalePR \/ InvalidateApproval \/ InvalidatePlan
    PROVE  Sound'
<1>t. TypeOK /\ PassOK
  BY DEF Sound
<1>1. CASE CloseStalePR
  <2>1. OnlyCloses
    BY <1>t, <1>1, UnchangedCloses, ClosedFromCloses DEF CloseStalePR
  <2>2. faults' \in 0 .. MaxFaults /\ mislaid' \in BOOLEAN
    <3>1. UNCHANGED <<faults, mislaid>> \/ (Fails("close") /\ mislaid' = TRUE)
      BY <1>1 DEF CloseStalePR
    <3>2. QED
      BY <1>t, <3>1, FailsType DEF TypeOK
  <2>3. Stored'
    BY <1>t, <1>1, <2>1, <2>2 DEF CloseStalePR, TypeOK, Stored, jobVars, OnlyCloses
  <2>4. Held'
    <3> DEFINE o == [obj EXCEPT !.pr = 0, !.planHash = None]
    <3>1. o \in Projects /\ o.approved = obj.approved /\ o.pr = 0
      BY <1>t, CopyTypes DEF TypeOK
    <3>2. DOMAIN prs' = DOMAIN prs
      BY <2>1 DEF OnlyCloses
    <3>3. project' = project /\ pc # "idle" /\ GoOn("stale", o)
      BY <1>1 DEF CloseStalePR
    <3>4. QED
      BY <3>1, <3>2, <3>3, GoOnHeld
  <2>5. QED
    BY <2>3, <2>4, SoundParts
<1>2. CASE InvalidateApproval
  <2> DEFINE p == [project EXCEPT !.approved = None]
  <2>1. p \in Projects /\ p.pr = project.pr
    BY <1>t, CopyTypes DEF TypeOK
  <2>2. project' \in {p, project} /\ prs' = prs
    BY <1>2 DEF InvalidateApproval
  <2>3. Stored'
    BY <1>t, <1>2, <2>1, <2>2
       DEF InvalidateApproval, TypeOK, Stored, PRs, jobVars, boundVars, historyVars
  <2>4. Held'
    <3>1. CASE fresh
      <4>1. /\ pc' = "approve" /\ obj' = p /\ project' = p
              /\ UNCHANGED <<fresh, wanted, lost>>
        BY <1>2, <3>1 DEF InvalidateApproval, GoOn
      <4>2. PassOK'
        BY <1>t, <1>2, <2>1, <2>2, <4>1 DEF InvalidateApproval, PassOK
      <4>3. QED
        BY <1>t, <2>1, <4>1, <4>2 DEF Held, PassSteps, TypeOK
    <3>2. CASE ~fresh
      BY <1>t, <1>2, <2>1, <2>2, <3>2, EndHeld DEF InvalidateApproval, PassOK
    <3>3. QED
      BY <3>1, <3>2
  <2>5. QED
    BY <2>3, <2>4, SoundParts
<1>3. CASE InvalidatePlan
  <2> DEFINE p == [obj EXCEPT !.approved = project.approved]
  <2>1. project.approved \in Configs \cup {None} /\ obj.approved = project.approved
    BY <1>t, <1>3 DEF InvalidatePlan, TypeOK, PassOK, Projects
  <2>2. p \in Projects /\ p.pr = obj.pr /\ p.approved = obj.approved
    BY <1>t, <2>1, CopyTypes DEF TypeOK
  <2>3. project' \in {p, project} /\ prs' = prs /\ project'.approved = obj.approved
    BY <1>3, <2>1, <2>2 DEF InvalidatePlan, WriteOf
  <2>4. Stored'
    <3>1. faults' \in 0 .. MaxFaults
      BY <1>t, <1>3, PullRequestAssumption DEF InvalidatePlan, Fault, TypeOK
    <3>2. QED
      BY <1>t, <1>3, <2>2, <2>3, <3>1
         DEF InvalidatePlan, TypeOK, Stored, PRs, jobVars, historyVars
  <2>5. pc' = "approve" /\ obj' = obj /\ UNCHANGED <<fresh, wanted, lost>>
    BY <1>3 DEF InvalidatePlan, GoOn
  <2>6. PassOK'
    BY <1>t, <1>3, <2>2, <2>3, <2>5 DEF InvalidatePlan, PassOK
  <2>7. Held'
    BY <1>t, <2>5, <2>6 DEF Held, PassSteps, TypeOK
  <2>8. QED
    BY <2>4, <2>7, SoundParts
<1>4. QED
  BY <1>1, <1>2, <1>3

\* createApplyAfterApproval.
LEMMA ApplySound ==
    ASSUME Sound, CreateApplyJob \/ ApplySucceeded \/ ApplyFailed
    PROVE  Sound'
<1>t. TypeOK /\ PassOK
  BY DEF Sound
<1>w. pc # "idle" /\ wanted \in Configs
  BY <1>t DEF CreateApplyJob, ApplySucceeded, ApplyFailed, Approved, PastStalePlan, PassOK
<1>1. CASE CreateApplyJob
  <2>1. project' = project /\ prs' = prs
    BY <1>1 DEF CreateApplyJob
  <2>2. Stored'
    BY <1>t, <1>w, <1>1
       DEF CreateApplyJob, TypeOK, Stored, PRs, JobStates, boundVars, historyVars
  <2>3. Held'
    BY <1>w, <1>1, <2>1, ReportHeld DEF CreateApplyJob, Phases
  <2>4. QED
    BY <2>2, <2>3, SoundParts
<1>2. CASE ApplySucceeded
  <2> DEFINE o == [obj EXCEPT !.phase = "Succeeded", !.applied = wanted,
                              !.planHash = None, !.pr = 0]
  <2>1. Stored' /\ project' = project /\ prs' = prs
    BY <1>t, <1>2, FrameStored DEF ApplySucceeded, TypeOK
  <2>2. o \in Projects /\ o.approved = obj.approved /\ o.pr = 0
    BY <1>t, <1>w, ResultTypes DEF TypeOK
  <2>3. GoOn("status", o)
    BY <1>2 DEF ApplySucceeded
  <2>4. Held'
    BY <1>w, <2>1, <2>2, <2>3, GoOnHeld
  <2>5. QED
    BY <2>1, <2>4, SoundParts
<1>3. CASE ApplyFailed
  <2>1. Stored' /\ project' = project /\ prs' = prs
    BY <1>t, <1>3, FrameStored DEF ApplyFailed, TypeOK
  <2>2. Held'
    BY <1>w, <1>3, <2>1, ReportHeld DEF ApplyFailed, Phases
  <2>3. QED
    BY <2>1, <2>2, SoundParts
<1>4. QED
  BY <1>1, <1>2, <1>3

\* checkPRMergeStatus.
LEMMA PollSound ==
    ASSUME Sound, PROpen \/ PRMerged \/ PRClosed
    PROVE  Sound'
<1>t. TypeOK /\ PassOK
  BY DEF Sound
<1>w. pc # "idle" /\ wanted \in Configs
  BY <1>t DEF PROpen, PRMerged, PRClosed, Unapproved, PastStalePlan, PassOK
<1>1. CASE PROpen
  <2>1. faults' \in 0 .. MaxFaults
    BY <1>1, FailsType DEF PROpen
  <2>2. Stored'
    BY <1>t, <1>1, <2>1 DEF PROpen, PollAgain, TypeOK, Stored, PRs, jobVars, historyVars
  <2>3. Held'
    BY <1>t, <1>1, EndHeld DEF PROpen, PassOK
  <2>4. QED
    BY <2>2, <2>3, SoundParts
<1>2. CASE PRMerged
  <2>1. OnlyCloses
    BY <1>t, <1>2, ClosedFromCloses DEF PRMerged
  <2>2. project' \in Projects /\ project'.pr = project.pr
    BY <1>t, <1>w, <1>2, CopyTypes DEF PRMerged, TypeOK
  <2>3. Stored'
    BY <1>t, <1>2, <2>1, <2>2
       DEF PRMerged, TypeOK, Stored, OnlyCloses, jobVars, boundVars, historyVars
  <2>4. Held'
    BY <1>t, <1>2, <2>1, <2>2, EndHeld DEF PRMerged, PassOK, OnlyCloses
  <2>5. QED
    BY <2>3, <2>4, SoundParts
<1>3. CASE PRClosed
  <2>1. OnlyCloses
    BY <1>t, <1>3, ClosedFromCloses DEF PRClosed
  <2>2. Stored'
    BY <1>t, <1>3, <2>1
       DEF PRClosed, TypeOK, Stored, OnlyCloses, jobVars, boundVars, historyVars
  <2>3. /\ Rejection(obj) \in Projects
        /\ Rejection(obj).approved = obj.approved /\ Rejection(obj).pr = 0
    BY <1>t, <1>w, ResultTypes DEF TypeOK
  <2>4. project' = project /\ DOMAIN prs' = DOMAIN prs /\ GoOn("status", Rejection(obj))
    BY <1>3, <2>1 DEF PRClosed, OnlyCloses
  <2>5. Held'
    BY <1>w, <2>3, <2>4, GoOnHeld
  <2>6. QED
    BY <2>2, <2>5, SoundParts
<1>4. QED
  BY <1>1, <1>2, <1>3

\* The plan Job and createApprovalPR.
LEMMA PlanSound ==
    ASSUME Sound,
           CreatePlanJob \/ PlanFailed \/ PlanSucceeded \/ OpenPR \/ OpenPRFails
    PROVE  Sound'
<1>t. TypeOK /\ PassOK
  BY DEF Sound
<1>w. pc # "idle" /\ wanted \in Configs /\ obj \in Projects
      /\ obj.pr \in {0} \cup DOMAIN prs
  BY <1>t DEF CreatePlanJob, PlanFailed, PlanSucceeded, OpenPR, OpenPRFails, PlanTurn,
              Unapproved, PastStalePlan, PassOK, TypeOK
<1>1. CASE CreatePlanJob
  <2>1. project' = project /\ prs' = prs
    BY <1>1 DEF CreatePlanJob
  <2>2. Stored'
    BY <1>t, <1>w, <1>1
       DEF CreatePlanJob, TypeOK, Stored, PRs, JobStates, boundVars, historyVars
  <2>3. Held'
    BY <1>w, <1>1, <2>1, ReportHeld DEF CreatePlanJob, Phases
  <2>4. QED
    BY <2>2, <2>3, SoundParts
<1>2. CASE PlanFailed
  <2>1. Stored' /\ project' = project /\ prs' = prs
    BY <1>t, <1>2, FrameStored DEF PlanFailed, TypeOK
  <2>2. Held'
    BY <1>w, <1>2, <2>1, ReportHeld DEF PlanFailed, Phases
  <2>3. QED
    BY <2>1, <2>2, SoundParts
<1>3. CASE PlanSucceeded
  <2> DEFINE o == [obj EXCEPT !.planHash = wanted]
  <2>1. Stored' /\ project' = project /\ prs' = prs
    BY <1>t, <1>3, FrameStored DEF PlanSucceeded, TypeOK
  <2>2. /\ o \in Projects /\ o.approved = obj.approved /\ o.pr = obj.pr
        /\ o.planHash = wanted
    BY <1>w, CopyTypes
  <2>3. GoOn("open", o) /\ obj.approved # wanted
    BY <1>3 DEF PlanSucceeded, PlanTurn, Unapproved
  <2>4. Held'
    BY <1>w, <2>1, <2>2, <2>3, GoOnHeld
  <2>5. QED
    BY <2>1, <2>4, SoundParts
<1>4. CASE OpenPR
  <2> DEFINE o == [obj EXCEPT !.phase = "WaitingApproval", !.pr = Len(prs')]
  <2>1. /\ prs' \in Seq(PRs) /\ Len(prs') = Len(prs) + 1
        /\ DOMAIN prs' = DOMAIN prs \cup {Len(prs')}
    BY <1>t, <1>w, <1>4, OpeningAdds DEF OpenPR
  <2>2. Len(prs) < MaxPRs /\ Len(prs) \in Nat /\ MaxPRs \in Nat
    BY <1>t, <1>4, PRTypes, PullRequestAssumption DEF OpenPR
  <2>3. Stored'
    BY <1>t, <1>4, <2>1, <2>2
       DEF OpenPR, TypeOK, Stored, jobVars, boundVars, historyVars
  <2>4. Len(prs') \in 0 .. MaxPRs
    BY <2>1, <2>2
  <2>5. o \in Projects /\ o.approved = obj.approved /\ o.pr = Len(prs')
    <3>1. obj \in Projects
      BY <1>w
    <3>2. QED
      BY <2>4, <3>1 DEF Projects
  <2>6. GoOn("status", o) /\ project' = project
    BY <1>4 DEF OpenPR
  <2>7. Held'
    BY <1>w, <2>1, <2>5, <2>6, GoOnHeld
  <2>8. QED
    BY <2>3, <2>7, SoundParts
<1>5. CASE OpenPRFails
  <2>1. faults' \in 0 .. MaxFaults
    BY <1>5, FailsType DEF OpenPRFails
  <2>2. Stored'
    BY <1>t, <1>5, <2>1 DEF OpenPRFails, TypeOK, Stored, PRs, jobVars
  <2>3. Held'
    BY <1>w, <1>5, ReportHeld DEF OpenPRFails, Phases
  <2>4. QED
    BY <2>2, <2>3, SoundParts
<1>6. QED
  BY <1>1, <1>2, <1>3, <1>4, <1>5

\* The end of a pass, regular or not.
LEMMA EndSound ==
    ASSUME Sound, WriteStatus \/ StatusWriteLost \/ CallFailsOrRestart
    PROVE  Sound'
<1>t. TypeOK /\ PassOK
  BY DEF Sound
<1>1. CASE WriteStatus
  <2> DEFINE p == [obj EXCEPT !.approved = project.approved]
  <2>1. project.approved \in Configs \cup {None}
    BY <1>t DEF TypeOK, Projects
  <2>2. p \in Projects /\ p.pr = obj.pr
    BY <1>t, <2>1, CopyTypes DEF TypeOK
  <2>3. project' \in {p, project} /\ prs' = prs
    BY <1>1 DEF WriteStatus, WriteOf
  <2>4. Stored'
    BY <1>t, <1>1, <2>2, <2>3 DEF WriteStatus, TypeOK, Stored, PRs, jobVars, boundVars
  <2>5. Held'
    BY <1>t, <1>1, <2>2, <2>3, EndHeld DEF WriteStatus, PassOK
  <2>6. QED
    BY <2>4, <2>5, SoundParts
<1>2. CASE StatusWriteLost \/ CallFailsOrRestart
  <2>1. faults' \in 0 .. MaxFaults
    BY <1>t, <1>2, PullRequestAssumption
       DEF StatusWriteLost, CallFailsOrRestart, Fault, TypeOK
  <2>2. Stored'
    BY <1>t, <1>2, <2>1
       DEF StatusWriteLost, CallFailsOrRestart, TypeOK, Stored, PRs, jobVars
  <2>3. project'.pr \in {0} \cup DOMAIN prs'
    BY <1>t, <1>2 DEF StatusWriteLost, CallFailsOrRestart, PassOK
  <2>4. Held'
    <3>1. CASE EndPass
      BY <2>3, <3>1, EndHeld
    <3>2. CASE BecomeIdle /\ lost' = TRUE
      BY <2>3, <3>2, NewProjectType DEF BecomeIdle, Held, PassOK, PassSteps
    <3>3. QED
      BY <1>2, <3>1, <3>2 DEF StatusWriteLost, CallFailsOrRestart
  <2>5. QED
    BY <2>2, <2>4, SoundParts
<1>3. QED
  BY <1>1, <1>2

\* What happens beside the passes; also when nothing happens.
Elsewhere ==
    \/ \E c \in Configs : EndJob(c)
    \/ People
    \/ UNCHANGED vars

LEMMA ElsewhereSteps ==
    ASSUME TypeOK, Elsewhere
    PROVE  /\ UNCHANGED <<project, pc, obj, wanted, historyVars>>
           /\ fresh' \in BOOLEAN /\ lost' = lost
           /\ OnlyCloses /\ OpenPRs' \subseteq OpenPRs
           /\ \A c \in Configs : applies'[c] # "absent" => applies[c] # "absent"
           /\ config' \in Configs /\ queued' \in BOOLEAN
           /\ plans' \in [Configs -> JobStates] /\ applies' \in [Configs -> JobStates]
           /\ edits' \in 0 .. MaxEdits /\ faults' = faults
<1>0. prs' = prs => OnlyCloses /\ OpenPRs' = OpenPRs
  BY UnchangedCloses DEF OpenPRs
<1>1. CASE \E c \in Configs : EndJob(c)
  <2>1. PICK c \in Configs : EndJob(c)
    BY <1>1
  <2>2. UNCHANGED <<config, project, prs, passVars, boundVars, historyVars>>
        /\ queued' = TRUE
    BY <2>1 DEF EndJob
  <2>3. /\ plans' \in [Configs -> JobStates] /\ applies' \in [Configs -> JobStates]
        /\ \A d \in Configs : applies'[d] # "absent" => applies[d] # "absent"
    BY <2>1 DEF EndJob, TypeOK, JobStates
  <2>4. QED
    BY <1>0, <2>2, <2>3 DEF passVars, boundVars, historyVars, TypeOK
<1>2. CASE EditSpec
  <2>1. edits' \in 0 .. MaxEdits
    BY <1>2, PullRequestAssumption DEF EditSpec, TypeOK
  <2>2. QED
    BY <1>0, <1>2, <2>1 DEF EditSpec, TypeOK, jobVars
<1>3. ASSUME NEW n \in 1 .. MaxPRs, MergePR(n) \/ RejectPR(n)
      PROVE  /\ UNCHANGED <<config, project, jobVars, queued, passVars, faults,
                            historyVars>>
             /\ edits' \in 0 .. MaxEdits
             /\ OnlyCloses /\ OpenPRs' \subseteq OpenPRs
  <2>1. n \in OpenPRs /\ \E x \in {"merged", "closed"} : prs' = [prs EXCEPT ![n].state = x]
    BY <1>3 DEF MergePR, RejectPR
  <2>2. OnlyCloses /\ OpenPRs' \subseteq OpenPRs
    BY <2>1, DecisionCloses
  <2>3. edits' \in 0 .. MaxEdits
    BY <1>3, PullRequestAssumption DEF MergePR, RejectPR, TypeOK, boundVars
  <2>4. UNCHANGED <<config, project, jobVars, queued, passVars, faults, historyVars>>
    BY <1>3 DEF MergePR, RejectPR, boundVars
  <2>5. QED
    BY <2>2, <2>3, <2>4
<1>4. CASE UNCHANGED vars
  BY <1>0, <1>4 DEF vars, jobVars, passVars, boundVars, historyVars, TypeOK
<1>5. CASE \E n \in 1 .. MaxPRs : MergePR(n) \/ RejectPR(n)
  <2>1. PICK n \in 1 .. MaxPRs : MergePR(n) \/ RejectPR(n)
    BY <1>5
  <2>2. /\ UNCHANGED <<config, project, jobVars, queued, passVars, faults, historyVars>>
        /\ edits' \in 0 .. MaxEdits /\ OnlyCloses /\ OpenPRs' \subseteq OpenPRs
    BY <1>3, <2>1
  <2>3. QED
    BY <2>2 DEF jobVars, passVars, historyVars, TypeOK
<1>6. QED
  BY <1>1, <1>2, <1>4, <1>5 DEF Elsewhere, People

LEMMA ElsewhereSound ==
    ASSUME Sound, Elsewhere
    PROVE  Sound'
<1>t. TypeOK /\ PassOK
  BY DEF Sound
<1>1. Stored'
  BY <1>t, ElsewhereSteps DEF TypeOK, Stored, OnlyCloses, historyVars
<1>2. UNCHANGED <<project, pc, obj, wanted>> /\ DOMAIN prs' = DOMAIN prs
  BY <1>t, ElsewhereSteps DEF OnlyCloses
<1>3. PassOK'
  BY <1>t, <1>2 DEF PassOK
<1>4. Held'
  BY <1>t, <1>2, <1>3, ElsewhereSteps DEF Held, PassSteps, TypeOK
<1>5. QED
  BY <1>1, <1>4, SoundParts

\* The steps of the specification, as the lemmas above group them.
LEMMA StepKinds ==
    ASSUME [Next]_vars
    PROVE  \/ StartPass \/ WaitForActiveJob \/ NoActiveJob \/ AlreadyApplied
           \/ CloseStalePR \/ InvalidateApproval \/ InvalidatePlan
           \/ CreateApplyJob \/ ApplySucceeded \/ ApplyFailed
           \/ PROpen \/ PRMerged \/ PRClosed
           \/ CreatePlanJob \/ PlanFailed \/ PlanSucceeded \/ OpenPR \/ OpenPRFails
           \/ WriteStatus \/ StatusWriteLost \/ CallFailsOrRestart
           \/ Elsewhere
BY DEF Next, Pass, Elsewhere

LEMMA StepSound == Sound /\ [Next]_vars => Sound'
BY StepKinds, HeadSound, StaleSound, ApplySound, PollSound, PlanSound, EndSound,
   ElsewhereSound

\* Everything the operator keeps about a project with pull requests has its type
\* in every state (TofuProjectStatus, and the variables of a pass).
THEOREM TypeCorrect == Spec => []TypeOK
<1>1. Init => Sound
  BY InitSound
<1>2. Sound /\ [Next]_vars => Sound'
  BY StepSound
<1>3. Sound => TypeOK
  BY DEF Sound
<1>4. QED
  BY <1>1, <1>2, <1>3, PTL DEF Spec

-----------------------------------------------------------------------------
(***************************************************************************)
(* The status names the pull request of its plan.                          *)
(***************************************************************************)

\* p names what q names, or nothing.
NamesAs(p, q) == p.pr = 0 \/ (p.pr = q.pr /\ p.planHash = q.planHash)

\* A merged pull request stays merged.
LEMMA MergedStays ==
    ASSUME OnlyCloses, NEW c, Merged(c)
    PROVE  Merged(c)'
BY DEF OnlyCloses, Merged

\* The pull request that is polled, once merged, is one of this configuration.
LEMMA PolledIsWanted ==
    ASSUME Sound, NamedInv, ~openFailed, Unapproved, PollsPR,
           prs[obj.pr].state = "merged"
    PROVE  Merged(wanted)
<1>0. pc # "open" /\ obj.pr \in {0} \cup DOMAIN prs /\ obj.pr > 0
  BY DEF Sound, PassOK, Unapproved, PastStalePlan, PollsPR
<1>1. pc # "open" /\ obj.pr \in DOMAIN prs /\ obj.pr # 0
  BY <1>0
<1>2. prs[obj.pr].head = wanted
  BY <1>1 DEF NamedInv, Names, PollsPR
<1>3. QED
  BY <1>1, <1>2 DEF Merged

\* A step that makes nothing named, approved or applied that was not.
LEMMA NamedKept ==
    ASSUME Sound, NamedInv, OnlyCloses, openFailed' = openFailed,
           NamesAs(project', project) \/ (pc # "open" /\ NamesAs(project', obj)),
           \/ pc' = "open" \/ NamesAs(obj', project)
           \/ pc # "open" /\ NamesAs(obj', obj),
           ~openFailed =>
              \A c \in Configs :
                 /\ project'.approved = c => project.approved = c \/ Merged(c)
                 /\ applies'[c] # "absent" =>
                       applies[c] # "absent" \/ project.approved = c
    PROVE  NamedInv'
<1> SUFFICES ASSUME ~openFailed
             PROVE  NamedInv'
  BY DEF NamedInv
<1>1. /\ Names(project)
      /\ pc # "open" => Names(obj)
      /\ \A c \in Configs : project.approved = c \/ applies[c] # "absent" => Merged(c)
  BY DEF NamedInv, MergeApprovesItsPlan
<1>2. project.pr \in {0} \cup DOMAIN prs /\ obj.pr \in {0} \cup DOMAIN prs
  BY DEF Sound, PassOK
<1>3. /\ project.pr # 0 => prs'[project.pr].head = project.planHash
      /\ pc # "open" /\ obj.pr # 0 => prs'[obj.pr].head = obj.planHash
  BY <1>1, <1>2 DEF Names, OnlyCloses
<1>4. Names(project)'
  BY <1>3 DEF Names, NamesAs
<1>5. (pc # "open" => Names(obj))'
  BY <1>3 DEF Names, NamesAs
<1>6. MergeApprovesItsPlan'
  <2>1. ASSUME NEW c \in Configs, project'.approved = c \/ applies'[c] # "absent"
        PROVE  Merged(c)'
    BY <1>1, <2>1, MergedStays
  <2>2. QED
    BY <2>1 DEF MergeApprovesItsPlan
<1>7. QED
  BY <1>4, <1>5, <1>6 DEF NamedInv

\* The pass up to the question whether its inputs have a plan, and on which plan
\* is stale.
LEMMA HeadNamed ==
    ASSUME Sound, NamedInv,
           \/ StartPass \/ WaitForActiveJob \/ NoActiveJob \/ AlreadyApplied
           \/ CloseStalePR \/ InvalidateApproval \/ InvalidatePlan
    PROVE  NamedInv'
<1>t. TypeOK /\ PassOK /\ NewProject.pr = 0 /\ None \notin Configs
      /\ project \in Projects /\ obj \in Projects
  BY NewProjectType, PullRequestAssumption DEF Sound, TypeOK
<1>1. CASE StartPass \/ NoActiveJob \/ AlreadyApplied
  <2>1. UNCHANGED <<project, applies, openFailed>> /\ OnlyCloses
    BY <1>t, <1>1, UnchangedCloses
       DEF StartPass, NoActiveJob, AlreadyApplied, OnlyPassMoves, jobVars, historyVars
  <2>2. NamesAs(obj', project) \/ (pc # "open" /\ NamesAs(obj', obj))
    BY <1>t, <1>1
       DEF StartPass, NoActiveJob, AlreadyApplied, GoOn, EndPass, BecomeIdle, NamesAs
  <2>3. QED
    BY <2>1, <2>2, NamedKept DEF NamesAs
<1>2. CASE WaitForActiveJob
  <2>1. UNCHANGED <<project, prs, applies, openFailed>> /\ OnlyCloses /\ pc = "lock"
    BY <1>t, <1>2, UnchangedCloses
       DEF WaitForActiveJob, OnlyPassMoves, jobVars, historyVars
  <2>2. NamesAs(obj', obj)
    BY <1>2, <2>1, ReportHeld DEF WaitForActiveJob, Phases, NamesAs
  <2>3. QED
    BY <2>1, <2>2, NamedKept DEF NamesAs
<1>3. CASE CloseStalePR
  <2>1. OnlyCloses
    BY <1>t, <1>3, UnchangedCloses, ClosedFromCloses DEF CloseStalePR
  <2>2. UNCHANGED <<project, applies, openFailed>> /\ pc = "decide"
    BY <1>3 DEF CloseStalePR, jobVars
  <2>3. obj'.pr = 0
    BY <1>t, <1>3 DEF CloseStalePR, GoOn, Projects
  <2>4. QED
    BY <2>1, <2>2, <2>3, NamedKept DEF NamesAs
<1>4. CASE InvalidateApproval
  <2> DEFINE p == [project EXCEPT !.approved = None]
  <2>1. p.approved = None /\ NamesAs(p, project)
    BY <1>t DEF Projects, NamesAs
  <2>2. UNCHANGED <<applies, openFailed>> /\ OnlyCloses
    BY <1>t, <1>4, UnchangedCloses DEF InvalidateApproval, jobVars, historyVars
  <2>3. project' \in {p, project} /\ obj' \in {p, NewProject}
    BY <1>4 DEF InvalidateApproval, GoOn, EndPass, BecomeIdle
  <2>4. NamesAs(project', project) /\ NamesAs(obj', project)
    BY <1>t, <2>1, <2>3 DEF NamesAs
  <2>5. \A c \in Configs : project'.approved = c => project.approved = c
    BY <1>t, <2>1, <2>3
  <2>6. QED
    BY <2>2, <2>4, <2>5, NamedKept
<1>5. CASE InvalidatePlan
  <2>1. UNCHANGED <<applies, openFailed>> /\ OnlyCloses /\ pc = "stale" /\ obj' = obj
    BY <1>t, <1>5, UnchangedCloses DEF InvalidatePlan, GoOn, jobVars, historyVars
  <2>2. NamesAs(project', project) \/ NamesAs(project', obj)
    BY <1>t, <1>5 DEF InvalidatePlan, WriteOf, NamesAs, Projects
  <2>3. project'.approved = project.approved
    BY <1>t, <1>5 DEF InvalidatePlan, WriteOf, Projects
  <2>4. QED
    BY <2>1, <2>2, <2>3, NamedKept DEF NamesAs
<1>6. QED
  BY <1>1, <1>2, <1>3, <1>4, <1>5

\* createApplyAfterApproval and checkPRMergeStatus.
LEMMA ApprovalNamed ==
    ASSUME Sound, NamedInv,
           \/ CreateApplyJob \/ ApplySucceeded \/ ApplyFailed
           \/ PROpen \/ PRMerged \/ PRClosed
    PROVE  NamedInv'
<1>t. TypeOK /\ PassOK /\ NewProject.pr = 0 /\ None \notin Configs
      /\ project \in Projects /\ obj \in Projects /\ pc \notin {"open", "idle"}
      /\ wanted \in Configs
  BY NewProjectType, PullRequestAssumption
     DEF Sound, TypeOK, PassOK, CreateApplyJob, ApplySucceeded, ApplyFailed, PROpen,
         PRMerged, PRClosed, Approved, Unapproved, PastStalePlan
<1>1. CASE CreateApplyJob
  <2>1. UNCHANGED <<project, prs, openFailed>> /\ OnlyCloses
    BY <1>t, <1>1, UnchangedCloses DEF CreateApplyJob, historyVars
  <2>2. NamesAs(obj', obj)
    BY <1>t, <1>1, <2>1, ReportHeld DEF CreateApplyJob, Phases, NamesAs
  <2>3. project.approved = wanted
    BY <1>t, <1>1 DEF CreateApplyJob, Approved, PassOK
  <2>4. \A c \in Configs : applies'[c] # "absent" =>
           applies[c] # "absent" \/ project.approved = c
    BY <1>t, <1>1, <2>3 DEF CreateApplyJob, TypeOK
  <2>5. QED
    BY <1>t, <2>1, <2>2, <2>4, NamedKept DEF NamesAs
<1>2. CASE ApplySucceeded
  <2>1. UNCHANGED <<project, applies, openFailed>> /\ OnlyCloses
    BY <1>t, <1>2, UnchangedCloses DEF ApplySucceeded, OnlyPassMoves, jobVars, historyVars
  <2>2. obj'.pr = 0
    BY <1>t, <1>2, ResultTypes DEF ApplySucceeded, GoOn
  <2>3. QED
    BY <2>1, <2>2, NamedKept DEF NamesAs
<1>3. CASE ApplyFailed
  <2>1. UNCHANGED <<project, prs, applies, openFailed>> /\ OnlyCloses
    BY <1>t, <1>3, UnchangedCloses DEF ApplyFailed, OnlyPassMoves, jobVars, historyVars
  <2>2. NamesAs(obj', obj)
    BY <1>t, <1>3, <2>1, ReportHeld DEF ApplyFailed, Phases, NamesAs
  <2>3. QED
    BY <1>t, <2>1, <2>2, NamedKept DEF NamesAs
<1>4. CASE PROpen
  <2>1. UNCHANGED <<project, applies, openFailed>> /\ OnlyCloses /\ obj' = NewProject
    BY <1>t, <1>4, UnchangedCloses DEF PROpen, EndPass, BecomeIdle, jobVars, historyVars
  <2>2. QED
    BY <1>t, <2>1, NamedKept DEF NamesAs
<1>5. CASE PRMerged
  <2>1. UNCHANGED <<applies, openFailed>> /\ obj' = NewProject
    BY <1>5 DEF PRMerged, EndPass, BecomeIdle, jobVars, historyVars
  <2>2. OnlyCloses
    BY <1>t, <1>5, ClosedFromCloses DEF PRMerged
  <2>3. ~openFailed => Merged(wanted)
    BY <1>5, PolledIsWanted DEF PRMerged
  <2>4. /\ NamesAs(project', project)
        /\ project'.approved \in {wanted, project.approved}
    BY <1>t, <1>5 DEF PRMerged, NamesAs, Projects
  <2>5. QED
    BY <1>t, <2>1, <2>2, <2>3, <2>4, NamedKept DEF NamesAs
<1>6. CASE PRClosed
  <2>1. UNCHANGED <<project, applies, openFailed>>
    BY <1>6 DEF PRClosed, jobVars, historyVars
  <2>2. OnlyCloses
    BY <1>t, <1>6, ClosedFromCloses DEF PRClosed
  <2>3. obj'.pr = 0
    BY <1>t, <1>6, ResultTypes DEF PRClosed, GoOn
  <2>4. QED
    BY <2>1, <2>2, <2>3, NamedKept DEF NamesAs
<1>7. QED
  BY <1>1, <1>2, <1>3, <1>4, <1>5, <1>6

\* The plan Job, createApprovalPR and the end of the pass.
LEMMA PlanNamed ==
    ASSUME Sound, NamedInv,
           \/ CreatePlanJob \/ PlanFailed \/ PlanSucceeded \/ OpenPR \/ OpenPRFails
           \/ WriteStatus \/ StatusWriteLost \/ CallFailsOrRestart
    PROVE  NamedInv'
<1>t. TypeOK /\ PassOK /\ NewProject.pr = 0
      /\ project \in Projects /\ obj \in Projects /\ pc # "idle" /\ wanted \in Configs
  BY NewProjectType
     DEF Sound, TypeOK, PassOK, CreatePlanJob, PlanFailed, PlanSucceeded, OpenPR,
         OpenPRFails, WriteStatus, StatusWriteLost, CallFailsOrRestart, PlanTurn,
         Unapproved, PastStalePlan
<1>1. CASE CreatePlanJob \/ PlanFailed
  <2>1. UNCHANGED <<project, prs, applies, openFailed>> /\ OnlyCloses
    BY <1>t, <1>1, UnchangedCloses
       DEF CreatePlanJob, PlanFailed, OnlyPassMoves, jobVars, historyVars
  <2>2. pc # "open"
    BY <1>1 DEF CreatePlanJob, PlanFailed, PlanTurn, Unapproved, PastStalePlan
  <2>3. NamesAs(obj', obj)
    BY <1>t, <1>1, <2>1, ReportHeld DEF CreatePlanJob, PlanFailed, Phases, NamesAs
  <2>4. QED
    BY <2>1, <2>2, <2>3, NamedKept DEF NamesAs
<1>2. CASE PlanSucceeded
  <2>1. UNCHANGED <<project, applies, openFailed>> /\ OnlyCloses /\ pc' = "open"
    BY <1>t, <1>2, UnchangedCloses
       DEF PlanSucceeded, OnlyPassMoves, GoOn, jobVars, historyVars
  <2>2. QED
    BY <2>1, NamedKept DEF NamesAs
<1>3. CASE OpenPR
  <2> DEFINE new == Len(prs')
             o == [obj EXCEPT !.phase = "WaitingApproval", !.pr = new]
  <2>1. /\ new \notin DOMAIN prs /\ DOMAIN prs' = DOMAIN prs \cup {new}
        /\ prs'[new].head = wanted
        /\ \A n \in DOMAIN prs : prs'[n] = prs[n]
    BY <1>t, <1>3, OpeningAdds DEF OpenPR
  <2>2. obj' = o /\ UNCHANGED <<project, applies, openFailed>>
    BY <1>3 DEF OpenPR, GoOn, jobVars, historyVars
  <2>3. obj'.pr = new /\ obj'.planHash = wanted
    BY <1>t, <1>3, <2>2 DEF OpenPR, PassOK, Projects
  <2>4. SUFFICES ASSUME ~openFailed
                 PROVE  NamedInv'
    BY <2>2 DEF NamedInv
  <2>5. Names(project) /\ MergeApprovesItsPlan
    BY <2>4 DEF NamedInv
  <2>6. Names(project)'
    BY <1>t, <2>1, <2>2, <2>5 DEF Names, PassOK
  <2>7. Names(obj)'
    BY <2>1, <2>3 DEF Names
  <2>8. MergeApprovesItsPlan'
    <3>1. \A c \in Configs : Merged(c) => Merged(c)'
      BY <2>1 DEF Merged
    <3>2. QED
      BY <2>2, <2>4, <2>5, <3>1 DEF MergeApprovesItsPlan
  <2>9. QED
    BY <2>6, <2>7, <2>8 DEF NamedInv
<1>4. CASE OpenPRFails
  BY <1>4 DEF OpenPRFails, NamedInv
<1>5. CASE WriteStatus
  <2>1. UNCHANGED <<applies, openFailed>> /\ OnlyCloses /\ pc = "status"
        /\ obj' = NewProject
    BY <1>t, <1>5, UnchangedCloses DEF WriteStatus, EndPass, BecomeIdle, jobVars
  <2>2. NamesAs(project', project) \/ NamesAs(project', obj)
    BY <1>t, <1>5 DEF WriteStatus, WriteOf, NamesAs, Projects
  <2>3. project'.approved = project.approved
    BY <1>t, <1>5 DEF WriteStatus, WriteOf, Projects
  <2>4. QED
    BY <1>t, <2>1, <2>2, <2>3, NamedKept DEF NamesAs
<1>6. CASE StatusWriteLost \/ CallFailsOrRestart
  <2>1. UNCHANGED <<project, applies, openFailed>> /\ OnlyCloses /\ obj' = NewProject
    BY <1>t, <1>6, UnchangedCloses
       DEF StatusWriteLost, CallFailsOrRestart, EndPass, BecomeIdle, jobVars
  <2>2. QED
    BY <1>t, <2>1, NamedKept DEF NamesAs
<1>7. QED
  BY <1>1, <1>2, <1>3, <1>4, <1>5, <1>6

LEMMA ElsewhereNamed ==
    ASSUME Sound, NamedInv, Elsewhere
    PROVE  NamedInv'
<1>1. /\ UNCHANGED <<project, pc, obj, openFailed>> /\ OnlyCloses
      /\ \A c \in Configs : applies'[c] # "absent" => applies[c] # "absent"
  BY ElsewhereSteps DEF Sound, historyVars
<1>2. QED
  BY <1>1, NamedKept DEF NamesAs

LEMMA NamedAlways == Spec => [](Sound /\ NamedInv)
<1>1. Init => Sound /\ NamedInv
  <2> SUFFICES ASSUME Init PROVE Sound /\ NamedInv
    OBVIOUS
  <2>1. project.pr = 0 /\ obj.pr = 0 /\ project.approved = None
    BY NewProjectType DEF Init, NewProject
  <2>2. MergeApprovesItsPlan
    BY <2>1, PullRequestAssumption DEF Init, MergeApprovesItsPlan
  <2>3. QED
    BY <2>1, <2>2, InitSound DEF NamedInv, Names
<1>2. (Sound /\ NamedInv) /\ [Next]_vars => (Sound /\ NamedInv)'
  BY StepSound, StepKinds, HeadNamed, ApprovalNamed, PlanNamed, ElsewhereNamed
<1>3. QED
  BY <1>1, <1>2, PTL DEF Spec

\* Whatever the operator has taken for approved or applied, somebody merged a
\* pull request of that very plan, as long as every pull request could be opened
\* (checkPRMergeStatus).
THEOREM MergeApproves == Spec => []MergeApprovesItsPlan
<1>1. (Sound /\ NamedInv) => MergeApprovesItsPlan
  BY DEF NamedInv, MergeApprovesItsPlan
<1>2. QED
  BY <1>1, NamedAlways, PTL

-----------------------------------------------------------------------------
(***************************************************************************)
(* Every open pull request is known.                                       *)
(***************************************************************************)

LEMMA NoneOpen == OpenPRs' = {} => OpenInv'
BY DEF OpenInv, Shows

\* The numbers of pull requests start at one, and their plans are configurations.
LEMMA OpenTypes ==
    ASSUME TypeOK, NEW n \in OpenPRs
    PROVE  n \in DOMAIN prs /\ n # 0 /\ n > 0 /\ prs[n].head \in Configs
<1>1. n \in DOMAIN prs /\ DOMAIN prs = 1 .. Len(prs) /\ prs[n] \in PRs
  BY PRTypes DEF OpenPRs
<1>2. QED
  BY <1>1, PRTypes DEF PRs

\* A pass that goes past the question of a stale plan polls the open pull request
\* if there is one.
LEMMA NothingElseIsOpen ==
    ASSUME Sound, OpenInv, ~mislaid, PastStalePlan
    PROVE  \A n \in OpenPRs : pc = "decide" /\ PollsPR /\ prs[n].head = wanted
<1> SUFFICES ASSUME NEW n \in OpenPRs
             PROVE  pc = "decide" /\ PollsPR /\ prs[n].head = wanted
  OBVIOUS
<1>1. pc = "decide" /\ ~PlanIsStale
  BY DEF OpenInv, PastStalePlan
<1>2. n \in DOMAIN prs /\ n # 0 /\ n > 0 /\ prs[n].head \in Configs
  BY OpenTypes DEF Sound
<1>3. obj = project /\ n = obj.pr /\ prs[n].head = obj.planHash
  BY <1>1 DEF Sound, PassOK, OpenInv, Shows
<1>4. obj.planHash = wanted
  BY <1>1, <1>2, <1>3, PullRequestAssumption DEF PlanIsStale
<1>5. QED
  BY <1>1, <1>2, <1>3, <1>4 DEF PollsPR

\* A step that leaves the pull requests and the project alone.
LEMMA OpenKept ==
    ASSUME Sound, OpenInv, OnlyCloses, OpenPRs' \subseteq OpenPRs,
           UNCHANGED project, ~mislaid' => ~mislaid,
           pc = "status" => pc' = "status" /\ obj'.pr = obj.pr
                            /\ obj'.planHash = obj.planHash,
           pc' = "status" /\ pc # "status" => obj'.pr = project.pr
                            /\ obj'.planHash = project.planHash,
           pc' \in {"stale", "approve", "open"} =>
              pc \in {"stale", "approve", "open"}
    PROVE  OpenInv'
<1> SUFFICES ASSUME ~mislaid, ~mislaid'
             PROVE  OpenInv'
  BY DEF OpenInv
<1>1. \A n \in OpenPRs' : n \in OpenPRs /\ prs'[n].head = prs[n].head
  BY DEF OnlyCloses, OpenPRs
<1>2. \A n \in OpenPRs : prs[n].head # project.approved
  BY DEF OpenInv
<1>3. (\A n \in OpenPRs : prs[n].head # project.approved)'
  BY <1>1, <1>2
<1>4. CASE pc = "status"
  <2>1. /\ \A n \in OpenPRs : n = obj.pr /\ prs[n].head = obj.planHash
        /\ \A n \in OpenPRs : n = project.pr => prs[n].head = project.planHash
    BY <1>4 DEF OpenInv, Shows
  <2>2. /\ \A n \in OpenPRs' : n = obj'.pr /\ prs'[n].head = obj'.planHash
        /\ \A n \in OpenPRs' : n = project'.pr => prs'[n].head = project'.planHash
    BY <1>1, <1>4, <2>1
  <2>3. QED
    BY <1>3, <1>4, <2>2 DEF OpenInv, Shows
<1>5. CASE pc # "status"
  <2>1. \A n \in OpenPRs : n = project.pr /\ prs[n].head = project.planHash
    BY <1>5 DEF OpenInv, Shows
  <2>2. \A n \in OpenPRs' : n = project'.pr /\ prs'[n].head = project'.planHash
    BY <1>1, <2>1
  <2>3. pc' \in {"stale", "approve", "open"} => OpenPRs' = {}
    BY DEF OpenInv
  <2>4. pc' = "status" => \A n \in OpenPRs' : n = obj'.pr /\ prs'[n].head = obj'.planHash
    BY <1>5, <2>2
  <2>5. QED
    BY <1>3, <2>2, <2>3, <2>4 DEF OpenInv, Shows
<1>6. QED
  BY <1>4, <1>5

\* The pass up to the question which plan is stale.
LEMMA HeadOpen ==
    ASSUME Sound, OpenInv,
           \/ StartPass \/ WaitForActiveJob \/ NoActiveJob \/ AlreadyApplied
           \/ CloseStalePR \/ InvalidateApproval \/ InvalidatePlan
    PROVE  OpenInv'
<1>t. TypeOK /\ PassOK
  BY DEF Sound
<1>1. CASE StartPass \/ NoActiveJob \/ AlreadyApplied
  <2>1. UNCHANGED <<project, mislaid>> /\ OnlyCloses /\ OpenPRs' = OpenPRs
    BY <1>t, <1>1, UnchangedCloses
       DEF StartPass, NoActiveJob, AlreadyApplied, OnlyPassMoves, historyVars, OpenPRs
  <2>2. pc # "status" /\ pc' \in {"idle", "lock", "decide"}
    BY <1>1 DEF StartPass, NoActiveJob, AlreadyApplied, GoOn, EndPass, BecomeIdle
  <2>3. QED
    BY <2>1, <2>2, OpenKept
<1>2. CASE WaitForActiveJob
  <2>1. /\ UNCHANGED <<project, prs, mislaid>> /\ OnlyCloses /\ OpenPRs' = OpenPRs
        /\ pc = "lock"
    BY <1>t, <1>2, UnchangedCloses DEF WaitForActiveJob, OnlyPassMoves, historyVars, OpenPRs
  <2>2. pc' = "status" /\ obj'.pr = obj.pr /\ obj'.planHash = obj.planHash
        /\ obj = project
    BY <1>t, <1>2, <2>1, ReportHeld DEF WaitForActiveJob, Phases, PassOK
  <2>3. QED
    BY <2>1, <2>2, OpenKept
<1>3. CASE CloseStalePR
  <2>1. SUFFICES ASSUME ~mislaid, ~mislaid'
                 PROVE  OpenPRs' = {}
    BY <1>3, NoneOpen DEF OpenInv, CloseStalePR
  <2>2. pc = "decide" /\ obj = project
    BY <1>t, <1>3 DEF CloseStalePR, PassOK
  <2>3. \A n \in OpenPRs : n = obj.pr /\ n # 0 /\ prs[n].head = StaleHead
    BY <1>t, <2>1, <2>2, OpenTypes DEF OpenInv, Shows, StaleHead
  <2>4. CASE obj.pr = 0
    BY <1>3, <2>3, <2>4 DEF CloseStalePR, OpenPRs
  <2>5. CASE obj.pr # 0
    <3>1. prs' = ClosedFrom(StaleHead)
      BY <1>3, <2>1, <2>5 DEF CloseStalePR
    <3>2. QED
      BY <1>t, <2>3, <3>1, ClosedFromCloses
  <2>6. QED
    BY <2>4, <2>5
<1>4. CASE InvalidateApproval \/ InvalidatePlan
  <2>1. prs' = prs /\ mislaid' = mislaid /\ pc = "stale"
    BY <1>4 DEF InvalidateApproval, InvalidatePlan, historyVars
  <2>2. OpenPRs' = OpenPRs
    BY <2>1 DEF OpenPRs
  <2>3. ~mislaid => OpenPRs = {}
    BY <2>1 DEF OpenInv
  <2>4. QED
    BY <2>1, <2>2, <2>3, NoneOpen DEF OpenInv
<1>5. QED
  BY <1>1, <1>2, <1>3, <1>4

\* createApplyAfterApproval and checkPRMergeStatus.
LEMMA ApprovalOpen ==
    ASSUME Sound, OpenInv,
           \/ CreateApplyJob \/ ApplySucceeded \/ ApplyFailed
           \/ PROpen \/ PRMerged \/ PRClosed
    PROVE  OpenInv'
<1>t. TypeOK /\ PassOK /\ mislaid' = mislaid /\ PastStalePlan
  BY DEF Sound, CreateApplyJob, ApplySucceeded, ApplyFailed, PROpen, PRMerged, PRClosed,
         Approved, Unapproved, OnlyPassMoves, historyVars
<1>p. ~mislaid => \A n \in OpenPRs : pc = "decide" /\ PollsPR /\ prs[n].head = wanted
  BY <1>t, NothingElseIsOpen
<1>1. CASE CreateApplyJob \/ ApplySucceeded \/ ApplyFailed
  <2>1. prs' = prs /\ obj.approved = wanted
    BY <1>1 DEF CreateApplyJob, ApplySucceeded, ApplyFailed, Approved, OnlyPassMoves
  <2>2. project.approved = wanted
    BY <1>t, <2>1 DEF PassOK, PastStalePlan
  <2>3. OpenPRs' = OpenPRs
    BY <2>1 DEF OpenPRs
  <2>4. ~mislaid => OpenPRs = {}
    BY <1>p, <2>2 DEF OpenInv
  <2>5. QED
    BY <1>t, <2>3, <2>4, NoneOpen DEF OpenInv
<1>2. CASE PROpen
  <2>1. UNCHANGED project /\ OnlyCloses /\ OpenPRs' = OpenPRs /\ pc' = "idle"
    BY <1>t, <1>2, UnchangedCloses DEF PROpen, EndPass, BecomeIdle, OpenPRs
  <2>2. QED
    BY <1>t, <2>1, OpenKept DEF PastStalePlan
<1>3. CASE PRMerged \/ PRClosed
  <2>1. OpenPRs' = {n \in OpenPRs : prs[n].head # wanted}
    BY <1>t, <1>3, ClosedFromCloses DEF PRMerged, PRClosed
  <2>2. ~mislaid => OpenPRs' = {}
    BY <1>p, <2>1
  <2>3. QED
    BY <1>t, <2>2, NoneOpen DEF OpenInv
<1>4. QED
  BY <1>1, <1>2, <1>3

\* The plan Job and createApprovalPR.
LEMMA PlanOpen ==
    ASSUME Sound, OpenInv,
           CreatePlanJob \/ PlanFailed \/ PlanSucceeded \/ OpenPR \/ OpenPRFails
    PROVE  OpenInv'
<1>t. TypeOK /\ PassOK /\ mislaid' = mislaid
  BY DEF Sound, CreatePlanJob, PlanFailed, PlanSucceeded, OpenPR, OpenPRFails,
         OnlyPassMoves, historyVars
<1>1. CASE CreatePlanJob \/ PlanFailed \/ PlanSucceeded \/ OpenPRFails
  <2>1. prs' = prs /\ ((PastStalePlan /\ ~PollsPR) \/ pc = "open")
    BY <1>1 DEF CreatePlanJob, PlanFailed, PlanSucceeded, OpenPRFails, PlanTurn,
                Unapproved, OnlyPassMoves
  <2>2. OpenPRs' = OpenPRs
    BY <2>1 DEF OpenPRs
  <2>3. ~mislaid => OpenPRs = {}
    BY <2>1, NothingElseIsOpen DEF OpenInv
  <2>4. QED
    BY <1>t, <2>2, <2>3, NoneOpen DEF OpenInv
<1>2. CASE OpenPR
  <2> DEFINE new == Len(prs')
             o == [obj EXCEPT !.phase = "WaitingApproval", !.pr = new]
  <2>1. SUFFICES ASSUME ~mislaid
                 PROVE  OpenInv'
    BY <1>t DEF OpenInv
  <2>2. pc = "open" /\ OpenPRs = {} /\ wanted \in Configs
    BY <1>t, <1>2, <2>1 DEF OpenPR, OpenInv, PassOK
  <2>3. /\ OpenPRs' = {new} /\ prs'[new].head = wanted
        /\ new \notin DOMAIN prs /\ new # 0
    BY <1>t, <1>2, <2>2, OpeningAdds DEF OpenPR
  <2>4. pc' = "status" /\ obj' = o /\ project' = project
    BY <1>2 DEF OpenPR, GoOn
  <2>5. obj'.pr = new /\ obj'.planHash = wanted
    BY <1>t, <2>2, <2>4 DEF TypeOK, PassOK, Projects
  <2>6. project.pr # new /\ project.approved # wanted
    BY <1>t, <2>2, <2>3 DEF PassOK
  <2>7. QED
    BY <2>3, <2>4, <2>5, <2>6 DEF OpenInv, Shows
<1>3. QED
  BY <1>1, <1>2

\* The end of a pass: what it opened and could not record is mislaid.
LEMMA EndOpen ==
    ASSUME Sound, OpenInv, WriteStatus \/ StatusWriteLost \/ CallFailsOrRestart
    PROVE  OpenInv'
<1>t. TypeOK /\ PassOK /\ prs' = prs /\ OpenPRs' = OpenPRs /\ pc' = "idle"
      /\ project \in Projects /\ obj \in Projects
      /\ project'.approved = project.approved
  <2>1. project \in Projects /\ obj \in Projects
    BY DEF Sound, TypeOK
  <2>2. project'.approved = project.approved
    BY <2>1 DEF WriteStatus, StatusWriteLost, CallFailsOrRestart, WriteOf, Projects
  <2>3. QED
    BY <2>1, <2>2
       DEF Sound, WriteStatus, StatusWriteLost, CallFailsOrRestart, EndPass, BecomeIdle,
           OpenPRs
<1> SUFFICES ASSUME ~mislaid, ~mislaid'
             PROVE  \A n \in OpenPRs : n = project'.pr /\ prs[n].head = project'.planHash
  <2>1. ASSUME \A n \in OpenPRs : n = project'.pr /\ prs[n].head = project'.planHash,
               ~mislaid
        PROVE  OpenInv'
    BY <1>t, <2>1 DEF OpenInv, Shows
  <2>2. QED
    BY <2>1 DEF OpenInv, WriteStatus, StatusWriteLost, CallFailsOrRestart
<1>1. CASE pc # "status"
  BY <1>1 DEF WriteStatus, StatusWriteLost, CallFailsOrRestart, OpenInv, Shows
<1>2. CASE pc = "status"
  <2>1. \A n \in OpenPRs : /\ n = obj.pr /\ prs[n].head = obj.planHash
                           /\ n = project.pr => prs[n].head = project.planHash
    BY <1>2 DEF OpenInv, Shows
  <2>2. CASE WriteStatus /\ fresh
    BY <1>t, <2>1, <2>2 DEF WriteStatus, WriteOf, Projects
  <2>3. CASE StatusWriteLost \/ CallFailsOrRestart \/ ~fresh
    <3>1. project' = project /\ ~Unrecorded
      BY <2>3 DEF WriteStatus, WriteOf, StatusWriteLost, CallFailsOrRestart
    <3>2. QED
      BY <2>1, <3>1 DEF Unrecorded
  <2>4. QED
    BY <2>2, <2>3
<1>3. QED
  BY <1>1, <1>2

LEMMA ElsewhereOpen ==
    ASSUME Sound, OpenInv, Elsewhere
    PROVE  OpenInv'
<1>1. /\ UNCHANGED <<project, pc, obj, mislaid>> /\ OnlyCloses
      /\ OpenPRs' \subseteq OpenPRs
  BY ElsewhereSteps DEF Sound, historyVars
<1>2. QED
  BY <1>1, OpenKept

\* Between passes no pull request is open that the status does not name, unless
\* its record was lost or GitHub did not close it (closeStaleApprovalPR,
\* createApprovalPR): nobody can merge one that the operator has forgotten.
THEOREM OpenAreKnown == Spec => []OpenPRsAreKnown
<1>1. Init => Sound /\ OpenInv
  <2>1. Init => OpenPRs = {}
    BY DEF Init, OpenPRs
  <2>2. QED
    BY <2>1, InitSound DEF OpenInv, Shows
<1>2. (Sound /\ OpenInv) /\ [Next]_vars => (Sound /\ OpenInv)'
  BY StepSound, StepKinds, HeadOpen, ApprovalOpen, PlanOpen, EndOpen, ElsewhereOpen
<1>3. (Sound /\ OpenInv) => OpenPRsAreKnown
  BY DEF OpenInv, Shows, OpenPRsAreKnown
<1>4. QED
  BY <1>1, <1>2, <1>3, PTL DEF Spec

-----------------------------------------------------------------------------
(***************************************************************************)
(* Merging implements the approval gate.                                   *)
(***************************************************************************)

\* Pull requests are opened by one step and only closed by the others; a plan
\* that has succeeded stays so.
LEMMA PlansAndPRs ==
    ASSUME Sound, [Next]_vars
    PROVE  /\ ~OpenPR => OnlyCloses
           /\ \A c \in Configs : plans[c] = "succeeded" => plans'[c] = "succeeded"
<1>t. TypeOK
  BY DEF Sound
<1>1. CASE Elsewhere
  <2>1. \A c \in Configs : plans[c] = "succeeded" => plans'[c] = "succeeded"
    <3>1. CASE UNCHANGED plans
      BY <3>1
    <3>2. ASSUME NEW d \in Configs, EndJob(d), ~UNCHANGED plans
          PROVE  \A c \in Configs : plans[c] = "succeeded" => plans'[c] = "succeeded"
      BY <1>t, <3>2 DEF EndJob, TypeOK
    <3>3. UNCHANGED plans \/ \E d \in Configs : EndJob(d)
      BY <1>1 DEF Elsewhere, People, EditSpec, MergePR, RejectPR, vars, jobVars
    <3>4. QED
      BY <3>1, <3>2, <3>3
  <2>2. QED
    BY <1>t, <1>1, <2>1, ElsewhereSteps
<1>2. CASE CloseStalePR \/ PRMerged \/ PRClosed
  BY <1>t, <1>2, UnchangedCloses, ClosedFromCloses
     DEF CloseStalePR, PRMerged, PRClosed, jobVars
<1>3. CASE CreatePlanJob \/ OpenPR
  <2>1. CreatePlanJob => OnlyCloses
    BY <1>t, UnchangedCloses DEF CreatePlanJob
  <2>2. \A c \in Configs : plans[c] = "succeeded" => plans'[c] = "succeeded"
    BY <1>t, <1>3 DEF CreatePlanJob, OpenPR, jobVars, TypeOK
  <2>3. QED
    BY <1>3, <2>1, <2>2
<1>4. CASE \/ StartPass \/ WaitForActiveJob \/ NoActiveJob \/ AlreadyApplied
           \/ InvalidateApproval \/ InvalidatePlan
           \/ CreateApplyJob \/ ApplySucceeded \/ ApplyFailed \/ PROpen
           \/ PlanFailed \/ PlanSucceeded \/ OpenPRFails
           \/ WriteStatus \/ StatusWriteLost \/ CallFailsOrRestart
  <2>1. UNCHANGED <<prs, plans>>
    BY <1>4
       DEF StartPass, WaitForActiveJob, NoActiveJob, AlreadyApplied,
           InvalidateApproval, InvalidatePlan, CreateApplyJob, ApplySucceeded,
           ApplyFailed, PROpen, PlanFailed, PlanSucceeded, OpenPRFails,
           WriteStatus, StatusWriteLost, CallFailsOrRestart, OnlyPassMoves, jobVars
  <2>2. QED
    BY <1>t, <2>1, UnchangedCloses
<1>5. QED
  BY <1>1, <1>2, <1>3, <1>4, StepKinds

\* Only a successful plan turns the pass to the opening.
LEMMA WhoTurnsToOpening ==
    ASSUME Sound, [Next]_vars, pc' = "open"
    PROVE  /\ wanted' = wanted
           /\ pc = "open" \/ plans[wanted] = "succeeded"
<1>1. CASE Elsewhere
  BY <1>1, ElsewhereSteps DEF Sound
<1>2. CASE ~Elsewhere
  BY <1>2, StepKinds
     DEF StartPass, WaitForActiveJob, NoActiveJob, AlreadyApplied, CloseStalePR,
         InvalidateApproval, InvalidatePlan, CreateApplyJob, ApplySucceeded,
         ApplyFailed, PROpen, PRMerged, PRClosed, CreatePlanJob, PlanFailed,
         PlanSucceeded, PlanIsReady, OpenPR, OpenPRFails, WriteStatus,
         StatusWriteLost, CallFailsOrRestart, GoOn, ThenReport, EndPass, BecomeIdle
<1>3. QED
  BY <1>1, <1>2

LEMMA PlannedStep ==
    ASSUME Sound, PlannedInv, [Next]_vars
    PROVE  PlannedInv'
<1>t. /\ TypeOK
      /\ \A n \in DOMAIN prs : prs[n].head \in Configs
      /\ pc = "open" => wanted \in Configs
  BY PRTypes DEF Sound, PassOK, PRs
<1>1. \A c \in Configs : plans[c] = "succeeded" => plans'[c] = "succeeded"
  BY PlansAndPRs
<1>2. (\A n \in DOMAIN prs : plans[prs[n].head] = "succeeded")'
  <2>1. CASE OpenPR
    <3>1. /\ pc = "open"
          /\ DOMAIN prs' = DOMAIN prs \cup {Len(prs')}
          /\ prs'[Len(prs')] = [head |-> wanted, state |-> "open"]
          /\ \A n \in DOMAIN prs : prs'[n] = prs[n]
      BY <1>t, <2>1, OpeningAdds DEF OpenPR
    <3>2. plans'[wanted] = "succeeded" /\ prs'[Len(prs')].head = wanted
      BY <1>t, <1>1, <3>1 DEF PlannedInv
    <3>3. \A n \in DOMAIN prs : plans'[prs'[n].head] = "succeeded"
      BY <1>t, <1>1, <3>1 DEF PlannedInv
    <3>4. QED
      BY <3>1, <3>2, <3>3
  <2>2. CASE ~OpenPR
    <3>1. DOMAIN prs' = DOMAIN prs /\ \A n \in DOMAIN prs : prs'[n].head = prs[n].head
      BY <2>2, PlansAndPRs DEF OnlyCloses
    <3>2. QED
      BY <1>t, <1>1, <3>1 DEF PlannedInv
  <2>3. QED
    BY <2>1, <2>2
<1>3. (pc = "open" => plans[wanted] = "succeeded")'
  <2>1. SUFFICES ASSUME pc' = "open" PROVE plans'[wanted'] = "succeeded"
    OBVIOUS
  <2>2. plans[wanted] = "succeeded" /\ wanted' = wanted
    BY <2>1, WhoTurnsToOpening DEF PlannedInv
  <2>3. wanted' \in Configs
    BY <2>1, StepSound DEF Sound, PassOK
  <2>4. QED
    BY <1>1, <2>2, <2>3
<1>4. QED
  BY <1>2, <1>3 DEF PlannedInv

\* Only people merge.
LEMMA OthersDoNotMerge ==
    ASSUME Sound, [Next]_vars, \A n \in 1 .. MaxPRs : ~MergePR(n)
    PROVE  \A c : Merged(c)' <=> Merged(c)
<1>t. TypeOK
  BY DEF Sound
<1>1. CASE OpenPR
  <2>1. /\ wanted \in Configs
        /\ prs' = Append(prs, [head |-> wanted, state |-> "open"])
    BY <1>1 DEF OpenPR, Sound, PassOK
  <2>2. /\ DOMAIN prs' = DOMAIN prs \cup {Len(prs')}
        /\ prs'[Len(prs')] = [head |-> wanted, state |-> "open"]
        /\ \A n \in DOMAIN prs : prs'[n] = prs[n]
    BY <1>t, <2>1, OpeningAdds
  <2>3. prs'[Len(prs')].state # "merged"
    BY <2>2
  <2>4. QED
    BY <2>2, <2>3 DEF Merged
<1>2. CASE ~OpenPR
  <2>1. OnlyCloses
    BY <1>2, PlansAndPRs
  <2>2. \A n \in DOMAIN prs : prs'[n].state = "merged" => prs[n].state = "merged"
    <3>1. CASE prs' = prs
      BY <3>1
    <3>2. CASE \E c : prs' = ClosedFrom(c)
      BY <3>2, PRTypes, <1>t DEF ClosedFrom, PRs
    <3>3. CASE \E n \in 1 .. MaxPRs : RejectPR(n)
      <4>1. PICK n \in DOMAIN prs : prs' = [prs EXCEPT ![n].state = "closed"]
        BY <3>3 DEF RejectPR, OpenPRs
      <4>2. prs'[n].state = "closed" /\ \A m \in DOMAIN prs \ {n} : prs'[m] = prs[m]
        BY <1>t, <4>1, PRTypes DEF PRs
      <4>3. QED
        BY <4>2
    <3>4. \/ prs' = prs \/ \E c : prs' = ClosedFrom(c)
          \/ \E n \in 1 .. MaxPRs : RejectPR(n)
      BY <1>2, StepKinds
         DEF StartPass, WaitForActiveJob, NoActiveJob, AlreadyApplied,
             CloseStalePR, InvalidateApproval, InvalidatePlan, CreateApplyJob,
             ApplySucceeded, ApplyFailed, PROpen, PRMerged, PRClosed,
             CreatePlanJob, PlanFailed, PlanSucceeded, OpenPRFails, WriteStatus,
             StatusWriteLost, CallFailsOrRestart, OnlyPassMoves, Elsewhere, People,
             EditSpec, EndJob, vars
    <3>5. QED
      BY <3>1, <3>2, <3>3, <3>4
  <2>3. QED
    BY <2>1, <2>2 DEF OnlyCloses, Merged
<1>3. QED
  BY <1>1, <1>2

\* One configuration moves along the gate and the others stay: a gate step.
LEMMA OneMoves ==
    ASSUME NEW h \in Configs,
           \A g \in Configs \ {h} : GateOf(g)' = GateOf(g),
           \/ GateOf(h)' = GateOf(h)
           \/ GateOf(h) = "unplanned" /\ GateOf(h)' = "planned"
           \/ GateOf(h) = "planned" /\ GateOf(h)' = "approved"
           \/ GateOf(h) = "approved" /\ GateOf(h)' = "applying"
           \/ GateOf(h) = "applying" /\ GateOf(h)' = "applied"
    PROVE  [Gate!GateNext]_stages
<1>1. stages[h] = GateOf(h) /\ stages' = [stages EXCEPT ![h] = GateOf(h)']
  BY DEF stages
<1>2. CASE GateOf(h)' = GateOf(h)
  <2>1. stages' = stages
    BY <1>2 DEF stages
  <2>2. QED
    BY <2>1
<1>3. CASE GateOf(h)' # GateOf(h)
  BY <1>1, <1>3
     DEF Gate!GateNext, Gate!Plan, Gate!Grant, Gate!Launch, Gate!Finish, Gate!Move
<1>4. QED
  BY <1>2, <1>3

\* A Job that ends: a plan becomes ready, an apply final, or neither succeeds.
LEMMA EndJobMovesGate ==
    ASSUME Sound, PlannedInv, NEW h \in Configs, EndJob(h)
    PROVE  [Gate!GateNext]_stages
<1>t. plans \in [Configs -> JobStates] /\ applies \in [Configs -> JobStates]
  BY DEF Sound, TypeOK
<1>1. \A c : Merged(c)' <=> Merged(c)
  BY DEF EndJob, Merged
<1>2. \A g \in Configs \ {h} : GateOf(g)' = GateOf(g)
  BY <1>t, <1>1 DEF EndJob, GateOf
<1>3. CASE plans[h] = "active" /\ UNCHANGED applies
  <2>1. ~Merged(h)
    BY <1>3 DEF PlannedInv, Merged
  <2>2. \/ GateOf(h)' = GateOf(h)
        \/ GateOf(h) = "unplanned" /\ GateOf(h)' = "planned"
    BY <1>1, <1>3, <2>1 DEF GateOf
  <2>3. QED
    BY <1>2, <2>2, OneMoves
<1>4. CASE applies[h] = "active"
  <2>1. applies'[h] \in {"active", "succeeded", "failed"}
    BY <1>t, <1>4 DEF EndJob
  <2>2. GateOf(h) = "applying" /\ GateOf(h)' \in {"applying", "applied"}
    BY <1>4, <2>1 DEF GateOf
  <2>3. QED
    BY <1>2, <2>2, OneMoves
<1>5. QED
  BY <1>3, <1>4 DEF EndJob

\* A merge approves the plan it was opened for.
LEMMA MergeMovesGate ==
    ASSUME Sound, PlannedInv, NEW n \in 1 .. MaxPRs, MergePR(n)
    PROVE  [Gate!GateNext]_stages
<1>t. TypeOK
  BY DEF Sound
<1>1. /\ n \in DOMAIN prs /\ prs' = [prs EXCEPT ![n].state = "merged"]
      /\ UNCHANGED <<plans, applies>>
  BY DEF MergePR, OpenPRs, jobVars
<1>2. PICK h \in Configs : prs[n].head = h /\ plans[h] = "succeeded"
  BY <1>t, <1>1, PRTypes DEF PlannedInv, PRs
<1>3. /\ DOMAIN prs' = DOMAIN prs
      /\ prs'[n].head = h /\ prs'[n].state = "merged"
      /\ \A m \in DOMAIN prs \ {n} : prs'[m] = prs[m]
  BY <1>t, <1>1, <1>2, PRTypes DEF PRs
<1>4. Merged(h)' /\ \A g \in Configs \ {h} : Merged(g)' <=> Merged(g)
  <2>1. Merged(h)'
    BY <1>1, <1>3 DEF Merged
  <2>2. ASSUME NEW g \in Configs \ {h} PROVE Merged(g)' <=> Merged(g)
    BY <1>1, <1>2, <1>3 DEF Merged
  <2>3. QED
    BY <2>1, <2>2
<1>5. \A g \in Configs \ {h} : GateOf(g)' = GateOf(g)
  BY <1>1, <1>4 DEF GateOf
<1>6. \/ GateOf(h)' = GateOf(h)
      \/ GateOf(h) = "planned" /\ GateOf(h)' = "approved"
  BY <1>1, <1>2, <1>4 DEF GateOf
<1>7. QED
  BY <1>2, <1>5, <1>6, OneMoves

\* An apply Job is created for a configuration that somebody merged.
LEMMA CreationMovesGate ==
    ASSUME Sound, NamedInv, ~openFailed, CreateApplyJob
    PROVE  [Gate!GateNext]_stages
<1>1. pc # "idle" /\ obj.approved = wanted /\ applies[wanted] = "absent"
  BY DEF CreateApplyJob, Approved, PastStalePlan
<1>2. PICK h \in Configs : wanted = h /\ project.approved = h /\ applies[h] = "absent"
  BY <1>1 DEF Sound, PassOK
<1>3. Merged(h)
  BY <1>2 DEF NamedInv, MergeApprovesItsPlan
<1>4. /\ applies' = [applies EXCEPT ![h] = "active"]
      /\ UNCHANGED <<plans, prs>> /\ applies \in [Configs -> JobStates]
  BY <1>2 DEF CreateApplyJob, Sound, TypeOK
<1>5. \A c : Merged(c)' <=> Merged(c)
  BY <1>4 DEF Merged
<1>6. \A g \in Configs \ {h} : GateOf(g)' = GateOf(g)
  BY <1>4, <1>5 DEF GateOf
<1>7. GateOf(h) = "approved" /\ GateOf(h)' = "applying"
  BY <1>2, <1>3, <1>4 DEF GateOf
<1>8. QED
  BY <1>2, <1>6, <1>7, OneMoves

LEMMA GateStep ==
    ASSUME Sound, NamedInv, PlannedInv, ~openFailed, [Next]_vars
    PROVE  [Gate!GateNext]_stages
<1>1. CASE \E c \in Configs : EndJob(c)
  BY <1>1, EndJobMovesGate
<1>2. CASE \E n \in 1 .. MaxPRs : MergePR(n)
  BY <1>2, MergeMovesGate
<1>3. CASE CreateApplyJob
  BY <1>3, CreationMovesGate
<1>4. CASE /\ ~(\E c \in Configs : EndJob(c)) /\ ~CreateApplyJob
           /\ \A n \in 1 .. MaxPRs : ~MergePR(n)
  <2>1. \A c : Merged(c)' <=> Merged(c)
    BY <1>4, OthersDoNotMerge
  <2>2. UNCHANGED applies
    BY <1>4, StepKinds
       DEF StartPass, WaitForActiveJob, NoActiveJob, AlreadyApplied,
           CloseStalePR, InvalidateApproval, InvalidatePlan, ApplySucceeded,
           ApplyFailed, PROpen, PRMerged, PRClosed, CreatePlanJob, PlanFailed,
           PlanSucceeded, OpenPR, OpenPRFails, WriteStatus, StatusWriteLost,
           CallFailsOrRestart, OnlyPassMoves, Elsewhere, People, EditSpec, RejectPR, vars, jobVars
  <2>3. \A c \in Configs : plans'[c] = "succeeded" <=> plans[c] = "succeeded"
    <3>1. CASE CreatePlanJob
      BY <3>1, PlansAndPRs DEF CreatePlanJob, Sound, TypeOK
    <3>2. CASE ~CreatePlanJob
      BY <1>4, <3>2, StepKinds
         DEF StartPass, WaitForActiveJob, NoActiveJob, AlreadyApplied,
             CloseStalePR, InvalidateApproval, InvalidatePlan, ApplySucceeded,
             ApplyFailed, PROpen, PRMerged, PRClosed, PlanFailed,
             PlanSucceeded, OpenPR, OpenPRFails, WriteStatus, StatusWriteLost,
             CallFailsOrRestart, OnlyPassMoves, Elsewhere, People, EditSpec, RejectPR, vars, jobVars
    <3>3. QED
      BY <3>1, <3>2
  <2>4. stages' = stages
    BY <2>1, <2>2, <2>3 DEF stages, GateOf
  <2>5. QED
    BY <2>4
<1>5. QED
  BY <1>1, <1>2, <1>3, <1>4

\* With pull requests the plan-then-approve flow implements the same gate, merging
\* in place of kubectl approve: however edits, rejections, conflicts and restarts
\* interleave with the polls, each configuration goes from planned to merged to
\* applying to applied, and never back, as long as every pull request could be
\* opened (reconcilePlanApprove, checkPRMergeStatus, createApplyAfterApproval).
THEOREM MergeImplementsGate == Spec => MergeIsTheGate
<1>1. Init => Gate!GateInit /\ PlannedInv
  <2> SUFFICES ASSUME Init PROVE Gate!GateInit /\ PlannedInv
    OBVIOUS
  <2>1. DOMAIN prs = {} /\ pc = "idle"
    BY DEF Init
  <2>2. \A c \in Configs : GateOf(c) = "unplanned"
    BY <2>1 DEF Init, GateOf, Merged
  <2>3. QED
    BY <2>1, <2>2 DEF Gate!GateInit, PlannedInv, stages
<1>2. Spec => [](Sound /\ NamedInv)
  BY NamedAlways
<1>3. (Sound /\ NamedInv) /\ PlannedInv /\ [Next]_vars => PlannedInv'
  BY PlannedStep
<1>4. (Sound /\ NamedInv) /\ PlannedInv /\ [Next]_vars
          => [~openFailed => Gate!GateNext]_stages
  BY GateStep
<1>5. QED
  BY <1>1, <1>2, <1>3, <1>4, PTL DEF Spec, MergeIsTheGate
=============================================================================
