----------------------------- MODULE FleetProofs -----------------------------
(***************************************************************************)
(* Theorems about Fleet, for any projects, dependencies, sources and       *)
(* settings, and any number of edits, changes by others and faults.        *)
(***************************************************************************)
EXTENDS Fleet, TLAPS

-----------------------------------------------------------------------------
(***************************************************************************)
(* The inductive invariant: types, what a pass holds in its hands at each  *)
(* of its steps, and the lock, which stays free for the pass that found it *)
(* so because only passes create Jobs and no other pass runs.              *)
(***************************************************************************)

PassOK ==
    /\ pc = "idle" <=> cur = None
    /\ pc \in {"lock", "flow"} => target \in Hashes(cur)

Sound == TypeOK /\ PassOK

LockKept == pc = "flow" /\ cur \in settings.shared => ~NamespaceBusy

IInv == Sound /\ LockKept /\ SharedExclusion

\* What a pass has: a project, a copy of its status and maybe a hash.
InHand ==
    \/ cur \in Projects /\ obj \in Statuses(cur)
                        /\ target \in Hashes(cur) \cup {None}
    \/ cur = None /\ obj = NewStatus /\ target = None

Stored ==
    /\ settings \in Settings
    /\ spec \in [Projects -> Values] /\ sources \in [Sources -> ValuesOrNone]
    /\ DOMAIN status = Projects /\ DOMAIN applyJobs = Projects
    /\ \A p \in Projects : /\ status[p] \in Statuses(p)
                           /\ applyJobs[p] \in [Hashes(p) -> JobStates]
    /\ driftJobs \in [Projects -> DriftStates]
    /\ drifted \subseteq Projects /\ queue \subseteq Projects
    /\ timers \subseteq Projects
    /\ edits \in 0 .. MaxEdits /\ drifts \in 0 .. MaxDrifts
    /\ faults \in 0 .. MaxFaults

PassSteps == {"idle", "lock", "flow", "delete", "status"}

Held ==
    /\ InHand /\ PassOK /\ pc \in PassSteps /\ fresh \in BOOLEAN
    /\ lost \subseteq Projects

LEMMA SoundParts == (Sound <=> Stored /\ Held) /\ (Sound' <=> Stored' /\ Held')
<1>1. Sound <=> Stored /\ Held
  BY DEF Sound, TypeOK, Stored, Held, InHand, PassSteps
<1>2. Sound' <=> Stored' /\ Held'
  BY DEF Sound, TypeOK, Stored, Held, InHand, PassSteps
<1>3. QED
  BY <1>1, <1>2

\* A pass that is over has nothing in its hands.
LEMMA EndHeld ==
    ASSUME Sound, EndPass
    PROVE  Held'
BY DEF EndPass, BecomeIdle, Held, InHand, PassOK, PassSteps, Sound, TypeOK

\* A pass is about a project.
LEMMA CurType ==
    ASSUME Sound, pc # "idle"
    PROVE  /\ cur \in Projects /\ obj \in Statuses(cur)
           /\ target \in Hashes(cur) \cup {None}
           /\ pc \in {"lock", "flow"} => target \in Hashes(cur)
BY FleetAssumption DEF Sound, TypeOK, PassOK

\* A pass that goes on keeps what it has, but for its copy.
LEMMA GoOnHeld ==
    ASSUME Sound, NEW step \in {"flow", "delete", "status"}, NEW o,
           pc # "idle", o \in Statuses(cur), GoOn(step, o),
           step = "flow" => pc \in {"lock", "flow"}
    PROVE  Held'
<1>1. /\ cur \in Projects /\ target \in Hashes(cur) \cup {None}
      /\ pc \in {"lock", "flow"} => target \in Hashes(cur)
  BY CurType
<1>2. /\ pc' = step /\ obj' = o
      /\ cur' = cur /\ target' = target /\ fresh' = fresh /\ lost' = lost
  BY DEF GoOn
<1>3. InHand'
  BY <1>1, <1>2 DEF InHand, Statuses, Hashes
<1>4. PassOK'
  BY <1>1, <1>2, FleetAssumption DEF PassOK, Sound, Hashes
<1>5. QED
  BY <1>2, <1>3, <1>4 DEF Held, PassSteps, Sound, TypeOK

\* The copy's updates keep it a status.
LEMMA CopyTypes ==
    ASSUME NEW p, NEW o \in Statuses(p)
    PROVE  /\ \A x \in Phases : [o EXCEPT !.phase = x] \in Statuses(p)
           /\ \A b \in BOOLEAN : [o EXCEPT !.checked = b] \in Statuses(p)
           /\ [o EXCEPT !.applied = None] \in Statuses(p)
           /\ \A found \in DriftStates \ {"absent", "active"} :
                 DriftResult(o, found) \in Statuses(p)
<1>1. \A x \in Phases : [o EXCEPT !.phase = x] \in Statuses(p)
  BY DEF Statuses
<1>2. \A b \in BOOLEAN : [o EXCEPT !.checked = b] \in Statuses(p)
  BY DEF Statuses
<1>3. [o EXCEPT !.applied = None] \in Statuses(p)
  BY DEF Statuses
<1>4. ASSUME NEW found \in DriftStates \ {"absent", "active"}
      PROVE  DriftResult(o, found) \in Statuses(p)
  <2>1. CASE found = "clean"
    BY <2>1 DEF DriftResult, Statuses, Phases
  <2>2. CASE found = "dirty"
    BY <2>2 DEF DriftResult, Statuses
  <2>3. CASE found = "failed"
    BY <2>3 DEF DriftResult, Statuses
  <2>4. QED
    BY <2>1, <2>2, <2>3 DEF DriftStates
<1>5. QED
  BY <1>1, <1>2, <1>3, <1>4

\* Storing a status keeps what is stored well typed.
LEMMA StoreIsSound ==
    ASSUME Sound, NEW o, cur \in Projects, o \in Statuses(cur), StoreStatus(o)
    PROVE  /\ DOMAIN status' = Projects
           /\ \A p \in Projects : status'[p] \in Statuses(p)
           /\ queue' \subseteq Projects
<1>1. status' = status \/ status' = [status EXCEPT ![cur] = o]
  BY DEF StoreStatus
<1>2. DOMAIN status = Projects /\ \A p \in Projects : status[p] \in Statuses(p)
  BY DEF Sound, TypeOK
<1>3. queue' \subseteq Projects
  BY DEF StoreStatus, Sound, TypeOK, Dependents
<1>4. QED
  BY <1>1, <1>2, <1>3

\* The hash that a pass computes when nothing is missing.
LEMMA WantedType ==
    ASSUME Sound, NEW p \in Projects, Ready(p)
    PROVE  Wanted(p) \in Hashes(p)
<1>1. spec[p] \in Values
  BY DEF Sound, TypeOK
<1>2. \A s \in References[p] : sources[s] \in Values
  BY FleetAssumption DEF Sound, TypeOK, Ready, Resolvable, ValuesOrNone
<1>3. \A u \in Upstreams[p] : status[u].output \in Values
  <2>1. \A u \in Upstreams[p] : u \in Projects
    BY FleetAssumption
  <2>2. \A u \in Upstreams[p] : status[u] \in Statuses(u)
    BY <2>1 DEF Sound, TypeOK
  <2>3. \A u \in Upstreams[p] : status[u].output \in ValuesOrNone
    BY <2>2 DEF Statuses
  <2>4. QED
    BY <2>3 DEF Ready, UpstreamsReady, ValuesOrNone
<1>4. QED
  BY <1>1, <1>2, <1>3 DEF Wanted, Hashes

\* A fault stays within its bound.
LEMMA FaultType ==
    ASSUME Sound, Fault
    PROVE  faults' \in 0 .. MaxFaults
BY FleetAssumption DEF Sound, TypeOK, Fault

\* A step that moves the pass alone leaves what is stored.
LEMMA FrameStored ==
    ASSUME Sound, OnlyPassMoves, queue' \subseteq Projects, timers' \subseteq Projects
    PROVE  Stored'
BY DEF Sound, TypeOK, OnlyPassMoves, inputVars, jobVars, boundVars, Stored, Statuses,
       Hashes

\* The work queue and the timers hold projects.
LEMMA ScheduleTypes ==
    ASSUME Sound, pc # "idle", ComesBack \/ SetTimer \/ NothingScheduled
    PROVE  queue' \subseteq Projects /\ timers' \subseteq Projects
<1>1. cur \in Projects /\ queue \subseteq Projects /\ timers \subseteq Projects
  BY CurType DEF Sound, TypeOK
<1>2. QED
  BY <1>1 DEF ComesBack, SetTimer, NothingScheduled

\* So do the Jobs keep their types.
LEMMA ApplyJobsType ==
    ASSUME Sound, NEW q \in Projects, NEW h \in Hashes(q), NEW x \in JobStates,
           applyJobs' = [applyJobs EXCEPT ![q][h] = x]
    PROVE  /\ DOMAIN applyJobs' = Projects
           /\ \A p \in Projects : applyJobs'[p] \in [Hashes(p) -> JobStates]
<1>1. /\ DOMAIN applyJobs = Projects
      /\ \A p \in Projects : applyJobs[p] \in [Hashes(p) -> JobStates]
  BY DEF Sound, TypeOK
<1>2. [applyJobs[q] EXCEPT ![h] = x] \in [Hashes(q) -> JobStates]
  BY <1>1
<1>3. applyJobs' = [applyJobs EXCEPT ![q] = [applyJobs[q] EXCEPT ![h] = x]]
  OBVIOUS
<1>4. QED
  BY <1>1, <1>2, <1>3

LEMMA DriftJobsType ==
    ASSUME Sound, NEW q, NEW x \in DriftStates,
           driftJobs' = [driftJobs EXCEPT ![q] = x]
    PROVE  driftJobs' \in [Projects -> DriftStates]
BY DEF Sound, TypeOK

-----------------------------------------------------------------------------
(***************************************************************************)
(* Types.                                                                  *)
(***************************************************************************)

LEMMA InitSound == Init => Sound
<1> SUFFICES ASSUME Init PROVE Sound
  OBVIOUS
<1>2. FirstValue \in Values
  BY FleetAssumption DEF FirstValue
<1>3. \A p \in Projects : NewStatus \in Statuses(p)
  BY DEF NewStatus, Statuses, Phases, ValuesOrNone
<1>4. Stored
  BY <1>2, <1>3, FleetAssumption DEF Init, Stored, ValuesOrNone, JobStates, DriftStates
<1>5. Held
  BY DEF Init, Held, InHand, PassOK, PassSteps
<1>6. QED
  BY <1>4, <1>5, SoundParts

\* The beginning of a pass.
LEMMA ServeSound ==
    ASSUME Sound, NEW p \in Projects, Serve(p)
    PROVE  Sound'
<1>1. status[p] \in Statuses(p)
  BY DEF Sound, TypeOK
<1>2. CASE StartPass(p)
  <2>1. Stored'
    BY <1>2, FrameStored DEF StartPass, Sound, TypeOK
  <2>2. Wanted(p) \in Hashes(p)
    BY <1>2, WantedType DEF StartPass
  <2>3. /\ pc' = "lock" /\ cur' = p /\ obj' = status[p] /\ target' = Wanted(p)
        /\ fresh' = TRUE /\ lost' \subseteq Projects
    BY <1>2 DEF StartPass, Sound, TypeOK
  <2>4. InHand'
    BY <1>1, <2>2, <2>3 DEF InHand, Statuses, Hashes
  <2>5. PassOK'
    BY <2>2, <2>3, FleetAssumption DEF PassOK, Hashes
  <2>6. QED
    BY <2>1, <2>3, <2>4, <2>5, SoundParts DEF Held, PassSteps
<1>3. ASSUME NEW x \in Phases, ComeBackIn(p, x)
      PROVE  Sound'
  <2>1. Stored'
    BY <1>3, FrameStored DEF ComeBackIn, NothingScheduled, Sound, TypeOK
  <2>2. [status[p] EXCEPT !.phase = x] \in Statuses(p)
    BY <1>1, CopyTypes
  <2>3. /\ pc' = "status" /\ cur' = p /\ target' = None /\ fresh' = TRUE
        /\ obj' = [status[p] EXCEPT !.phase = x] /\ lost' \subseteq Projects
    BY <1>3 DEF ComeBackIn, Sound, TypeOK
  <2>4. InHand'
    BY <2>2, <2>3 DEF InHand, Statuses, Hashes
  <2>5. PassOK'
    BY <2>3, FleetAssumption DEF PassOK
  <2>6. QED
    BY <2>1, <2>3, <2>4, <2>5, SoundParts DEF Held, PassSteps
<1>4. CASE ParamsMissing(p)
  BY <1>4, <1>3 DEF ParamsMissing, Phases
<1>5. CASE WaitForUpstream(p)
  BY <1>5, <1>3 DEF WaitForUpstream, Phases
<1>6. QED
  BY <1>2, <1>4, <1>5 DEF Serve

\* What a pass does up to its end.
LEMMA PassStepSound ==
    ASSUME Sound, PassStep
    PROVE  Sound'
<1>1. pc # "idle"
  BY DEF PassStep, WaitForNamespace, WaitForActiveJob, LockIsFree, AlreadyApplied,
         CreateApplyJob, ApplySucceeded, ApplyFailed, ApplyTurn, TooEarly,
         CreateDriftJob, DriftStillActive, DriftChecked, DriftTurn, DeleteDriftJob,
         WriteStatus
<1>2. /\ cur \in Projects /\ obj \in Statuses(cur)
      /\ target \in Hashes(cur) \cup {None}
      /\ pc \in {"lock", "flow"} => target \in Hashes(cur)
  BY <1>1, CurType
<1>3. /\ \A x \in Phases : [obj EXCEPT !.phase = x] \in Statuses(cur)
      /\ [obj EXCEPT !.applied = None] \in Statuses(cur)
      /\ \A found \in DriftStates \ {"absent", "active"} :
            DriftResult(obj, found) \in Statuses(cur)
  BY <1>2, CopyTypes
<1>4. \A x \in Phases :
         GoOn("status", [obj EXCEPT !.phase = x]) => Held'
  BY <1>1, <1>3, GoOnHeld
<1>5. ASSUME OnlyPassMoves, ComesBack \/ SetTimer \/ NothingScheduled
      PROVE  Stored'
  BY <1>1, <1>5, ScheduleTypes, FrameStored
<1>6. CASE WaitForNamespace
  BY <1>4, <1>5, <1>6, SoundParts DEF WaitForNamespace, Phases
<1>7. CASE WaitForActiveJob
  BY <1>4, <1>5, <1>7, SoundParts DEF WaitForActiveJob, Phases
<1>8. CASE LockIsFree
  <2>1. Held'
    BY <1>1, <1>2, <1>8, GoOnHeld DEF LockIsFree
  <2>2. QED
    BY <1>5, <1>8, <2>1, SoundParts DEF LockIsFree
<1>9. CASE AlreadyApplied \/ TooEarly \/ DriftStillActive
  BY <1>5, <1>9, EndHeld, SoundParts DEF AlreadyApplied, TooEarly, DriftStillActive
<1>10. CASE CreateApplyJob
  <2>1. /\ DOMAIN applyJobs' = Projects
        /\ \A p \in Projects : applyJobs'[p] \in [Hashes(p) -> JobStates]
    BY <1>2, <1>10, ApplyJobsType DEF CreateApplyJob, ApplyTurn, JobStates
  <2>2. queue' \subseteq Projects /\ timers' \subseteq Projects
    BY <1>1, <1>10, ScheduleTypes DEF CreateApplyJob
  <2>3. Stored'
    BY <1>10, <2>1, <2>2
    DEF CreateApplyJob, Stored, Sound, TypeOK, inputVars, boundVars, Statuses, Hashes
  <2>4. QED
    BY <1>4, <1>10, <2>3, SoundParts DEF CreateApplyJob, Phases
<1>11. CASE ApplySucceeded
  <2> DEFINE done == [obj EXCEPT !.phase = "Succeeded", !.applied = target,
                                 !.drift = FALSE,
                                 !.checked = @ \/ cur \in settings.drifting]
  <2>1. target \in Hashes(cur)
    BY <1>2, <1>11 DEF ApplySucceeded, ApplyTurn
  <2>2. done \in Statuses(cur)
    BY <1>2, <2>1 DEF Statuses, Phases
  <2>3. [done EXCEPT !.output = target.value] \in Statuses(cur)
    BY <2>1, <2>2 DEF Statuses, Hashes, ValuesOrNone
  <2> HIDE DEF done
  <2>4. Held'
    <3>1. GoOn("status", [done EXCEPT !.output = target.value])
             \/ GoOn("status", done)
      BY <1>11 DEF ApplySucceeded, done
    <3>2. QED
      BY <1>1, <2>2, <2>3, <3>1, GoOnHeld
  <2>5. faults' \in 0 .. MaxFaults
    BY <1>11, FaultType DEF ApplySucceeded, Sound, TypeOK
  <2>6. queue' \subseteq Projects /\ timers' \subseteq Projects
    BY <1>1, <1>11, ScheduleTypes DEF ApplySucceeded
  <2>7. Stored'
    BY <1>11, <2>5, <2>6
    DEF ApplySucceeded, Stored, Sound, TypeOK, inputVars, jobVars, Statuses, Hashes
  <2>8. QED
    BY <2>4, <2>7, SoundParts
<1>12. CASE ApplyFailed
  BY <1>4, <1>5, <1>12, SoundParts DEF ApplyFailed, Phases
<1>13. CASE CreateDriftJob
  <2>1. driftJobs' \in [Projects -> DriftStates]
    BY <1>13, DriftJobsType DEF CreateDriftJob, DriftStates
  <2>2. queue' \subseteq Projects /\ timers' \subseteq Projects
    BY <1>1, <1>13, ScheduleTypes DEF CreateDriftJob
  <2>3. Stored'
    BY <1>13, <2>1, <2>2
    DEF CreateDriftJob, Stored, Sound, TypeOK, inputVars, boundVars, Statuses, Hashes
  <2>4. QED
    BY <1>4, <1>13, <2>3, SoundParts DEF CreateDriftJob, Phases
<1>14. CASE DriftChecked
  <2> DEFINE checked == DriftResult(obj, driftJobs[cur])
  <2>1. checked \in Statuses(cur)
    BY <1>3, <1>14 DEF DriftChecked, DriftStates
  <2> HIDE DEF checked
  <2>2. CASE StoreStatus(checked) /\ GoOn("delete", checked) /\ UNCHANGED faults
    <3>1. /\ DOMAIN status' = Projects
          /\ \A p \in Projects : status'[p] \in Statuses(p)
          /\ queue' \subseteq Projects
      BY <1>2, <2>1, <2>2, StoreIsSound
    <3>2. Held'
      BY <1>1, <2>1, <2>2, GoOnHeld
    <3>3. Stored'
      BY <1>14, <2>2, <3>1
      DEF DriftChecked, Stored, Sound, TypeOK, inputVars, jobVars, Statuses, Hashes
    <3>4. QED
      BY <3>2, <3>3, SoundParts
  <2>3. CASE /\ Fault /\ UNCHANGED <<status, queue>>
             /\ GoOn("delete", obj) \/ GoOn("delete", checked)
    <3>1. Held'
      BY <1>1, <1>2, <2>1, <2>3, GoOnHeld
    <3>2. Stored'
      BY <1>14, <2>3, FaultType
      DEF DriftChecked, Stored, Sound, TypeOK, inputVars, jobVars, Statuses, Hashes
    <3>3. QED
      BY <3>1, <3>2, SoundParts
  <2>4. QED
    BY <1>14, <2>2, <2>3 DEF DriftChecked, checked
<1>15. CASE DeleteDriftJob
  <2>1. driftJobs' \in [Projects -> DriftStates] /\ faults' \in 0 .. MaxFaults
    <3>1. CASE driftJobs' = [driftJobs EXCEPT ![cur] = "absent"] /\ UNCHANGED faults
      BY <3>1, DriftJobsType DEF DriftStates, Sound, TypeOK
    <3>2. CASE Fault /\ UNCHANGED driftJobs
      BY <3>2, FaultType DEF Sound, TypeOK
    <3>3. QED
      BY <1>15, <3>1, <3>2 DEF DeleteDriftJob
  <2>2. queue' \subseteq Projects /\ timers' \subseteq Projects
    BY <1>1, <1>15, ScheduleTypes DEF DeleteDriftJob
  <2>3. Stored'
    BY <1>15, <2>1, <2>2
    DEF DeleteDriftJob, Stored, Sound, TypeOK, inputVars, Statuses, Hashes
  <2>4. Held'
    <3>1. GoOn("status", [obj EXCEPT !.applied = None]) \/ EndPass
      BY <1>15 DEF DeleteDriftJob
    <3>2. QED
      BY <1>1, <1>3, <3>1, GoOnHeld, EndHeld
  <2>5. QED
    BY <2>3, <2>4, SoundParts
<1>16. CASE WriteStatus
  <2>1. /\ DOMAIN status' = Projects
        /\ \A p \in Projects : status'[p] \in Statuses(p)
        /\ queue' \subseteq Projects
    BY <1>2, <1>16, StoreIsSound DEF WriteStatus
  <2>2. Stored'
    BY <1>16, <2>1
    DEF WriteStatus, Stored, Sound, TypeOK, inputVars, jobVars, boundVars, Statuses,
        Hashes
  <2>3. QED
    BY <1>16, <2>2, EndHeld, SoundParts DEF WriteStatus
<1>17. QED
  BY <1>6, <1>7, <1>8, <1>9, <1>10, <1>11, <1>12, <1>13, <1>14, <1>15, <1>16
  DEF PassStep

\* A Job ends, time passes, somebody edits or changes something, a call fails or
\* the operator restarts.
LEMMA OutsideSound ==
    ASSUME Sound,
           \/ StatusWriteLost \/ CallFails \/ Restart
           \/ \E s \in Sources : EditSource(s)
           \/ \E p \in Projects : Jobs(p) \/ IntervalPasses(p) \/ EditSpec(p)
                                   \/ ChangeOutside(p)
    PROVE  Sound'
<1>1. Stored /\ Held
  BY SoundParts
<1>2. ASSUME UNCHANGED passVars
      PROVE  Held'
  BY <1>1, <1>2 DEF passVars, Held, InHand, PassOK, PassSteps, Statuses, Hashes
<1>3. CASE StatusWriteLost
  <2>1. /\ queue' \subseteq Projects /\ timers' \subseteq Projects
        /\ lost' \subseteq Projects
    BY <1>1, <1>3, CurType, ScheduleTypes DEF StatusWriteLost, Held
  <2>2. Stored'
    BY <1>1, <1>3, <2>1, FaultType
    DEF StatusWriteLost, Stored, inputVars, jobVars, Statuses, Hashes
  <2>3. Held'
    BY <1>3, <2>1 DEF StatusWriteLost, BecomeIdle, Held, InHand, PassOK, PassSteps
  <2>4. QED
    BY <2>2, <2>3, SoundParts
<1>4. CASE CallFails
  <2>1. queue' \subseteq Projects /\ timers' \subseteq Projects
    BY <1>4, ScheduleTypes DEF CallFails
  <2>2. Stored'
    BY <1>1, <1>4, <2>1, FaultType
    DEF CallFails, Stored, inputVars, jobVars, Statuses, Hashes
  <2>3. QED
    BY <1>4, <2>2, EndHeld, SoundParts DEF CallFails
<1>5. CASE Restart
  <2>1. Stored'
    BY <1>1, <1>5, FaultType
    DEF Restart, Stored, inputVars, jobVars, Statuses, Hashes
  <2>2. QED
    BY <1>5, <2>1, EndHeld, SoundParts DEF Restart
<1>6. ASSUME NEW s \in Sources, EditSource(s)
      PROVE  Sound'
  <2>1. sources' \in [Sources -> ValuesOrNone] /\ queue' \subseteq Projects
    BY <1>1, <1>6 DEF EditSource, WokenBy, Stored
  <2>2. edits' \in 0 .. MaxEdits
    BY <1>1, <1>6, FleetAssumption DEF EditSource, Stored
  <2>3. Stored'
    BY <1>1, <1>6, <2>1, <2>2 DEF EditSource, Stored, jobVars, Statuses, Hashes
  <2>4. QED
    BY <1>2, <1>6, <2>3, SoundParts DEF EditSource
<1>7. ASSUME NEW p \in Projects, EndApplyJob(p)
      PROVE  Sound'
  <2>1. PICK h \in Hashes(p), x \in {"succeeded", "failed"} :
           applyJobs' = [applyJobs EXCEPT ![p][h] = x]
    BY <1>7 DEF EndApplyJob
  <2>2. /\ DOMAIN applyJobs' = Projects
        /\ \A q \in Projects : applyJobs'[q] \in [Hashes(q) -> JobStates]
    BY <2>1, ApplyJobsType DEF JobStates
  <2>3. drifted' \subseteq Projects /\ queue' \subseteq Projects
    BY <1>1, <1>7 DEF EndApplyJob, Stored
  <2>4. Stored'
    BY <1>1, <1>7, <2>2, <2>3
    DEF EndApplyJob, Stored, inputVars, boundVars, Statuses, Hashes
  <2>5. QED
    BY <1>2, <1>7, <2>4, SoundParts DEF EndApplyJob
<1>8. ASSUME NEW p \in Projects, EndDriftJob(p)
      PROVE  Sound'
  <2>1. driftJobs' \in [Projects -> DriftStates] /\ faults' \in 0 .. MaxFaults
    <3>1. PICK x \in DriftStates : driftJobs' = [driftJobs EXCEPT ![p] = x]
      BY <1>8 DEF EndDriftJob, DriftStates
    <3>2. driftJobs' \in [Projects -> DriftStates]
      BY <3>1, DriftJobsType
    <3>3. faults' \in 0 .. MaxFaults
      BY <1>1, <1>8, FaultType DEF EndDriftJob, Stored
    <3>4. QED
      BY <3>2, <3>3
  <2>2. Stored'
    BY <1>1, <1>8, <2>1
    DEF EndDriftJob, Stored, inputVars, Statuses, Hashes
  <2>3. QED
    BY <1>2, <1>8, <2>2, SoundParts DEF EndDriftJob
<1>9. ASSUME NEW p \in Projects, IntervalPasses(p)
      PROVE  Sound'
  <2>1. [status[p] EXCEPT !.checked = FALSE] \in Statuses(p)
    BY <1>1, CopyTypes DEF Stored
  <2>2. /\ DOMAIN status' = Projects
        /\ \A q \in Projects : status'[q] \in Statuses(q)
    BY <1>1, <1>9, <2>1 DEF IntervalPasses, Stored
  <2>3. Stored'
    BY <1>1, <1>9, <2>2
    DEF IntervalPasses, Stored, inputVars, jobVars, boundVars, Statuses, Hashes
  <2>4. QED
    BY <1>2, <1>9, <2>3, SoundParts DEF IntervalPasses
<1>10. ASSUME NEW p \in Projects, EditSpec(p)
      PROVE  Sound'
  <2>1. spec' \in [Projects -> Values] /\ queue' \subseteq Projects
    BY <1>1, <1>10 DEF EditSpec, Dependents, Stored
  <2>2. edits' \in 0 .. MaxEdits
    BY <1>1, <1>10, FleetAssumption DEF EditSpec, Stored
  <2>3. Stored'
    BY <1>1, <1>10, <2>1, <2>2 DEF EditSpec, Stored, jobVars, Statuses, Hashes
  <2>4. Held'
    BY <1>1, <1>10 DEF EditSpec, Held, InHand, PassOK, PassSteps, Statuses, Hashes
  <2>5. QED
    BY <2>3, <2>4, SoundParts
<1>11. ASSUME NEW p \in Projects, ChangeOutside(p)
       PROVE  Sound'
  <2>1. drifts' \in 0 .. MaxDrifts /\ drifted' \subseteq Projects
    BY <1>1, <1>11, FleetAssumption DEF ChangeOutside, Stored
  <2>2. Stored'
    BY <1>1, <1>11, <2>1
    DEF ChangeOutside, Stored, inputVars, jobVars, Statuses, Hashes
  <2>3. QED
    BY <1>2, <1>11, <2>2, SoundParts DEF ChangeOutside
<1>12. QED
  BY <1>3, <1>4, <1>5, <1>6, <1>7, <1>8, <1>9, <1>10, <1>11 DEF Jobs

LEMMA StepSound ==
    ASSUME Sound, [Next]_vars
    PROVE  Sound'
<1>1. CASE Next
  <2>1. CASE PassStep
    BY <2>1, PassStepSound
  <2>2. CASE \E p \in Projects : Serve(p)
    BY <2>2, ServeSound
  <2>3. CASE \/ StatusWriteLost \/ CallFails \/ Restart
             \/ \E s \in Sources : EditSource(s)
             \/ \E p \in Projects : Jobs(p) \/ IntervalPasses(p) \/ EditSpec(p)
                                     \/ ChangeOutside(p)
    BY <2>3, OutsideSound
  <2>4. QED
    BY <1>1, <2>1, <2>2, <2>3 DEF Next
<1>2. CASE UNCHANGED vars
  BY <1>2 DEF vars, inputVars, passVars, jobVars, boundVars, Sound, TypeOK, PassOK,
              Statuses, Hashes
<1>3. QED
  BY <1>1, <1>2

\* Every state is well typed: the copy in a pass's hands is a status of the
\* project served, and a hash, whether wanted, named by a Job or recorded as
\* applied, has a value for every parameter and output of its project, never a
\* missing one (resolveExternalParams, resolveDependencies).
THEOREM TypeCorrect == Spec => []TypeOK
<1>1. Init => Sound
  BY InitSound
<1>2. Sound /\ [Next]_vars => Sound'
  BY StepSound
<1>3. Sound => TypeOK
  BY DEF Sound
<1>4. QED
  BY <1>1, <1>2, <1>3, PTL DEF Spec

-----------------------------------------------------------------------------
(***************************************************************************)
(* The lock of the shared cache.                                           *)
(***************************************************************************)

LEMMA InitLocked == Init => LockKept /\ SharedExclusion
<1> SUFFICES ASSUME Init PROVE LockKept /\ SharedExclusion
  OBVIOUS
<1>1. settings.shared \subseteq Projects
  BY FleetAssumption DEF Init
<1>2. \A p \in Projects : ~Applies(p) /\ driftJobs[p] # "active"
  BY DEF Init, Applies
<1>3. pc = "idle"
  BY DEF Init
<1>4. QED
  BY <1>1, <1>2, <1>3 DEF LockKept, SharedExclusion

\* A step that leaves the Jobs alone keeps exclusion, and the lock too unless it
\* begins a flow.
LEMMA SameJobs ==
    ASSUME LockKept, SharedExclusion, UNCHANGED <<settings, jobVars>>,
           pc' = "flow" => UNCHANGED <<pc, cur>>
    PROVE  LockKept' /\ SharedExclusion'
<1>1. settings' = settings /\ applyJobs' = applyJobs /\ driftJobs' = driftJobs
  BY DEF jobVars
<1>2. NamespaceBusy' <=> NamespaceBusy
  BY <1>1 DEF NamespaceBusy, Applies, Hashes
<1>3. LockKept'
  BY <1>1, <1>2 DEF LockKept
<1>4. SharedExclusion'
  BY <1>1 DEF SharedExclusion, Applies, Hashes
<1>5. QED
  BY <1>3, <1>4

\* The end of a Job frees something and takes nothing.
LEMMA JobEndLocked ==
    ASSUME Sound, LockKept, SharedExclusion, NEW q \in Projects, Jobs(q)
    PROVE  LockKept' /\ SharedExclusion'
<1>1. settings' = settings /\ pc' = pc /\ cur' = cur
  BY DEF Jobs, EndApplyJob, EndDriftJob, passVars
<1>2. \A p \in Projects : Applies(p)' => Applies(p)
  <2>1. CASE EndApplyJob(q)
    <3>1. PICK h \in Hashes(q), x \in {"succeeded", "failed"} :
             applyJobs' = [applyJobs EXCEPT ![q][h] = x]
      BY <2>1 DEF EndApplyJob
    <3>2. \A p \in Projects : \A g \in Hashes(p) :
             applyJobs'[p][g] = "active" => applyJobs[p][g] = "active"
      BY <3>1 DEF Sound, TypeOK
    <3>3. QED
      BY <3>2 DEF Applies, Hashes
  <2>2. CASE EndDriftJob(q)
    BY <2>2 DEF EndDriftJob, Applies, Hashes
  <2>3. QED
    BY <2>1, <2>2 DEF Jobs
<1>3. \A p \in Projects : driftJobs'[p] = "active" => driftJobs[p] = "active"
  BY DEF Jobs, EndApplyJob, EndDriftJob, Sound, TypeOK
<1>4. settings.shared \subseteq Projects
  BY FleetAssumption DEF Sound, TypeOK
<1>5. NamespaceBusy' => NamespaceBusy
  BY <1>2, <1>3 DEF NamespaceBusy
<1>6. LockKept'
  BY <1>1, <1>5 DEF LockKept
<1>7. SharedExclusion'
  BY <1>1, <1>2, <1>3, <1>4 DEF SharedExclusion
<1>8. QED
  BY <1>6, <1>7

\* A pass creates a Job only when it found no other one, if it has to look.
LEMMA JobStartLocked ==
    ASSUME Sound, LockKept, SharedExclusion, CreateApplyJob \/ CreateDriftJob
    PROVE  LockKept' /\ SharedExclusion'
<1>1. pc = "flow" /\ pc' = "status" /\ settings' = settings
  BY DEF CreateApplyJob, ApplyTurn, CreateDriftJob, DriftTurn, GoOn
<1>2. LockKept'
  BY <1>1 DEF LockKept
<1>3. settings.shared \subseteq Projects
  BY FleetAssumption DEF Sound, TypeOK
<1>4. \A p \in Projects \ {cur} :
         /\ Applies(p)' => Applies(p)
         /\ driftJobs'[p] = "active" => driftJobs[p] = "active"
  BY DEF CreateApplyJob, CreateDriftJob, Applies, Sound, TypeOK, Hashes
<1>5. CASE cur \in settings.shared
  <2>1. \A p \in Projects : ~Applies(p) /\ driftJobs[p] # "active"
    BY <1>1, <1>5 DEF LockKept, NamespaceBusy
  <2>2. \A p \in Projects \ {cur} : ~Applies(p)' /\ driftJobs'[p] # "active"
    BY <1>4, <2>1
  <2>3. ~(Applies(cur)' /\ driftJobs'[cur] = "active")
    <3>1. cur \in Projects /\ cur' = cur
      BY <1>3, <1>5 DEF CreateApplyJob, CreateDriftJob, GoOn
    <3>2. CASE CreateApplyJob
      BY <2>1, <3>1, <3>2 DEF CreateApplyJob
    <3>3. CASE CreateDriftJob
      <4>1. applyJobs' = applyJobs
        BY <3>3 DEF CreateDriftJob
      <4>2. \A h \in Hashes(cur) : applyJobs[cur][h] # "active"
        BY <2>1, <3>1 DEF Applies
      <4>3. QED
        BY <3>1, <4>1, <4>2 DEF Applies, Hashes
    <3>4. QED
      BY <3>2, <3>3
  <2>4. \A p, q \in settings.shared :
           /\ Applies(p)' => driftJobs'[q] # "active"
           /\ Applies(p)' /\ Applies(q)' => p = q
           /\ driftJobs'[p] = "active" /\ driftJobs'[q] = "active" => p = q
    <3> SUFFICES ASSUME NEW p \in settings.shared, NEW q \in settings.shared
                 PROVE  /\ Applies(p)' => driftJobs'[q] # "active"
                        /\ Applies(p)' /\ Applies(q)' => p = q
                        /\ driftJobs'[p] = "active" /\ driftJobs'[q] = "active"
                              => p = q
      OBVIOUS
    <3>1. Applies(p)' \/ driftJobs'[p] = "active" => p = cur
      BY <1>3, <2>2
    <3>2. Applies(q)' \/ driftJobs'[q] = "active" => q = cur
      BY <1>3, <2>2
    <3>3. ASSUME Applies(p)', driftJobs'[q] = "active"
          PROVE  FALSE
      <4>1. p = cur /\ q = cur
        BY <3>1, <3>2, <3>3
      <4>2. p = cur => (Applies(p)' <=> Applies(cur)')
        <5>1. cur' = cur
          BY DEF CreateApplyJob, CreateDriftJob, GoOn
        <5>2. QED
          BY <5>1 DEF Applies, Hashes
      <4>3. QED
        BY <2>3, <3>3, <4>1, <4>2
    <3>4. QED
      BY <3>1, <3>2, <3>3
  <2>5. SharedExclusion'
    BY <1>1, <2>4 DEF SharedExclusion
  <2>6. QED
    BY <1>2, <2>5
<1>6. CASE cur \notin settings.shared
  <2>1. SharedExclusion'
    BY <1>1, <1>3, <1>4, <1>6 DEF SharedExclusion
  <2>2. QED
    BY <1>2, <2>1
<1>7. QED
  BY <1>5, <1>6

LEMMA StepLocked ==
    ASSUME Sound, LockKept, SharedExclusion, [Next]_vars
    PROVE  LockKept' /\ SharedExclusion'
<1>1. CASE LockIsFree
  <2>1. settings' = settings /\ cur' = cur /\ UNCHANGED jobVars
    BY <1>1 DEF LockIsFree, GoOn, OnlyPassMoves
  <2>2. cur \in settings.shared => ~NamespaceBusy
    BY <1>1 DEF LockIsFree
  <2>3. NamespaceBusy' <=> NamespaceBusy
    BY <2>1 DEF jobVars, NamespaceBusy, Applies, Hashes
  <2>4. LockKept'
    BY <2>1, <2>2, <2>3 DEF LockKept
  <2>5. SharedExclusion'
    BY <2>1 DEF jobVars, SharedExclusion, Applies, Hashes
  <2>6. QED
    BY <2>4, <2>5
<1>2. CASE CreateApplyJob \/ CreateDriftJob
  BY <1>2, JobStartLocked
<1>3. CASE WaitForNamespace \/ WaitForActiveJob \/ AlreadyApplied \/ ApplySucceeded
           \/ ApplyFailed \/ TooEarly \/ DriftStillActive \/ DriftChecked \/ WriteStatus
  <2>1. UNCHANGED <<settings, jobVars>> /\ pc' # "flow"
    BY <1>3 DEF WaitForNamespace, WaitForActiveJob, AlreadyApplied, ApplySucceeded,
                ApplyFailed, TooEarly, DriftStillActive, DriftChecked, WriteStatus,
                GoOn, EndPass, BecomeIdle, OnlyPassMoves
  <2>2. QED
    BY <2>1, SameJobs
<1>4. CASE DeleteDriftJob
  <2>1. settings' = settings /\ applyJobs' = applyJobs /\ pc' # "flow"
    BY <1>4 DEF DeleteDriftJob, GoOn, EndPass, BecomeIdle
  <2>2. \A p \in Projects : driftJobs'[p] = "active" => driftJobs[p] = "active"
    BY <1>4 DEF DeleteDriftJob, Fault, Sound, TypeOK
  <2>3. \A p \in Projects : Applies(p)' <=> Applies(p)
    BY <2>1 DEF Applies, Hashes
  <2>4. settings.shared \subseteq Projects
    BY FleetAssumption DEF Sound, TypeOK
  <2>5. SharedExclusion'
    BY <2>1, <2>2, <2>3, <2>4 DEF SharedExclusion
  <2>6. QED
    BY <2>1, <2>5 DEF LockKept
<1>5. CASE \/ StatusWriteLost \/ CallFails \/ Restart
           \/ \E s \in Sources : EditSource(s)
           \/ \E p \in Projects : Serve(p) \/ IntervalPasses(p) \/ EditSpec(p)
                                   \/ ChangeOutside(p)
  <2>1. UNCHANGED <<settings, jobVars>> /\ (pc' = "flow" => UNCHANGED <<pc, cur>>)
    BY <1>5 DEF StatusWriteLost, CallFails, Restart, EditSource, Serve, StartPass,
                ParamsMissing, WaitForUpstream, ComeBackIn, IntervalPasses, EditSpec,
                ChangeOutside, EndPass, BecomeIdle, OnlyPassMoves, passVars
  <2>2. QED
    BY <2>1, SameJobs
<1>6. CASE \E p \in Projects : Jobs(p)
  BY <1>6, JobEndLocked
<1>7. CASE UNCHANGED vars
  <2>1. UNCHANGED <<settings, jobVars>> /\ UNCHANGED <<pc, cur>>
    BY <1>7 DEF vars, passVars
  <2>2. QED
    BY <2>1, SameJobs
<1>8. QED
  BY <1>1, <1>2, <1>3, <1>4, <1>5, <1>6, <1>7 DEF Next, PassStep

\* Whatever projects share the cache and whatever falls between a pass's look at
\* the Jobs and the Job it creates, no two of these projects have Jobs at work:
\* one worker serves all passes, so a free lock stays free for the pass that
\* found it so (checkJobLock, hasActiveNamespaceJobs).
THEOREM SharedJobsExclude == Spec => []SharedExclusion
<1>1. Init => IInv
  BY InitSound, InitLocked DEF IInv
<1>2. IInv /\ [Next]_vars => IInv'
  BY StepSound, StepLocked DEF IInv
<1>3. IInv => SharedExclusion
  BY DEF IInv
<1>4. QED
  BY <1>1, <1>2, <1>3, PTL DEF Spec
=============================================================================
