--------------------------- MODULE LifecycleProofs ---------------------------
(***************************************************************************)
(* Theorems about Lifecycle, for any settings of the project and any       *)
(* number of lives, user commands and faults.                              *)
(***************************************************************************)
EXTENDS Lifecycle, TLAPS

-----------------------------------------------------------------------------
(***************************************************************************)
(* The inductive invariant: types, and what the pass's copy of the project *)
(* still says truly when others have written since it was read.            *)
(***************************************************************************)

\* A project that is being deleted has the finalizer: it would be gone else.
DeletingIsHeld == Exists /\ project.deleting => project.finalizer

\* Finalizer, deletion and its approval are never taken back while a pass runs,
\* except by that pass; the passes past the deletion branch saw none.
CopyInv ==
    /\ DeletingIsHeld
    /\ pc = "idle" => obj = NoCopy
    /\ pc # "idle" /\ fresh => Exists
    /\ pc \notin {"idle", "head"} => obj.finalizer
    /\ obj.finalizer => Exists /\ project.finalizer
    /\ obj.deleting => obj.finalizer /\ project.deleting
    /\ obj.deleting /\ obj.approvedDelete => project.approvedDelete
    /\ pc \in {"body", "unlock", "clear", "lock", "apply", "report"} => ~obj.deleting

Sound == TypeOK /\ CopyInv

\* p says the same as q of deletion.
SameFate(p, q) ==
    /\ p.finalizer = q.finalizer /\ p.deleting = q.deleting
    /\ p.approvedDelete = q.approvedDelete

PassSteps == {"idle", "head", "body", "unlock", "clear", "lock", "apply",
              "status", "report"}

\* A project as its creator writes it is well typed.
LEMMA NewProjectType ==
    \A p \in NewProjects \cup {NoCopy} :
        p \in Projects /\ ~p.finalizer /\ ~p.deleting
<1>1. \A ttl, suspend \in BOOLEAN :
         LET p == NewProject(ttl, suspend) IN
         p \in Projects /\ ~p.finalizer /\ ~p.deleting
  BY DEF NewProject, Projects, Phases
<1>2. \A p \in NewProjects :
         \E ttl, suspend \in BOOLEAN : p = NewProject(ttl, suspend)
  BY DEF NewProjects
<1>3. QED
  BY <1>1, <1>2 DEF NoCopy

\* Updates of one field keep a project well typed; a pass's updates of its
\* status fields leave deletion alone.
LEMMA FieldTypes ==
    ASSUME NEW p \in Projects
    PROVE  /\ \A x \in Phases : /\ [p EXCEPT !.phase = x] \in Projects
                                /\ SameFate([p EXCEPT !.phase = x], p)
           /\ \A b \in BOOLEAN :
                 /\ [p EXCEPT !.expiresAt = b] \in Projects
                 /\ SameFate([p EXCEPT !.expiresAt = b], p)
                 /\ [p EXCEPT !.forceUnlock = b] \in Projects
                 /\ SameFate([p EXCEPT !.forceUnlock = b], p)
                 /\ [p EXCEPT !.suspend = b] \in Projects
                 /\ SameFate([p EXCEPT !.suspend = b], p)
                 /\ [p EXCEPT !.ttl = b] \in Projects
                 /\ SameFate([p EXCEPT !.ttl = b], p)
           /\ \A x \in Phases, b \in BOOLEAN :
                 /\ [p EXCEPT !.phase = x, !.applied = b] \in Projects
                 /\ SameFate([p EXCEPT !.phase = x, !.applied = b], p)
BY DEF Projects, SameFate

\* Setting the Jobs' states keeps them, and the history, well typed.
LEMMA SetJobsType ==
    ASSUME TypeOK, NEW f \in [Kinds -> JobStates], SetJobs(f)
    PROVE  jobs' \in [Kinds -> JobStates] /\ overlap' \in BOOLEAN
BY DEF TypeOK, SetJobs

\* So does deleting Jobs, with all that may come of it.
LEMMA KillType ==
    ASSUME TypeOK, NEW S \in SUBSET Kinds, Kill(S)
    PROVE  /\ jobs' \in [Kinds -> JobStates] /\ overlap' \in BOOLEAN
           /\ orphans' \subseteq Kinds \ {"destroy"}
           /\ infra' \in BOOLEAN /\ ghosts' \subseteq Kinds
           /\ holder' \in Kinds \cup {"dying", "lost", "nobody"}
<1> DEFINE f == [k \in Kinds |-> IF k \in S THEN "absent" ELSE jobs[k]]
<1>1. f \in [Kinds -> JobStates]
  BY DEF TypeOK, JobStates
<1>2. jobs' \in [Kinds -> JobStates] /\ overlap' \in BOOLEAN
  BY <1>1, SetJobsType DEF Kill
<1>3. /\ infra' \in BOOLEAN /\ ghosts' \subseteq Kinds
      /\ holder' \in Kinds \cup {"dying", "lost", "nobody"}
  BY DEF Kill, TypeOK
<1>4. orphans' \subseteq Kinds \ {"destroy"}
  BY DEF Kill, TypeOK
<1>5. QED
  BY <1>2, <1>3, <1>4

LEMMA RemoveType ==
    ASSUME TypeOK, NEW S \in SUBSET Kinds, Remove(S)
    PROVE  /\ jobs' \in [Kinds -> JobStates] /\ overlap' \in BOOLEAN
           /\ orphans' \subseteq Kinds \ {"destroy"}
           /\ infra' \in BOOLEAN /\ ghosts' \subseteq Kinds
           /\ holder' \in Kinds \cup {"dying", "lost", "nobody"}
           /\ faults' \in 0 .. MaxFaults
<1>1. CASE Kill(S) /\ UNCHANGED faults
  BY <1>1, KillType DEF TypeOK
<1>2. CASE faults < MaxFaults /\ faults' = faults + 1
           /\ UNCHANGED <<jobVars, worldVars>>
  BY <1>2, LimitsAssumption DEF TypeOK, jobVars, worldVars
<1>3. QED
  BY <1>1, <1>2 DEF Remove

\* After a pass nothing is left of its copy.
LEMMA EndPassSound ==
    ASSUME EndPass, DeletingIsHeld'
    PROVE  CopyInv' /\ pc' \in PassSteps /\ obj' \in Projects /\ fresh' \in BOOLEAN
<1>1. /\ pc' = "idle" /\ obj' = NoCopy /\ fresh' = TRUE
      /\ obj' \in Projects /\ ~obj'.finalizer /\ ~obj'.deleting
  BY NewProjectType DEF EndPass
<1>2. QED
  BY <1>1 DEF CopyInv, PassSteps

\* A pass that goes on with a copy that says the same of deletion stays sound.
LEMMA GoOnSound ==
    ASSUME Sound, NEW p \in Projects, SameFate(p, obj), NEW step \in PassSteps,
           GoOn(step, p), UNCHANGED project, pc # "idle", step # "idle",
           step # "head" => obj.finalizer,
           step \notin {"head", "status"} => ~obj.deleting
    PROVE  CopyInv' /\ pc' \in PassSteps /\ obj' \in Projects /\ fresh' \in BOOLEAN
BY DEF Sound, TypeOK, CopyInv, SameFate, GoOn, Exists, DeletingIsHeld

\* So does one that turns to its report.
LEMMA ThenReportSound ==
    ASSUME Sound, NEW x \in Phases, ThenReport(x), UNCHANGED project,
           pc # "idle", obj.finalizer
    PROVE  CopyInv' /\ pc' \in PassSteps /\ obj' \in Projects /\ fresh' \in BOOLEAN
<1>1. [obj EXCEPT !.phase = x] \in Projects /\ SameFate([obj EXCEPT !.phase = x], obj)
  BY FieldTypes DEF Sound, TypeOK
<1>2. GoOn("status", [obj EXCEPT !.phase = x]) /\ "status" \in PassSteps
  BY DEF ThenReport, PassSteps
<1>3. QED
  BY <1>1, <1>2, GoOnSound

\* A step of the pass that writes nothing else.
LEMMA OnlyPassMovesSound ==
    ASSUME Sound, OnlyPassMoves, queued' \in BOOLEAN, CopyInv',
           pc' \in PassSteps, obj' \in Projects, fresh' \in BOOLEAN
    PROVE  Sound'
BY DEF Sound, TypeOK, OnlyPassMoves, clockVars, jobVars, worldVars, boundVars,
       PassSteps

\* A step that leaves the project and the clock alone.
LEMMA JobStepSound ==
    ASSUME Sound, UNCHANGED <<project, clockVars, lives, commands>>,
           queued' \in BOOLEAN, CopyInv',
           pc' \in PassSteps, obj' \in Projects, fresh' \in BOOLEAN,
           configMap' \in {"absent", "mine", "orphan"},
           jobs' \in [Kinds -> JobStates], overlap' \in BOOLEAN,
           orphans' \subseteq Kinds \ {"destroy"},
           infra' \in BOOLEAN, ghosts' \subseteq Kinds,
           holder' \in Kinds \cup {"dying", "lost", "nobody"},
           faults' \in 0 .. MaxFaults
    PROVE  Sound'
BY DEF Sound, TypeOK, clockVars, PassSteps

\* A step that leaves Jobs, resources and the ConfigMap alone.
LEMMA ProjectStepSound ==
    ASSUME Sound, UNCHANGED <<configMap, jobVars, worldVars>>,
           project' \in Projects \cup {Gone}, expired' \in BOOLEAN,
           timer' \in BOOLEAN, queued' \in BOOLEAN, CopyInv',
           pc' \in PassSteps, obj' \in Projects, fresh' \in BOOLEAN,
           lives' \in 1 .. MaxLives, commands' \in 0 .. MaxCommands,
           faults' \in 0 .. MaxFaults
    PROVE  Sound'
BY DEF Sound, TypeOK, jobVars, worldVars, PassSteps

THEOREM InitSound == Init => Sound
<1> SUFFICES ASSUME Init PROVE Sound
  OBVIOUS
<1>1. 1 \in 1 .. MaxLives /\ 0 \in 0 .. MaxCommands /\ 0 \in 0 .. MaxFaults
  BY LimitsAssumption
<1>2. /\ project \in Projects /\ ~project.finalizer /\ ~project.deleting
      /\ obj \in Projects /\ ~obj.finalizer /\ ~obj.deleting
  BY NewProjectType DEF Init
<1>3. jobs \in [Kinds -> JobStates]
  BY DEF Init, JobStates
<1>4. TypeOK
  BY <1>1, <1>2, <1>3 DEF Init, TypeOK
<1>5. CopyInv
  BY <1>2 DEF Init, CopyInv, DeletingIsHeld
<1>6. QED
  BY <1>4, <1>5 DEF Sound

-----------------------------------------------------------------------------
(***************************************************************************)
(* Building blocks of the steps.                                           *)
(***************************************************************************)

\* A pass ends and nothing but the work queue has changed.
LEMMA PassEndsSound ==
    ASSUME Sound, OnlyPassMoves, queued' \in BOOLEAN, EndPass
    PROVE  Sound'
<1>1. DeletingIsHeld'
  BY DEF Sound, CopyInv, DeletingIsHeld, Exists, OnlyPassMoves
<1>2. QED
  BY <1>1, EndPassSound, OnlyPassMovesSound

\* A pass turns to its report and nothing but the work queue has changed.
LEMMA PassReportsSound ==
    ASSUME Sound, OnlyPassMoves, queued' \in BOOLEAN,
           NEW x \in Phases, ThenReport(x), pc # "idle", obj.finalizer
    PROVE  Sound'
<1>1. UNCHANGED project
  BY DEF OnlyPassMoves
<1>2. QED
  BY <1>1, ThenReportSound, OnlyPassMovesSound

\* A pass goes on and nothing but the work queue has changed.
LEMMA PassGoesOnSound ==
    ASSUME Sound, OnlyPassMoves, queued' \in BOOLEAN,
           NEW p \in Projects, SameFate(p, obj), NEW step \in PassSteps,
           GoOn(step, p), pc # "idle", step # "idle",
           step # "head" => obj.finalizer,
           step \notin {"head", "status"} => ~obj.deleting
    PROVE  Sound'
<1>1. UNCHANGED project
  BY DEF OnlyPassMoves
<1>2. QED
  BY <1>1, GoOnSound, OnlyPassMovesSound

\* A pass creates a Job and turns to its report.
LEMMA CreateJobSound ==
    ASSUME Sound, NEW k \in Kinds, SetJobs([jobs EXCEPT ![k] = "pending"]),
           queued' = TRUE, NEW x \in Phases, ThenReport(x),
           UNCHANGED <<project, clockVars, configMap, orphans, worldVars, boundVars>>,
           pc # "idle", obj.finalizer
    PROVE  Sound'
<1>1. [jobs EXCEPT ![k] = "pending"] \in [Kinds -> JobStates]
  BY DEF Sound, TypeOK, JobStates
<1>2. jobs' \in [Kinds -> JobStates] /\ overlap' \in BOOLEAN
  BY <1>1, SetJobsType DEF Sound
<1>3. /\ UNCHANGED <<project, clockVars, lives, commands>>
      /\ UNCHANGED <<configMap, orphans, infra, ghosts, holder, faults>>
  BY DEF worldVars, boundVars
<1>4. CopyInv' /\ pc' \in PassSteps /\ obj' \in Projects /\ fresh' \in BOOLEAN
  BY <1>3, ThenReportSound
<1>5. QED
  BY <1>2, <1>3, <1>4, JobStepSound DEF Sound, TypeOK

\* A pass deletes Jobs.
LEMMA RemoveSound ==
    ASSUME Sound, NEW S \in SUBSET Kinds, Remove(S), queued' \in BOOLEAN,
           UNCHANGED <<project, clockVars, configMap, lives, commands>>,
           CopyInv', pc' \in PassSteps, obj' \in Projects, fresh' \in BOOLEAN
    PROVE  Sound'
<1>1. /\ jobs' \in [Kinds -> JobStates] /\ overlap' \in BOOLEAN
      /\ orphans' \subseteq Kinds \ {"destroy"}
      /\ infra' \in BOOLEAN /\ ghosts' \subseteq Kinds
      /\ holder' \in Kinds \cup {"dying", "lost", "nobody"}
      /\ faults' \in 0 .. MaxFaults
  BY RemoveType DEF Sound
<1>2. UNCHANGED <<project, clockVars, lives, commands>> /\ UNCHANGED configMap
  OBVIOUS
<1>3. QED
  BY <1>1, <1>2, JobStepSound DEF Sound, TypeOK

\* The finalizer is removed, or the conflict ends the pass.
LEMMA RemoveFinalizerSound ==
    ASSUME Sound, RemoveFinalizer, pc # "idle"
    PROVE  Sound'
<1>1. UNCHANGED <<clockVars, jobs, overlap, worldVars, boundVars>> /\ queued' = TRUE
  BY DEF RemoveFinalizer
<1>2. DeletingIsHeld'
  BY DEF RemoveFinalizer, Sound, CopyInv, DeletingIsHeld, Exists
<1>3. CopyInv' /\ pc' \in PassSteps /\ obj' \in Projects /\ fresh' \in BOOLEAN
  BY <1>2, EndPassSound DEF RemoveFinalizer
<1>4. /\ project' \in Projects \cup {Gone}
      /\ configMap' \in {"absent", "mine", "orphan"}
      /\ orphans' \subseteq Kinds \ {"destroy"}
  BY DEF RemoveFinalizer, Sound, TypeOK, OwnedKinds
<1>5. QED
  BY <1>1, <1>3, <1>4
     DEF Sound, TypeOK, clockVars, worldVars, boundVars, PassSteps

\* A status write of the pass, done or dropped.
LEMMA WriteInPassType ==
    ASSUME Sound, NEW o \in Projects, WriteInPass(o), pc # "idle"
    PROVE  /\ project' \in Projects \cup {Gone} /\ queued' \in BOOLEAN
           /\ faults' \in 0 .. MaxFaults
           /\ \/ UNCHANGED project
              \/ Exists /\ Exists' /\ SameFate(project', project)
<1>1. CASE /\ fresh
           /\ project' = WithStatus(o) /\ queued' = (queued \/ Wakes(WithStatus(o)))
           /\ UNCHANGED faults
  <2>1. Exists /\ project \in Projects
    BY <1>1 DEF Sound, CopyInv, TypeOK, Exists
  <2>2. project' \in Projects /\ SameFate(project', project)
    BY <1>1, <2>1 DEF WithStatus, Projects, SameFate
  <2>3. queued' \in BOOLEAN
    BY <1>1 DEF Wakes, Sound, TypeOK
  <2>4. QED
    BY <1>1, <2>1, <2>2, <2>3, GoneAssumption DEF Exists, Sound, TypeOK
<1>2. CASE UNCHANGED <<project, queued, faults>>
  BY <1>2 DEF Sound, TypeOK
<1>3. CASE faults < MaxFaults /\ faults' = faults + 1 /\ UNCHANGED <<project, queued>>
  BY <1>3, LimitsAssumption DEF Sound, TypeOK
<1>4. QED
  BY <1>1, <1>2, <1>3 DEF WriteInPass

\* A pass writes its status and goes on.
LEMMA WriteAndGoOnSound ==
    ASSUME Sound, NEW o \in Projects, SameFate(o, obj), WriteInPass(o),
           NEW step \in {"head", "body"}, GoOn(step, o), pc # "idle",
           obj.finalizer, ~obj.deleting,
           UNCHANGED <<clockVars, configMap, jobVars, worldVars, lives, commands>>
    PROVE  Sound'
<1>1. /\ project' \in Projects \cup {Gone} /\ queued' \in BOOLEAN
      /\ faults' \in 0 .. MaxFaults
      /\ \/ UNCHANGED project
         \/ Exists /\ Exists' /\ SameFate(project', project)
  BY WriteInPassType
<1>2. /\ pc' \in PassSteps /\ obj' \in Projects /\ fresh' \in BOOLEAN
      /\ pc' = step /\ obj' = o /\ fresh' = fresh
  BY DEF GoOn, PassSteps, Sound, TypeOK
<1>3. CopyInv'
  BY <1>1, <1>2 DEF Sound, CopyInv, SameFate, DeletingIsHeld, Exists
<1>4. expired' \in BOOLEAN /\ timer' \in BOOLEAN
      /\ lives' \in 1 .. MaxLives /\ commands' \in 0 .. MaxCommands
  BY DEF clockVars, Sound, TypeOK
<1>5. UNCHANGED <<configMap, jobVars, worldVars>>
  OBVIOUS
<1>6. QED
  BY <1>1, <1>2, <1>3, <1>4, <1>5, ProjectStepSound

\* A user's write that leaves the finalizer, and takes nothing back.
LEMMA UserWritesSound ==
    ASSUME Sound, NEW p \in Projects \cup {Gone}, UserWrites(p), Exists,
           p = Gone => ~project.finalizer,
           p # Gone => /\ p.finalizer = project.finalizer
                       /\ project.deleting => p.deleting
                       /\ p.deleting => p.finalizer
                       /\ project.approvedDelete => p.approvedDelete,
           lives' = lives, commands' \in 0 .. MaxCommands
    PROVE  Sound'
<1>1. /\ project' = p /\ fresh' \in BOOLEAN /\ queued' \in BOOLEAN
      /\ fresh' => fresh /\ (pc = "idle" \/ p = project)
      /\ UNCHANGED <<clockVars, configMap, jobVars, worldVars, pc, obj, faults>>
  BY DEF UserWrites, Outdate, Wakes, Sound, TypeOK
<1>2. CopyInv'
  BY <1>1 DEF Sound, CopyInv, DeletingIsHeld, Exists
<1>3. expired' \in BOOLEAN /\ timer' \in BOOLEAN /\ faults' \in 0 .. MaxFaults
      /\ lives' \in 1 .. MaxLives /\ pc' \in PassSteps /\ obj' \in Projects
  BY <1>1 DEF clockVars, Sound, TypeOK, PassSteps
<1>4. UNCHANGED <<configMap, jobVars, worldVars>>
  BY <1>1
<1>5. QED
  BY <1>1, <1>2, <1>3, <1>4, ProjectStepSound

-----------------------------------------------------------------------------
(***************************************************************************)
(* The steps: passes.                                                      *)
(***************************************************************************)

LEMMA StartSound == ASSUME Sound, StartPass \/ NotFound PROVE Sound'
<1>1. CASE StartPass
  <2>1. /\ pc' = "head" /\ obj' = project /\ fresh' = TRUE /\ queued' = FALSE
        /\ project \in Projects /\ Exists /\ UNCHANGED project /\ OnlyPassMoves
    BY <1>1 DEF StartPass, Sound, TypeOK, Exists, OnlyPassMoves
  <2>2. CopyInv'
    BY <2>1 DEF Sound, CopyInv, DeletingIsHeld, Exists
  <2>3. QED
    BY <2>1, <2>2, OnlyPassMovesSound DEF PassSteps
<1>2. CASE NotFound
  <2>1. /\ OnlyPassMoves /\ queued' = FALSE
        /\ UNCHANGED <<project, pc, obj, fresh>>
    BY <1>2 DEF NotFound, passVars, OnlyPassMoves
  <2>2. CopyInv'
    BY <2>1 DEF Sound, CopyInv, DeletingIsHeld, Exists
  <2>3. QED
    BY <2>1, <2>2, OnlyPassMovesSound DEF PassSteps, Sound, TypeOK
<1>3. QED
  BY <1>1, <1>2

LEMMA DeletionSound ==
    ASSUME Sound,
           \/ AwaitDeleteApproval \/ ReleaseWithoutDestroy \/ CreateDestroyJob
           \/ DestroyStillActive \/ DestroyStuck \/ DestroySucceeded
           \/ DestroyFailed
    PROVE  Sound'
<1>1. pc = "head" /\ obj.deleting /\ obj.finalizer
  BY DEF AwaitDeleteApproval, ReleaseWithoutDestroy, CreateDestroyJob,
         DestroyStillActive, DestroyStuck, DestroySucceeded, DestroyFailed,
         DestroyTurn, Deleting, Sound, CopyInv
<1>2. /\ "WaitingDeleteApproval" \in Phases /\ "Destroying" \in Phases
      /\ "DestroyFailed" \in Phases /\ obj.phase \in Phases
      /\ queued \in BOOLEAN
  BY DEF Phases, Sound, TypeOK, Projects
<1>3. CASE AwaitDeleteApproval
  BY <1>1, <1>2, <1>3, PassEndsSound, PassReportsSound DEF AwaitDeleteApproval
<1>4. CASE ReleaseWithoutDestroy \/ DestroySucceeded
  BY <1>1, <1>4, RemoveFinalizerSound DEF ReleaseWithoutDestroy, DestroySucceeded
<1>5. CASE CreateDestroyJob
  BY <1>1, <1>2, <1>5, CreateJobSound DEF CreateDestroyJob, Kinds
<1>6. CASE DestroyStillActive
  BY <1>6, PassEndsSound DEF DestroyStillActive, DestroyAgain
<1>7. CASE DestroyStuck
  <2>1. /\ Remove({"destroy"}) /\ queued' = TRUE /\ ThenReport(obj.phase)
        /\ UNCHANGED <<project, clockVars, configMap, lives, commands>>
    BY <1>7 DEF DestroyStuck
  <2>2. CopyInv' /\ pc' \in PassSteps /\ obj' \in Projects /\ fresh' \in BOOLEAN
    BY <1>1, <1>2, <2>1, ThenReportSound
  <2>3. {"destroy"} \in SUBSET Kinds
    BY DEF Kinds
  <2>4. QED
    BY <2>1, <2>2, <2>3, RemoveSound
<1>8. CASE DestroyFailed
  BY <1>1, <1>2, <1>8, PassReportsSound DEF DestroyFailed
<1>9. QED
  BY <1>3, <1>4, <1>5, <1>6, <1>7, <1>8

LEMMA AddFinalizerSound == ASSUME Sound, AddFinalizer PROVE Sound'
<1>1. pc = "head" /\ ~obj.deleting /\ ~obj.finalizer /\ OnlyProjectMoves
  BY DEF AddFinalizer
<1>2. CASE fresh
  <2>1. Exists /\ project \in Projects
    BY <1>1, <1>2 DEF Sound, CopyInv, TypeOK, Exists
  <2>2. /\ project' = [project EXCEPT !.finalizer = TRUE]
        /\ queued' = (queued \/ Wakes([project EXCEPT !.finalizer = TRUE]))
        /\ pc' = "head" /\ fresh' = fresh
        /\ obj' = [obj EXCEPT !.finalizer = TRUE]
    BY <1>2 DEF AddFinalizer, GoOn
  <2>3. project' \in Projects /\ project'.finalizer /\ project' # Gone
    BY <2>1, <2>2, GoneAssumption DEF Projects
  <2>4. obj' \in Projects /\ obj'.finalizer /\ ~obj'.deleting
    BY <1>1, <2>2 DEF Projects, Sound, TypeOK
  <2>5. queued' \in BOOLEAN
    BY <2>2 DEF Wakes, Sound, TypeOK
  <2>6. CopyInv'
    BY <2>2, <2>3, <2>4 DEF CopyInv, DeletingIsHeld, Exists
  <2>7. QED
    BY <1>1, <2>2, <2>3, <2>4, <2>5, <2>6
       DEF Sound, TypeOK, OnlyProjectMoves, clockVars, jobVars, worldVars, boundVars
<1>3. CASE ~fresh
  BY <1>3, PassEndsSound DEF AddFinalizer, OnlyProjectMoves, OnlyPassMoves
<1>4. QED
  BY <1>2, <1>3 DEF Sound, TypeOK

LEMMA ExpirySound ==
    ASSUME Sound, WriteExpiry \/ Expire \/ NotExpired
    PROVE  Sound'
<1>1. /\ pc = "head" /\ ~obj.deleting /\ obj.finalizer /\ Exists
      /\ obj \in Projects /\ obj.ttl \in BOOLEAN /\ project \in Projects
      /\ queued \in BOOLEAN
  BY DEF WriteExpiry, Expire, NotExpired, PastExpiryWrite, Sound, CopyInv,
         TypeOK, Projects, Exists
<1>2. CASE WriteExpiry
  <2>1. /\ [obj EXCEPT !.expiresAt = obj.ttl] \in Projects
        /\ SameFate([obj EXCEPT !.expiresAt = obj.ttl], obj)
    BY <1>1, FieldTypes
  <2>2. QED
    BY <1>1, <1>2, <2>1, WriteAndGoOnSound DEF WriteExpiry
<1>3. CASE Expire
  <2>1. /\ project' \in Projects /\ project'.deleting
        /\ project'.finalizer = project.finalizer /\ project' # Gone
        /\ queued' \in BOOLEAN /\ EndPass /\ OnlyProjectMoves
    BY <1>1, <1>3, GoneAssumption DEF Expire, Projects, Wakes
  <2>2. project.finalizer
    BY <1>1 DEF Sound, CopyInv
  <2>3. CopyInv' /\ pc' \in PassSteps /\ obj' \in Projects /\ fresh' \in BOOLEAN
    BY <2>1, <2>2, EndPassSound DEF DeletingIsHeld
  <2>4. QED
    BY <2>1, <2>3
       DEF Sound, TypeOK, OnlyProjectMoves, clockVars, jobVars, worldVars,
           boundVars, PassSteps
<1>4. CASE NotExpired
  <2>1. GoOn("body", obj) /\ OnlyPassMoves /\ queued' = queued
    BY <1>4 DEF NotExpired
  <2>2. QED
    BY <1>1, <2>1, PassGoesOnSound DEF SameFate, PassSteps
<1>5. QED
  BY <1>2, <1>3, <1>4

LEMMA SuspensionSound == ASSUME Sound, Suspended \/ Resume PROVE Sound'
<1>1. /\ pc = "body" /\ ~obj.deleting /\ obj.finalizer /\ obj \in Projects
      /\ queued \in BOOLEAN
  BY DEF Suspended, Resume, Sound, CopyInv, TypeOK
<1>2. "Suspended" \in Phases /\ "" \in Phases
  BY DEF Phases
<1>3. CASE Suspended
  BY <1>1, <1>2, <1>3, PassEndsSound, PassReportsSound DEF Suspended
<1>4. CASE Resume
  BY <1>1, <1>2, <1>4, FieldTypes, WriteAndGoOnSound DEF Resume
<1>5. QED
  BY <1>3, <1>4

LEMMA ForceUnlockSound ==
    ASSUME Sound,
           \/ KillActiveJobs \/ NothingToUnlock \/ CreateUnlockJob
           \/ UnlockStillActive \/ UnlockSucceeded \/ UnlockFailed
    PROVE  Sound'
<1>1. /\ pc \in {"body", "unlock"} /\ ~obj.deleting /\ obj.finalizer
      /\ obj \in Projects /\ queued \in BOOLEAN
  BY DEF KillActiveJobs, NothingToUnlock, CreateUnlockJob, UnlockStillActive,
         UnlockSucceeded, UnlockFailed, UnlockTurn, Sound, CopyInv, TypeOK
<1>2. {"", "Error", "ForceUnlocking"} \subseteq Phases
  BY DEF Phases
<1>3. \A x \in {"", "Error"} : /\ [obj EXCEPT !.phase = x] \in Projects
                               /\ SameFate([obj EXCEPT !.phase = x], obj)
  BY <1>1, <1>2, FieldTypes
<1>4. {"unlock", "clear"} \subseteq PassSteps \ {"idle", "head", "status"}
  BY DEF PassSteps
<1>5. CASE KillActiveJobs
  <2>1. /\ Remove(Victims) /\ GoOn("unlock", obj) /\ queued' \in BOOLEAN
        /\ UNCHANGED <<project, clockVars, configMap, lives, commands>>
    BY <1>1, <1>5 DEF KillActiveJobs, Reported
  <2>2. CopyInv' /\ pc' \in PassSteps /\ obj' \in Projects /\ fresh' \in BOOLEAN
    BY <1>1, <1>4, <2>1, GoOnSound DEF SameFate
  <2>3. Victims \in SUBSET Kinds
    BY DEF Victims, Active
  <2>4. QED
    BY <2>1, <2>2, <2>3, RemoveSound
<1>6. CASE NothingToUnlock \/ UnlockFailed
  BY <1>1, <1>3, <1>4, <1>6, PassGoesOnSound DEF NothingToUnlock, UnlockFailed
<1>7. CASE CreateUnlockJob
  BY <1>1, <1>2, <1>7, CreateJobSound DEF CreateUnlockJob, Kinds
<1>8. CASE UnlockStillActive
  BY <1>1, <1>2, <1>8, PassReportsSound DEF UnlockStillActive
<1>9. CASE UnlockSucceeded
  <2>1. /\ Remove({"unlock"}) /\ queued' = TRUE
        /\ GoOn("clear", [obj EXCEPT !.phase = ""])
        /\ UNCHANGED <<project, clockVars, configMap, lives, commands>>
    BY <1>9 DEF UnlockSucceeded
  <2>2. CopyInv' /\ pc' \in PassSteps /\ obj' \in Projects /\ fresh' \in BOOLEAN
    BY <1>1, <1>3, <1>4, <2>1, GoOnSound
  <2>3. {"unlock"} \in SUBSET Kinds
    BY DEF Kinds
  <2>4. QED
    BY <2>1, <2>2, <2>3, RemoveSound
<1>10. QED
  BY <1>5, <1>6, <1>7, <1>8, <1>9

LEMMA ClearForceUnlockSound == ASSUME Sound, ClearForceUnlock PROVE Sound'
<1>1. /\ pc = "clear" /\ obj.finalizer /\ Exists /\ obj \in Projects
      /\ project \in Projects /\ queued \in BOOLEAN /\ faults \in 0 .. MaxFaults
  BY DEF ClearForceUnlock, Sound, CopyInv, TypeOK, Exists
<1>2. /\ [obj EXCEPT !.forceUnlock = FALSE] \in Projects
      /\ SameFate([obj EXCEPT !.forceUnlock = FALSE], obj)
      /\ [project EXCEPT !.forceUnlock = FALSE] \in Projects
      /\ SameFate([project EXCEPT !.forceUnlock = FALSE], project)
  BY <1>1, FieldTypes
<1>3. /\ project' \in Projects /\ project' # Gone /\ SameFate(project', project)
      /\ queued' \in BOOLEAN
  BY <1>1, <1>2, GoneAssumption DEF ClearForceUnlock, Wakes, SameFate
<1>4. faults' \in 0 .. MaxFaults
  BY <1>1, LimitsAssumption DEF ClearForceUnlock
<1>5. /\ pc' = "status" /\ obj' = [obj EXCEPT !.forceUnlock = FALSE]
      /\ fresh' = fresh /\ fresh' \in BOOLEAN /\ pc' \in PassSteps
  BY DEF ClearForceUnlock, GoOn, PassSteps, Sound, TypeOK
<1>6. CopyInv'
  BY <1>1, <1>2, <1>3, <1>5 DEF Sound, CopyInv, SameFate, DeletingIsHeld, Exists
<1>7. UNCHANGED <<clockVars, configMap, jobVars, worldVars, lives, commands>>
  BY DEF ClearForceUnlock
<1>8. QED
  BY <1>2, <1>3, <1>4, <1>5, <1>6, <1>7, ProjectStepSound
     DEF Sound, TypeOK, clockVars

LEMMA ApplySound ==
    ASSUME Sound,
           \/ EnsureTFConfigMap \/ WaitForActiveJob \/ NoActiveJob
           \/ AlreadyApplied \/ CreateApplyJob \/ ApplySucceeded \/ ApplyFailed
    PROVE  Sound'
<1>1. /\ pc \in {"body", "lock", "apply"} /\ ~obj.deleting /\ obj.finalizer
      /\ obj \in Projects /\ queued \in BOOLEAN /\ timer \in BOOLEAN
  BY DEF EnsureTFConfigMap, WaitForActiveJob, NoActiveJob, AlreadyApplied,
         CreateApplyJob, ApplySucceeded, ApplyFailed, ApplyTurn, Sound, CopyInv,
         TypeOK
<1>2. {"Running", "Succeeded", "Error", "Locked"} \subseteq Phases
  BY DEF Phases
<1>3. {"lock", "apply", "report"} \subseteq PassSteps \ {"idle", "head", "status"}
  BY DEF PassSteps
<1>4. DeletingIsHeld
  BY DEF Sound, CopyInv
<1>5. CASE EnsureTFConfigMap
  <2>1. /\ UNCHANGED <<project, clockVars, lives, commands>>
        /\ UNCHANGED <<jobs, orphans, overlap, infra, ghosts, holder, faults>>
        /\ configMap' \in {"absent", "mine", "orphan"} /\ queued' \in BOOLEAN
        /\ EndPass \/ GoOn("lock", obj)
    BY <1>1, <1>5
       DEF EnsureTFConfigMap, jobVars, worldVars, boundVars, Sound, TypeOK
  <2>2. CopyInv' /\ pc' \in PassSteps /\ obj' \in Projects /\ fresh' \in BOOLEAN
    <3>1. CASE EndPass
      BY <1>4, <2>1, <3>1, EndPassSound DEF DeletingIsHeld, Exists
    <3>2. CASE GoOn("lock", obj)
      BY <1>1, <1>3, <2>1, <3>2, GoOnSound DEF SameFate
    <3>3. QED
      BY <2>1, <3>1, <3>2
  <2>3. QED
    BY <2>1, <2>2, JobStepSound DEF Sound, TypeOK
<1>6. CASE WaitForActiveJob
  BY <1>1, <1>2, <1>6, PassReportsSound DEF WaitForActiveJob
<1>7. CASE NoActiveJob
  BY <1>1, <1>3, <1>7, PassGoesOnSound DEF NoActiveJob, SameFate
<1>8. CASE AlreadyApplied
  <2>1. DeletingIsHeld' /\ EndPass
    BY <1>4, <1>8 DEF AlreadyApplied, DeletingIsHeld, Exists
  <2>2. CopyInv' /\ pc' \in PassSteps /\ obj' \in Projects /\ fresh' \in BOOLEAN
    BY <2>1, EndPassSound
  <2>3. timer' \in BOOLEAN
    BY <1>1, <1>8 DEF AlreadyApplied, ClampToTTL, Projects, Sound, TypeOK
  <2>4. QED
    BY <1>8, <2>2, <2>3
       DEF AlreadyApplied, Sound, TypeOK, jobVars, worldVars, boundVars, PassSteps
<1>9. CASE CreateApplyJob
  BY <1>1, <1>2, <1>9, CreateJobSound DEF CreateApplyJob, ApplyTurn, Kinds
<1>10. CASE ApplySucceeded
  BY <1>1, <1>2, <1>3, <1>10, FieldTypes, PassGoesOnSound DEF ApplySucceeded
<1>11. CASE ApplyFailed
  BY <1>1, <1>2, <1>3, <1>11, FieldTypes, PassGoesOnSound DEF ApplyFailed
<1>12. QED
  BY <1>5, <1>6, <1>7, <1>8, <1>9, <1>10, <1>11

LEMMA EndSound == ASSUME Sound, WriteStatus \/ CallFails \/ Restart PROVE Sound'
<1>1. /\ EndPass /\ UNCHANGED <<expired, configMap, jobVars, worldVars, lives,
                                commands>>
  BY DEF WriteStatus, CallFails, Restart, clockVars
<1>2. /\ project' \in Projects \cup {Gone} /\ DeletingIsHeld'
      /\ queued' \in BOOLEAN /\ faults' \in 0 .. MaxFaults
  <2>1. CASE WriteStatus
    <3>1. WriteInPass(obj) /\ obj \in Projects /\ pc # "idle"
      BY <2>1 DEF WriteStatus, Sound, TypeOK
    <3>2. QED
      BY <3>1, WriteInPassType
         DEF Sound, CopyInv, DeletingIsHeld, Exists, SameFate
  <2>2. CASE CallFails \/ Restart
    <3>1. faults < MaxFaults /\ faults' = faults + 1 /\ UNCHANGED project
      BY <2>2 DEF CallFails, Restart
    <3>2. faults' \in 0 .. MaxFaults
      BY <3>1, LimitsAssumption DEF Sound, TypeOK
    <3>3. queued' \in BOOLEAN
      BY <2>2 DEF CallFails, Restart, Exists
    <3>4. QED
      BY <3>1, <3>2, <3>3 DEF Sound, TypeOK, CopyInv, DeletingIsHeld, Exists
  <2>3. QED
    BY <2>1, <2>2
<1>3. timer' \in BOOLEAN
  BY DEF WriteStatus, ClampToTTL, CallFails, Restart, clockVars, Sound, TypeOK,
         Projects
<1>4. CopyInv' /\ pc' \in PassSteps /\ obj' \in Projects /\ fresh' \in BOOLEAN
  BY <1>1, <1>2, EndPassSound
<1>5. QED
  BY <1>1, <1>2, <1>3, <1>4, ProjectStepSound DEF Sound, TypeOK

-----------------------------------------------------------------------------
(***************************************************************************)
(* The steps: the cluster and the users.                                   *)
(***************************************************************************)

LEMMA ClusterSound == ASSUME Sound, Cluster PROVE Sound'
<1>1. queued \in BOOLEAN /\ timer \in BOOLEAN
  BY DEF Sound, TypeOK
<1>2. ASSUME UNCHANGED <<project, passVars>>
      PROVE  /\ CopyInv' /\ pc' \in PassSteps /\ obj' \in Projects
             /\ fresh' \in BOOLEAN
  BY <1>2 DEF passVars, Sound, CopyInv, DeletingIsHeld, Exists, TypeOK, PassSteps
<1>3. ASSUME NEW k \in Kinds, StartJob(k) \/ SucceedJob(k) \/ FailJob(k)
      PROVE  Sound'
  <2>1. PICK state \in JobStates : JobChanges(k, state)
    BY <1>3 DEF StartJob, SucceedJob, FailJob, JobStates
  <2>2. [jobs EXCEPT ![k] = state] \in [Kinds -> JobStates]
    BY DEF Sound, TypeOK
  <2>3. jobs' \in [Kinds -> JobStates] /\ overlap' \in BOOLEAN
    BY <2>1, <2>2, SetJobsType DEF JobChanges, Sound
  <2>4. /\ UNCHANGED <<project, clockVars, lives, commands>>
        /\ UNCHANGED <<configMap, orphans, ghosts, faults>> /\ queued' \in BOOLEAN
        /\ UNCHANGED <<project, passVars>>
    BY <1>1, <2>1 DEF JobChanges, boundVars, Reported
  <2>5. /\ infra' \in BOOLEAN /\ ghosts' \subseteq Kinds
        /\ holder' \in Kinds \cup {"dying", "lost", "nobody"}
    BY <1>3, <2>4 DEF StartJob, SucceedJob, FailJob, Sound, TypeOK, Kinds
  <2>6. /\ CopyInv' /\ pc' \in PassSteps /\ obj' \in Projects
        /\ fresh' \in BOOLEAN
    BY <1>2, <2>4
  <2>7. QED
    BY <2>3, <2>4, <2>5, <2>6, JobStepSound DEF Sound, TypeOK
<1>4. ASSUME NEW k \in Kinds, CollectJob(k)
      PROVE  Sound'
  <2>1. /\ Kill({k}) /\ queued' = TRUE
        /\ UNCHANGED <<project, clockVars, lives, commands>>
        /\ UNCHANGED <<configMap, faults>> /\ UNCHANGED <<project, passVars>>
    BY <1>4 DEF CollectJob, boundVars
  <2>2. /\ jobs' \in [Kinds -> JobStates] /\ overlap' \in BOOLEAN
        /\ orphans' \subseteq Kinds \ {"destroy"}
        /\ infra' \in BOOLEAN /\ ghosts' \subseteq Kinds
        /\ holder' \in Kinds \cup {"dying", "lost", "nobody"}
    BY <2>1, KillType DEF Sound
  <2>3. /\ CopyInv' /\ pc' \in PassSteps /\ obj' \in Projects
        /\ fresh' \in BOOLEAN
    BY <1>2, <2>1
  <2>4. QED
    BY <2>1, <2>2, <2>3, JobStepSound DEF Sound, TypeOK
<1>5. ASSUME NEW k \in Kinds, EndGhost(k)
      PROVE  Sound'
  <2>1. /\ UNCHANGED <<project, clockVars, lives, commands>>
        /\ UNCHANGED <<configMap, jobVars, faults>> /\ queued' = queued
        /\ UNCHANGED <<project, passVars>>
    BY <1>5 DEF EndGhost, boundVars
  <2>2. /\ infra' \in BOOLEAN /\ ghosts' \subseteq Kinds
        /\ holder' \in Kinds \cup {"dying", "lost", "nobody"}
    BY <1>5 DEF EndGhost, Sound, TypeOK
  <2>3. /\ CopyInv' /\ pc' \in PassSteps /\ obj' \in Projects
        /\ fresh' \in BOOLEAN
    BY <1>2, <2>1
  <2>4. QED
    BY <2>1, <2>2, <2>3, JobStepSound DEF Sound, TypeOK, jobVars
<1>6. CASE CollectConfigMap \/ TimePasses
  <2>1. UNCHANGED <<project, passVars>>
    BY <1>6 DEF CollectConfigMap, TimePasses
  <2>2. QED
    BY <1>1, <1>2, <1>6, <2>1
       DEF CollectConfigMap, TimePasses, Sound, TypeOK, clockVars, jobVars,
           worldVars, boundVars, PassSteps
<1>7. QED
  BY <1>3, <1>4, <1>5, <1>6 DEF Cluster

LEMMA CreateProjectSound == ASSUME Sound, CreateProject PROVE Sound'
<1>1. /\ ~Exists /\ project' \in NewProjects /\ UNCHANGED <<pc, obj>>
      /\ queued' = TRUE /\ expired' = FALSE /\ timer' = FALSE
      /\ fresh' = (fresh /\ pc = "idle")
      /\ UNCHANGED <<configMap, jobVars, worldVars, commands, faults>>
  BY DEF CreateProject, Outdate
<1>2. /\ project' \in Projects /\ project' # Gone /\ ~project'.deleting
      /\ fresh' \in BOOLEAN
  BY <1>1, NewProjectType, GoneAssumption DEF Sound, TypeOK
<1>3. CopyInv'
  BY <1>1, <1>2 DEF Sound, CopyInv, DeletingIsHeld, Exists
<1>4. lives' \in 1 .. MaxLives
  BY LimitsAssumption DEF CreateProject, Sound, TypeOK
<1>5. QED
  BY <1>1, <1>2, <1>3, <1>4, ProjectStepSound DEF Sound, TypeOK, PassSteps

LEMMA UsersSound == ASSUME Sound, Users PROVE Sound'
<1>1. CASE CreateProject
  BY <1>1, CreateProjectSound
<1>2. CASE ~CreateProject
  <2>1. /\ Exists /\ project \in Projects /\ lives' = lives
        /\ commands' \in 0 .. MaxCommands /\ commands \in 0 .. MaxCommands
    BY <1>2, LimitsAssumption
       DEF Users, DeleteProject, ApproveDelete, SuspendOrResume, EditTTL,
           AskForceUnlock, UserCommand, Sound, TypeOK, Exists
  <2>2. project.deleting => project.finalizer
    BY <2>1 DEF Sound, CopyInv, DeletingIsHeld
  <2>3. CASE DeleteProject
    <3>1. CASE project.finalizer
      <4> DEFINE p == [project EXCEPT !.deleting = TRUE]
      <4>1. /\ p \in Projects /\ p.deleting /\ p.finalizer = project.finalizer
            /\ p.approvedDelete = project.approvedDelete
        BY <2>1 DEF Projects
      <4>2. UserWrites(p)
        BY <2>3, <3>1 DEF DeleteProject
      <4> HIDE DEF p
      <4>3. QED
        BY <2>1, <2>2, <3>1, <4>1, <4>2, GoneAssumption, UserWritesSound
    <3>2. CASE ~project.finalizer
      BY <2>1, <2>3, <3>2, UserWritesSound DEF DeleteProject
    <3>3. QED
      BY <3>1, <3>2
  <2>4. CASE ~DeleteProject
    <3>1. PICK p :
              /\ UserWrites(p)
              /\ \/ p = [project EXCEPT !.approvedDelete = TRUE]
                 \/ p = [project EXCEPT !.suspend = ~@]
                 \/ p = [project EXCEPT !.ttl = ~@]
                 \/ p = [project EXCEPT !.forceUnlock = TRUE]
      BY <1>2, <2>4
         DEF Users, ApproveDelete, SuspendOrResume, EditTTL, AskForceUnlock,
             UserCommand
    <3>2. /\ p \in Projects /\ p.finalizer = project.finalizer
          /\ p.deleting = project.deleting
          /\ project.approvedDelete => p.approvedDelete
      BY <2>1, <3>1 DEF Projects
    <3>3. QED
      BY <2>1, <2>2, <3>1, <3>2, GoneAssumption, UserWritesSound
  <2>5. QED
    BY <2>3, <2>4
<1>3. QED
  BY <1>1, <1>2

THEOREM StepSound == Sound /\ [Next]_vars => Sound'
<1> SUFFICES ASSUME Sound, [Next]_vars PROVE Sound'
  OBVIOUS
<1>1. CASE Pass
  BY <1>1, StartSound, DeletionSound, AddFinalizerSound, ExpirySound,
     SuspensionSound, ForceUnlockSound, ClearForceUnlockSound, ApplySound, EndSound
     DEF Pass
<1>2. CASE CallFails \/ Restart
  BY <1>2, EndSound
<1>3. CASE Cluster
  BY <1>3, ClusterSound
<1>4. CASE Users
  BY <1>4, UsersSound
<1>5. CASE UNCHANGED vars
  BY <1>5 DEF vars, clockVars, jobVars, worldVars, passVars, boundVars, Sound,
              TypeOK, CopyInv, DeletingIsHeld, Exists
<1>6. QED
  BY <1>1, <1>2, <1>3, <1>4, <1>5 DEF Next

\* Types, and the truth of a pass's copy about deletion, hold in every state.
THEOREM SoundAlways == Spec => []Sound
<1>1. Init => Sound
  BY InitSound
<1>2. Sound /\ [Next]_vars => Sound'
  BY StepSound
<1>3. QED
  BY <1>1, <1>2, PTL DEF Spec

\* The variables keep their types: in particular a stored project is always a
\* whole one, since no write of a pass brings back one that has gone.
THEOREM TypeCorrect == Spec => []TypeOK
<1>1. Sound => TypeOK
  BY DEF Sound
<1>2. QED
  BY <1>1, SoundAlways, PTL
=============================================================================
