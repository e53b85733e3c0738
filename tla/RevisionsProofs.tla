--------------------------- MODULE RevisionsProofs ---------------------------
(***************************************************************************)
(* Theorems about Revisions, for any configurations, limits, revisions of  *)
(* a former life, and any number of edits, pins and faults.                *)
(***************************************************************************)
EXTENDS Revisions, TLAPS, FiniteSetTheorems

-----------------------------------------------------------------------------
(***************************************************************************)
(* The inductive invariant: what a pass has in its hands at each of its    *)
(* steps, how its number relates to the stored one, and what <project>-tf  *)
(* holds while it goes on.                                                 *)
(***************************************************************************)

\* A pass past its start has a hash to apply, that of the pin it has read; only
\* a pass without a pin records a revision.
PassOK ==
    /\ pc \in {"lock", "apply", "record"} => target \in Hashes
    /\ pc \in {"lock", "apply", "record"} => obj.pin = target[1]
    /\ pc \in {"record", "trim"} => obj.pin = 0

Sound == TypeOK /\ PassOK

\* Nobody else counts revisions, and a pass counts one.
NumberKept ==
    /\ pc \in {"head", "lock", "apply", "record"} => obj.revision = project.revision
    /\ pc \in {"trim", "status"} =>
          obj.revision \in {project.revision, project.revision + 1}

NumberInv == NumberKept /\ AtMostOneAhead

\* Nobody else writes <project>-tf, and the pass has written it or was shown what
\* is stored.
RenderKept ==
    pc \in {"lock", "apply", "record"} /\ target[1] = 0 /\ ~late
        => configMap = target[2]

SnapshotInv == RenderKept /\ SnapshotMatchesHash

\* Between the creation of a revision and the trim there is one more.
HistoryInv ==
    Limit # 0 /\ Cardinality(FormerLife) <= Limit =>
        Cardinality(DOMAIN revisions)
            <= Limit + missed + faults + (IF pc = "trim" THEN 1 ELSE 0)

\* A revision that is still shown but gone has left enough newer ones behind.
TrailInv ==
    \A n \in DOMAIN seen \ DOMAIN revisions :
        Cardinality({m \in DOMAIN revisions : m > n}) >= Limit

-----------------------------------------------------------------------------
(***************************************************************************)
(* Types.                                                                  *)
(***************************************************************************)

\* The copy's updates keep it a project.
LEMMA CopyTypes ==
    ASSUME NEW p \in Projects
    PROVE  /\ \A x \in {"Running", "Succeeded", "Error"} :
                 [p EXCEPT !.phase = x] \in Projects
           /\ \A x \in {"Running", "Succeeded", "Error"}, h \in Hashes :
                 [p EXCEPT !.phase = x, !.applied = h] \in Projects
           /\ \A n \in 0 .. MaxRevision : [p EXCEPT !.revision = n] \in Projects
           /\ \A n \in 0 .. MaxRevision : [p EXCEPT !.pin = n] \in Projects
           /\ \A c \in Configs : [p EXCEPT !.config = c] \in Projects
BY DEF Projects

\* A project as its creator writes it, also the one that no pass works on.
LEMMA NewTypes ==
    /\ \A c \in Configs : NewProject(c) \in Projects
    /\ TypeOK => NoCopy \in Projects
<1>1. \A c \in Configs : NewProject(c) \in Projects
  BY RevisionAssumption DEF NewProject, Projects
<1>2. ASSUME TypeOK PROVE NoCopy \in Projects
  <2>1. project.config \in Configs
    BY <1>2 DEF TypeOK, Projects
  <2>2. (CHOOSE c \in Configs : TRUE) \in Configs
    BY <2>1
  <2>3. QED
    BY <1>1, <2>2 DEF NoCopy
<1>3. QED
  BY <1>1, <1>2

\* A pass that is over has nothing in its hands.
LEMMA EndPassSound ==
    ASSUME TypeOK, EndPass
    PROVE  /\ pc' = "idle" /\ obj' \in Projects /\ fresh' \in BOOLEAN
           /\ target' = NoHash /\ late' \in BOOLEAN /\ PassOK'
BY NewTypes DEF EndPass, PassOK

\* The stored half of the types.
Stored ==
    /\ project \in Projects
    /\ configMap \in Contents /\ shown \in Contents
    /\ DOMAIN revisions \subseteq Numbers /\ DOMAIN seen \subseteq Numbers
    /\ \A n \in DOMAIN revisions : revisions[n] \in Revision
    /\ \A n \in DOMAIN seen : seen[n] \in Revision
    /\ jobs \in [Hashes -> JobStates]
    /\ queued \in BOOLEAN /\ dropped \in BOOLEAN
    /\ missed \in 0 .. MaxRevision
    /\ edits \in 0 .. MaxEdits /\ faults \in 0 .. MaxFaults

PassSteps == {"idle", "head", "lock", "apply", "record", "trim", "status"}

Held ==
    /\ obj \in Projects /\ fresh \in BOOLEAN /\ late \in BOOLEAN
    /\ target \in Hashes \cup {NoHash}
    /\ pc \in PassSteps
    /\ PassOK

LEMMA SoundParts == (Sound <=> Stored /\ Held) /\ (Sound' <=> Stored' /\ Held')
<1>1. Sound <=> Stored /\ Held
  BY DEF Sound, TypeOK, Stored, Held, PassSteps
<1>2. Sound' <=> Stored' /\ Held'
  BY DEF Sound, TypeOK, Stored, Held, PassSteps
<1>3. QED
  BY <1>1, <1>2

LEMMA EndHeld == Sound /\ EndPass => Held'
BY EndPassSound DEF Sound, Held, PassSteps

\* A step that writes nothing but the pass and the queue.
LEMMA FrameStored ==
    ASSUME Sound, OnlyPassMoves, queued' \in BOOLEAN
    PROVE  Stored'
BY DEF Sound, TypeOK, OnlyPassMoves, storeVars, cacheVars, boundVars, Stored

\* The error of a call that is only logged stays within its bound.
LEMMA FaultType ==
    ASSUME Sound, LoggedError \/ UNCHANGED faults
    PROVE  faults' \in 0 .. MaxFaults
BY RevisionAssumption DEF Sound, TypeOK, LoggedError

\* A hash is one of a configuration, or of a revision with its configuration.
LEMMA HashTypes ==
    /\ \A c \in Configs : <<0, c>> \in Hashes
    /\ \A h \in Hashes : h[1] \in 0 .. MaxRevision /\ h[2] \in Configs
    /\ \A n \in Numbers, c \in Configs :
          <<n, c>> \in Hashes /\ <<n, c>>[1] = n /\ <<n, c>>[2] = c
BY RevisionAssumption DEF Hashes, Numbers

LEMMA InitSound == Init => Sound
<1> SUFFICES ASSUME Init PROVE Sound
  OBVIOUS
<1>1. PICK c \in Configs : project = NewProject(c)
  BY DEF Init
<1>2. PICK d \in Configs :
         revisions = [n \in FormerLife |->
                        [hash |-> d, snapshot |-> d, late |-> FALSE]]
  BY DEF Init
<1>3. /\ DOMAIN revisions \subseteq Numbers /\ seen = revisions
      /\ \A n \in DOMAIN revisions : revisions[n] \in Revision
  <2>1. seen = revisions
    BY DEF Init
  <2>2. QED
    BY <1>2, <2>1, RevisionAssumption DEF Numbers, Revision, Contents
<1>4. NoCopy \in Projects
  <2>1. (CHOOSE e \in Configs : TRUE) \in Configs
    BY <1>1
  <2>2. QED
    BY <2>1, NewTypes DEF NoCopy
<1>5. jobs \in [Hashes -> JobStates]
  BY DEF Init, JobStates
<1>6. Stored
  <2>1. /\ project \in Projects /\ configMap \in Contents /\ shown \in Contents
        /\ queued \in BOOLEAN /\ dropped \in BOOLEAN
    BY <1>1, NewTypes DEF Init, Contents
  <2>2. missed \in 0 .. MaxRevision /\ edits \in 0 .. MaxEdits /\ faults \in 0 .. MaxFaults
    BY RevisionAssumption DEF Init
  <2>3. QED
    BY <1>3, <1>5, <2>1, <2>2 DEF Stored
<1>7. Held
  BY <1>4 DEF Init, Held, PassSteps, PassOK
<1>8. QED
  BY <1>6, <1>7, SoundParts

\* The write of <project>-tf, or its refusal.
LEMMA RenderTypes ==
    ASSUME Sound, NEW content \in Contents, NEW hash \in Hashes, pc = "head",
           obj.pin = hash[1], Render(content, hash)
    PROVE  configMap' \in Contents /\ queued' \in BOOLEAN /\ Held'
<1>t. TypeOK
  BY DEF Sound
<1>1. CASE /\ content = shown \/ shown = configMap
           /\ configMap' = IF content = shown THEN configMap ELSE content
           /\ late' = (shown # configMap)
           /\ target' = hash /\ pc' = "lock"
           /\ UNCHANGED <<queued, obj, fresh>>
  BY <1>t, <1>1 DEF TypeOK, Held, PassOK, PassSteps
<1>2. CASE queued' = TRUE /\ EndPass /\ UNCHANGED configMap
  BY <1>t, <1>2, EndHeld DEF TypeOK
<1>3. QED
  BY <1>1, <1>2 DEF Render

\* The two flows up to the lock.
LEMMA HeadSound ==
    ASSUME Sound, \/ StartPass \/ EnsureTFConfigMap \/ RejectPin
                  \/ PinAlreadyApplied \/ PreparePinnedInfra
    PROVE  Sound'
<1>t. TypeOK
  BY DEF Sound
<1>1. CASE StartPass
  <2>1. Stored'
    BY <1>t, <1>1 DEF StartPass, TypeOK, Stored, storeVars, cacheVars, boundVars
  <2>2. Held'
    BY <1>t, <1>1 DEF StartPass, Held, PassOK, PassSteps, TypeOK
  <2>3. QED
    BY <2>1, <2>2, SoundParts
<1>2. CASE EnsureTFConfigMap
  <2>1. /\ obj.config \in Contents /\ <<0, obj.config>> \in Hashes
        /\ <<0, obj.config>>[1] = 0
    BY <1>t, HashTypes DEF TypeOK, Projects, Contents
  <2>2. configMap' \in Contents /\ queued' \in BOOLEAN /\ Held'
    BY <1>2, <2>1, RenderTypes DEF EnsureTFConfigMap, Rendered
  <2>3. Stored'
    BY <1>t, <1>2, <2>2 DEF EnsureTFConfigMap, TypeOK, Stored, cacheVars, boundVars
  <2>4. QED
    BY <2>2, <2>3, SoundParts
<1>3. CASE RejectPin
  <2>1. Stored'
    BY <1>t, <1>3, FrameStored DEF RejectPin, TypeOK
  <2>2. Held'
    BY <1>t, <1>3, CopyTypes DEF RejectPin, GoOn, TypeOK, Held, PassOK, PassSteps
  <2>3. QED
    BY <2>1, <2>2, SoundParts
<1>4. CASE PinAlreadyApplied
  <2>1. Stored'
    BY <1>t, <1>4, FrameStored DEF PinAlreadyApplied, TypeOK
  <2>2. QED
    BY <1>4, <2>1, EndHeld, SoundParts DEF PinAlreadyApplied
<1>5. CASE PreparePinnedInfra
  <2>1. obj.pin \in Numbers /\ seen[obj.pin] \in Revision
    BY <1>t, <1>5 DEF PreparePinnedInfra, HasSnapshot, TypeOK
  <2>2. /\ PinnedHash(obj.pin) \in Hashes /\ PinnedHash(obj.pin)[1] = obj.pin
        /\ seen[obj.pin].snapshot \in Contents
    BY <2>1, HashTypes DEF PinnedHash, Revision
  <2>3. configMap' \in Contents /\ queued' \in BOOLEAN /\ Held'
    BY <1>5, <2>2, RenderTypes DEF PreparePinnedInfra, Pinned
  <2>4. Stored'
    BY <1>t, <1>5, <2>3 DEF PreparePinnedInfra, TypeOK, Stored, cacheVars, boundVars
  <2>5. QED
    BY <2>3, <2>4, SoundParts
<1>6. QED
  BY <1>1, <1>2, <1>3, <1>4, <1>5

\* The lock, the apply Job and its result.
LEMMA FlowSound ==
    ASSUME Sound, \/ WaitForActiveJob \/ NoActiveJob \/ AlreadyApplied
                  \/ CreateApplyJob \/ ApplySucceeded \/ ApplyFailed
    PROVE  Sound'
<1>t. TypeOK /\ PassOK
  BY DEF Sound
<1>1. CASE WaitForActiveJob
  <2>1. Stored'
    BY <1>1, FrameStored DEF WaitForActiveJob
  <2>2. Held'
    BY <1>t, <1>1, CopyTypes DEF WaitForActiveJob, GoOn, TypeOK, Held, PassOK, PassSteps
  <2>3. QED
    BY <2>1, <2>2, SoundParts
<1>2. CASE NoActiveJob
  <2>1. Stored'
    BY <1>t, <1>2, FrameStored DEF NoActiveJob, TypeOK
  <2>2. Held'
    BY <1>t, <1>2 DEF NoActiveJob, GoOn, TypeOK, Held, PassOK, PassSteps
  <2>3. QED
    BY <2>1, <2>2, SoundParts
<1>3. CASE AlreadyApplied
  <2>1. Stored'
    BY <1>t, <1>3, FrameStored DEF AlreadyApplied, TypeOK
  <2>2. QED
    BY <1>3, <2>1, EndHeld, SoundParts DEF AlreadyApplied
<1>4. CASE CreateApplyJob
  <2>1. Stored'
    BY <1>t, <1>4 DEF CreateApplyJob, TypeOK, Stored, JobStates, cacheVars, boundVars
  <2>2. Held'
    BY <1>t, <1>4, CopyTypes DEF CreateApplyJob, GoOn, TypeOK, Held, PassOK, PassSteps
  <2>3. QED
    BY <2>1, <2>2, SoundParts
<1>5. CASE ApplySucceeded \/ ApplyFailed
  <2>1. Stored'
    BY <1>t, <1>5, FrameStored DEF ApplySucceeded, ApplyFailed, TypeOK
  <2>2. target \in Hashes /\ obj.pin = target[1]
    BY <1>t, <1>5 DEF ApplySucceeded, ApplyFailed, ApplyTurn, PassOK
  <2>3. PICK o \in Projects : GoOn(AfterResult, o) /\ o.pin = obj.pin
    <3>1. CASE ApplySucceeded
      <4>1. [obj EXCEPT !.phase = "Succeeded", !.applied = target] \in Projects
        BY <1>t, <2>2, CopyTypes DEF TypeOK
      <4>2. QED
        BY <1>t, <3>1, <4>1 DEF ApplySucceeded, TypeOK, Projects
    <3>2. CASE ApplyFailed
      <4>1. [obj EXCEPT !.phase = "Error"] \in Projects
        BY <1>t, CopyTypes DEF TypeOK
      <4>2. QED
        BY <1>t, <3>2, <4>1 DEF ApplyFailed, TypeOK, Projects
    <3>3. QED
      BY <1>5, <3>1, <3>2
  <2>4. Held'
    BY <1>t, <2>2, <2>3 DEF GoOn, AfterResult, TypeOK, Held, PassOK, PassSteps
  <2>5. QED
    BY <2>1, <2>4, SoundParts
<1>6. QED
  BY <1>1, <1>2, <1>3, <1>4, <1>5

\* createRevisionFromCM.
LEMMA RecordSound ==
    ASSUME Sound, SkipRevision \/ CreateRevision \/ TrimRevisions
    PROVE  Sound'
<1>t. TypeOK /\ PassOK
  BY DEF Sound
<1>1. CASE SkipRevision
  <2>1. faults' \in 0 .. MaxFaults
    BY <1>1, FaultType DEF SkipRevision
  <2>2. Stored'
    BY <1>t, <1>1, <2>1 DEF SkipRevision, TypeOK, Stored, storeVars, cacheVars
  <2>3. Held'
    BY <1>t, <1>1 DEF SkipRevision, GoOn, TypeOK, Held, PassOK, PassSteps
  <2>4. QED
    BY <2>2, <2>3, SoundParts
<1>2. CASE CreateRevision
  <2> DEFINE n == NextNumber
             counted == [obj EXCEPT !.revision = n]
  <2>1. target \in Hashes /\ obj.pin = 0
    BY <1>t, <1>2 DEF CreateRevision, PassOK
  <2>2. NewRevision \in Revision
    BY <1>t, <2>1, HashTypes DEF NewRevision, Revision, Contents, TypeOK
  <2>3. n \in Numbers
    <3>1. obj.revision \in 0 .. MaxRevision
      BY <1>t DEF TypeOK, Projects
    <3>2. obj.revision < MaxRevision
      BY <1>2 DEF CreateRevision
    <3>3. QED
      BY <3>1, <3>2, RevisionAssumption DEF NextNumber, Numbers
  <2>4. counted \in Projects /\ counted.pin = 0
    <3>1. obj \in Projects /\ n \in 0 .. MaxRevision
      BY <1>t, <2>3, RevisionAssumption DEF TypeOK, Numbers
    <3>2. counted.pin = obj.pin
      BY <3>1 DEF Projects
    <3>3. QED
      BY <2>1, <3>1, <3>2, CopyTypes
  <2>5. /\ DOMAIN revisions' \subseteq Numbers
        /\ \A m \in DOMAIN revisions' : revisions'[m] \in Revision
    BY <1>t, <1>2, <2>2, <2>3 DEF CreateRevision, TypeOK
  <2>6. faults' \in 0 .. MaxFaults
    BY <1>2, FaultType DEF CreateRevision
  <2>7. Stored'
    BY <1>t, <1>2, <2>5, <2>6 DEF CreateRevision, TypeOK, Stored, cacheVars
  <2>8. GoOn("trim", counted) \/ GoOn("status", counted)
    BY <1>2 DEF CreateRevision
  <2>9. Held'
    BY <1>t, <2>4, <2>8 DEF GoOn, TypeOK, Held, PassOK, PassSteps
  <2>10. QED
    BY <2>7, <2>9, SoundParts
<1>3. CASE TrimRevisions
  <2>1. /\ DOMAIN revisions' \subseteq DOMAIN revisions
        /\ \A m \in DOMAIN revisions' : revisions'[m] = revisions[m]
    BY <1>3 DEF TrimRevisions, Restrict
  <2>2. faults' \in 0 .. MaxFaults
    BY <1>3, FaultType DEF TrimRevisions
  <2>m. missed' \in 0 .. MaxRevision
    <3>1. Cardinality(DOMAIN revisions \ DOMAIN seen) \in 0 .. MaxRevision
      <4>1. DOMAIN revisions \ DOMAIN seen \subseteq Numbers
        BY <1>t DEF TypeOK
      <4>2. IsFiniteSet(Numbers) /\ Cardinality(Numbers) = MaxRevision
        BY RevisionAssumption, FS_Interval DEF Numbers
      <4>3. QED
        BY <4>1, <4>2, RevisionAssumption, FS_Subset, FS_CardinalityType
    <3>2. QED
      BY <1>t, <1>3, <3>1 DEF TrimRevisions, TypeOK
  <2>3. Stored'
    BY <1>t, <1>3, <2>1, <2>2, <2>m DEF TrimRevisions, TypeOK, Stored, cacheVars
  <2>4. Held'
    BY <1>t, <1>3 DEF TrimRevisions, GoOn, TypeOK, Held, PassOK, PassSteps
  <2>5. QED
    BY <2>3, <2>4, SoundParts
<1>4. QED
  BY <1>1, <1>2, <1>3

\* The end of a pass.
LEMMA EndSound ==
    ASSUME Sound, WriteStatus \/ StatusWriteLost \/ CallFailsOrRestart
    PROVE  Sound'
<1>t. TypeOK
  BY DEF Sound
<1>1. CASE WriteStatus
  <2>1. WithStatus(obj) \in Projects
    BY <1>t DEF WithStatus, TypeOK, Projects
  <2>2. Stored'
    BY <1>t, <1>1, <2>1 DEF WriteStatus, TypeOK, Stored, storeVars, cacheVars, boundVars
  <2>3. QED
    BY <1>1, <2>2, EndHeld, SoundParts DEF WriteStatus
<1>2. CASE StatusWriteLost \/ CallFailsOrRestart
  <2>1. faults' \in 0 .. MaxFaults
    BY <1>2, FaultType DEF StatusWriteLost, CallFailsOrRestart
  <2>2. Stored'
    BY <1>t, <1>2, <2>1 DEF StatusWriteLost, CallFailsOrRestart, TypeOK, Stored,
                            storeVars, cacheVars
  <2>3. QED
    BY <1>2, <2>2, EndHeld, SoundParts DEF StatusWriteLost, CallFailsOrRestart
<1>3. QED
  BY <1>1, <1>2

\* Informers, Jobs and users.
LEMMA WorldSound ==
    ASSUME Sound, Informers \/ (\E h \in Hashes : EndJob(h)) \/ Users \/ UNCHANGED vars
    PROVE  Sound'
<1>t. TypeOK /\ PassOK
  BY DEF Sound
<1>1. ASSUME NEW h \in Hashes, EndJob(h) PROVE Sound'
  <2>1. Stored'
    BY <1>t, <1>1 DEF EndJob, TypeOK, Stored, JobStates, cacheVars, boundVars
  <2>2. Held'
    BY <1>t, <1>1 DEF EndJob, TypeOK, Held, PassOK, PassSteps, passVars
  <2>3. QED
    BY <2>1, <2>2, SoundParts
<1>2. CASE Users
  <2>1. PICK p \in Projects : UserWrites(p)
    <3>1. project \in Projects /\ 0 \in 0 .. MaxRevision
      BY <1>t, RevisionAssumption DEF TypeOK
    <3>2. CASE EditSpec
      BY <3>1, <3>2, CopyTypes DEF EditSpec
    <3>3. CASE Pin
      <4>1. Numbers \subseteq 0 .. MaxRevision
        BY RevisionAssumption DEF Numbers
      <4>2. QED
        BY <3>1, <3>3, <4>1, CopyTypes DEF Pin
    <3>4. CASE Unpin
      BY <3>1, <3>4, CopyTypes DEF Unpin
    <3>5. QED
      BY <1>2, <3>2, <3>3, <3>4 DEF Users
  <2>2. edits' \in 0 .. MaxEdits
    BY <1>t, <2>1, RevisionAssumption DEF UserWrites, TypeOK
  <2>3. Stored'
    BY <1>t, <2>1, <2>2 DEF UserWrites, TypeOK, Stored, storeVars, cacheVars
  <2>4. Held'
    BY <1>t, <2>1 DEF UserWrites, TypeOK, Held, PassOK, PassSteps
  <2>5. QED
    BY <2>3, <2>4, SoundParts
<1>3. CASE UNCHANGED vars
  BY <1>t, <1>3 DEF vars, passVars, storeVars, cacheVars, boundVars, Sound, TypeOK,
                    PassOK
<1>4. CASE Informers
  <2>1. Stored'
    <3>1. CASE SyncConfigMap
      BY <1>t, <3>1 DEF SyncConfigMap, Woken, TypeOK, Stored, storeVars, boundVars
    <3>2. ASSUME NEW n \in Numbers, SyncRevision(n) PROVE Stored'
      <4>1. /\ DOMAIN seen' \subseteq Numbers
            /\ \A m \in DOMAIN seen' : seen'[m] \in Revision
        BY <1>t, <3>2 DEF SyncRevision, TypeOK
      <4>2. QED
        BY <1>t, <3>2, <4>1 DEF SyncRevision, TypeOK, Stored, storeVars, boundVars
    <3>3. QED
      BY <1>4, <3>1, <3>2 DEF Informers
  <2>2. Held'
    BY <1>t, <1>4 DEF Informers, SyncConfigMap, SyncRevision, TypeOK, Held, PassOK,
                      PassSteps, passVars
  <2>3. QED
    BY <2>1, <2>2, SoundParts
<1>5. QED
  BY <1>1, <1>2, <1>3, <1>4

LEMMA StepSound == Sound /\ [Next]_vars => Sound'
<1> SUFFICES ASSUME Sound, [Next]_vars PROVE Sound'
  OBVIOUS
<1>1. CASE Pass
  BY <1>1, HeadSound, FlowSound, RecordSound, EndSound DEF Pass
<1>2. CASE \/ CallFailsOrRestart \/ StatusWriteLost \/ Informers \/ Users
           \/ (\E h \in Hashes : EndJob(h)) \/ UNCHANGED vars
  BY <1>2, EndSound, WorldSound
<1>3. QED
  BY <1>1, <1>2 DEF Next

\* Every variable keeps its type: in particular a pass that records a revision
\* has the hash of a configuration to record, and the number in the status never
\* leaves its range (Reconcile, reconcilePinned, createRevisionFromCM).
THEOREM TypeCorrect == Spec => []TypeOK
<1>1. Init => Sound
  BY InitSound
<1>2. Sound /\ [Next]_vars => Sound'
  BY StepSound
<1>3. Sound => TypeOK
  BY DEF Sound
<1>4. QED
  BY <1>1, <1>2, <1>3, PTL DEF Spec

\* Revisions are numbered, and finitely many.
LEMMA NumberTypes ==
    ASSUME Sound
    PROVE  /\ project \in Projects /\ obj \in Projects
           /\ project.revision \in Nat /\ project.revision <= MaxRevision
           /\ DOMAIN revisions \subseteq Nat
           /\ IsFiniteSet(DOMAIN revisions)
           /\ DOMAIN seen \subseteq Nat
           /\ IsFiniteSet(DOMAIN seen)
<1>1. /\ project \in Projects /\ obj \in Projects
      /\ DOMAIN revisions \subseteq Numbers /\ DOMAIN seen \subseteq Numbers
  BY DEF Sound, TypeOK
<1>2. project.revision \in 0 .. MaxRevision
  BY <1>1 DEF Projects
<1>3. Numbers \subseteq Nat /\ IsFiniteSet(Numbers)
  BY RevisionAssumption, FS_Interval DEF Numbers
<1>4. IsFiniteSet(DOMAIN revisions) /\ IsFiniteSet(DOMAIN seen)
  BY <1>1, <1>3, FS_Subset
<1>5. project.revision \in Nat /\ project.revision <= MaxRevision
  BY <1>2, RevisionAssumption
<1>6. DOMAIN revisions \subseteq Nat /\ DOMAIN seen \subseteq Nat
  BY <1>1, <1>3
<1>7. QED
  BY <1>1, <1>4, <1>5, <1>6

-----------------------------------------------------------------------------
(***************************************************************************)
(* What the steps do to the parts of the state that the revisions rest on. *)
(***************************************************************************)

\* Steps that neither record, trim nor store a number.
Quiet ==
    \/ StartPass \/ EnsureTFConfigMap
    \/ RejectPin \/ PinAlreadyApplied \/ PreparePinnedInfra
    \/ WaitForActiveJob \/ NoActiveJob \/ AlreadyApplied \/ CreateApplyJob
    \/ ApplySucceeded \/ ApplyFailed
    \/ SkipRevision \/ CallFailsOrRestart \/ StatusWriteLost \/ Informers \/ Users
    \/ (\E h \in Hashes : EndJob(h)) \/ UNCHANGED vars

LEMMA StepKinds ==
    ASSUME [Next]_vars
    PROVE  Quiet \/ CreateRevision \/ TrimRevisions \/ WriteStatus
BY DEF Next, Pass, Quiet

\* A quiet step leaves the revisions and the stored number; a pass that goes on
\* keeps the number it has read.
LEMMA QuietKeeps ==
    ASSUME Sound, Quiet
    PROVE  /\ revisions' = revisions
           /\ project'.revision = project.revision
           /\ \/ pc' = "idle" /\ UNCHANGED project
              \/ pc' = "head" /\ obj' = project /\ UNCHANGED project
              \/ UNCHANGED <<pc, obj>>
              \/ /\ pc \in {"head", "lock", "apply", "record"}
                 /\ pc' \in {"lock", "apply", "record", "status"}
                 /\ obj'.revision = obj.revision /\ UNCHANGED project
<1>t. project \in Projects /\ obj \in Projects
  BY DEF Sound, TypeOK
<1>1. CASE StartPass \/ EnsureTFConfigMap \/ PreparePinnedInfra
  BY <1>1 DEF StartPass, EnsureTFConfigMap, PreparePinnedInfra, Pinned, Render, EndPass,
              storeVars
<1>2. CASE PinAlreadyApplied \/ AlreadyApplied \/ StatusWriteLost \/ CallFailsOrRestart
  BY <1>2 DEF PinAlreadyApplied, AlreadyApplied, StatusWriteLost, CallFailsOrRestart,
              OnlyPassMoves, storeVars, EndPass
<1>3. CASE RejectPin \/ WaitForActiveJob \/ NoActiveJob \/ CreateApplyJob
           \/ ApplySucceeded \/ ApplyFailed \/ SkipRevision
  <2>1. CASE RejectPin \/ WaitForActiveJob \/ NoActiveJob
    BY <1>t, <2>1 DEF RejectPin, Pinned, WaitForActiveJob, NoActiveJob, GoOn,
       OnlyPassMoves, storeVars, Projects
  <2>2. CASE CreateApplyJob
    BY <1>t, <2>2 DEF CreateApplyJob, ApplyTurn, GoOn, Projects
  <2>3. CASE ApplySucceeded
    BY <1>t, <2>3 DEF ApplySucceeded, ApplyTurn, AfterResult, GoOn, OnlyPassMoves,
       storeVars, Projects
  <2>4. CASE ApplyFailed \/ SkipRevision
    BY <1>t, <2>4 DEF ApplyFailed, ApplyTurn, AfterResult, SkipRevision, GoOn,
       OnlyPassMoves, storeVars, Projects
  <2>5. QED
    BY <1>3, <2>1, <2>2, <2>3, <2>4
<1>4. CASE Users
  <2>1. \E p : UserWrites(p) /\ p.revision = project.revision
    <3>1. CASE EditSpec
      <4>1. PICK c \in Configs : UserWrites([project EXCEPT !.config = c])
        BY <3>1 DEF EditSpec
      <4>2. [project EXCEPT !.config = c].revision = project.revision
        BY <1>t DEF Projects
      <4>3. QED
        BY <4>1, <4>2
    <3>2. CASE Pin
      <4>1. PICK n \in Numbers : UserWrites([project EXCEPT !.pin = n])
        BY <3>2 DEF Pin
      <4>2. [project EXCEPT !.pin = n].revision = project.revision
        BY <1>t DEF Projects
      <4>3. QED
        BY <4>1, <4>2
    <3>3. CASE Unpin
      <4>1. [project EXCEPT !.pin = 0].revision = project.revision
        BY <1>t DEF Projects
      <4>2. QED
        BY <3>3, <4>1 DEF Unpin
    <3>4. QED
      BY <1>4, <3>1, <3>2, <3>3 DEF Users
  <2>2. QED
    BY <2>1 DEF UserWrites, storeVars
<1>5. CASE Informers \/ (\E h \in Hashes : EndJob(h)) \/ UNCHANGED vars
  BY <1>5 DEF Informers, SyncConfigMap, SyncRevision, EndJob, vars, passVars, storeVars
<1>6. QED
  BY <1>1, <1>2, <1>3, <1>4, <1>5 DEF Quiet

\* Recording a revision.
LEMMA CreateKeeps ==
    ASSUME Sound, NumberKept, CreateRevision
    PROVE  /\ project' = project
           /\ UNCHANGED <<configMap, seen, missed>>
           /\ pc = "record" /\ obj.revision = project.revision
           /\ obj'.revision = project.revision + 1
           /\ \/ /\ pc' = "trim" /\ UNCHANGED faults
                 /\ project.revision + 1 \notin DOMAIN revisions
                 /\ DOMAIN revisions' = DOMAIN revisions \cup {project.revision + 1}
                 /\ revisions'[project.revision + 1] = NewRevision
                 /\ \A m \in DOMAIN revisions : revisions'[m] = revisions[m]
              \/ pc' = "status" /\ revisions' = revisions /\ faults' \in {faults, faults + 1}
<1>t. obj \in Projects
  BY DEF Sound, TypeOK
<1>1. pc = "record" /\ obj.revision = project.revision
  BY DEF CreateRevision, NumberKept
<1>2. NextNumber = project.revision + 1
  BY <1>1 DEF NextNumber
<1>3. [obj EXCEPT !.revision = NextNumber].revision = project.revision + 1
  BY <1>t, <1>2 DEF Projects
<1>4. QED
  BY <1>1, <1>2, <1>3 DEF CreateRevision, LoggedError, GoOn, cacheVars

\* Trimming takes revisions away.
LEMMA TrimKeeps ==
    ASSUME TrimRevisions
    PROVE  /\ DOMAIN revisions' \subseteq DOMAIN revisions
           /\ \A m \in DOMAIN revisions' : revisions'[m] = revisions[m]
           /\ pc = "trim" /\ pc' = "status"
           /\ UNCHANGED <<project, obj, configMap, seen>>
BY DEF TrimRevisions, GoOn, Restrict, cacheVars

-----------------------------------------------------------------------------
(***************************************************************************)
(* The numbers.                                                            *)
(***************************************************************************)

LEMMA NumberStep ==
    ASSUME Sound, NumberInv, [Next]_vars
    PROVE  NumberInv'
<1>t. /\ project.revision \in Nat /\ DOMAIN revisions \subseteq Nat
      /\ project \in Projects /\ obj \in Projects
  BY NumberTypes
<1>1. CASE Quiet
  <2>1. NumberKept'
    BY <1>1, QuietKeeps DEF NumberInv, NumberKept
  <2>2. AtMostOneAhead'
    BY <1>1, QuietKeeps DEF NumberInv, AtMostOneAhead
  <2>3. QED
    BY <2>1, <2>2 DEF NumberInv
<1>2. CASE CreateRevision
  <2>1. NumberKept'
    BY <1>2, CreateKeeps DEF NumberInv, NumberKept
  <2>2. DOMAIN revisions' \subseteq DOMAIN revisions \cup {project.revision + 1}
    BY <1>2, CreateKeeps DEF NumberInv
  <2>3. AtMostOneAhead'
    BY <1>t, <1>2, <2>2, CreateKeeps DEF NumberInv, AtMostOneAhead
  <2>4. QED
    BY <2>1, <2>3 DEF NumberInv
<1>3. CASE TrimRevisions
  BY <1>3, TrimKeeps DEF NumberInv, NumberKept, AtMostOneAhead
<1>4. CASE WriteStatus
  <2>1. pc' = "idle" /\ revisions' = revisions
    BY <1>4 DEF WriteStatus, EndPass, storeVars
  <2>2. project'.revision \in {project.revision, project.revision + 1}
    <3>1. obj.revision \in {project.revision, project.revision + 1}
      BY <1>4 DEF WriteStatus, NumberInv, NumberKept
    <3>2. WithStatus(obj).revision = obj.revision
      BY <1>t DEF WithStatus, Projects
    <3>3. QED
      BY <1>4, <3>1, <3>2 DEF WriteStatus
  <2>3. AtMostOneAhead'
    BY <1>t, <2>1, <2>2 DEF NumberInv, AtMostOneAhead
  <2>4. QED
    BY <2>1, <2>3 DEF NumberInv, NumberKept
<1>5. QED
  BY <1>1, <1>2, <1>3, <1>4, StepKinds

LEMMA NumberInit == Init => NumberInv
BY DEF Init, NumberInv, NumberKept, AtMostOneAhead

\* However often a status write is lost, a pass is cut off or an apply is
\* recorded again, at most one revision ConfigMap of this project is ahead of the
\* number in its status: a pass counts from the number it read, and whatever that
\* number is taken by is left as it is (createRevisionFromCM).
THEOREM NumbersKeepUp == Spec => []AtMostOneAhead
<1>1. Init => Sound /\ NumberInv
  BY InitSound, NumberInit
<1>2. Sound /\ NumberInv /\ [Next]_vars => (Sound /\ NumberInv)'
  BY StepSound, NumberStep
<1>3. NumberInv => AtMostOneAhead
  BY DEF NumberInv
<1>4. QED
  BY <1>1, <1>2, <1>3, PTL DEF Spec

-----------------------------------------------------------------------------
(***************************************************************************)
(* The snapshots.                                                          *)
(***************************************************************************)

\* Only the beginning of a pass writes <project>-tf.  A pass that is not late has
\* written it, or was shown what is stored.
LEMMA RenderStep ==
    ASSUME Sound, SnapshotInv, [Next]_vars
    PROVE  RenderKept'
<1>1. CASE EnsureTFConfigMap
  <2>1. \/ /\ target' = <<0, obj.config>>
           /\ late' = (shown # configMap)
           /\ configMap' = IF obj.config = shown THEN configMap ELSE obj.config
        \/ pc' = "idle"
    BY <1>1 DEF EnsureTFConfigMap, Render, EndPass, Rendered
  <2>2. CASE pc' = "idle"
    BY <2>2 DEF RenderKept
  <2>3. CASE /\ target' = <<0, obj.config>>
             /\ late' = (shown # configMap)
             /\ configMap' = IF obj.config = shown THEN configMap ELSE obj.config
    <3>1. ~late' => configMap' = obj.config
      BY <2>3
    <3>2. target'[2] = obj.config
      BY <2>3
    <3>3. QED
      BY <3>1, <3>2 DEF RenderKept
  <2>4. QED
    BY <2>1, <2>2, <2>3
<1>2. CASE PreparePinnedInfra
  <2>1. obj.pin # 0 /\ PinnedHash(obj.pin)[1] = obj.pin
    BY <1>2 DEF PreparePinnedInfra, Pinned, PinnedHash
  <2>2. QED
    BY <1>2, <2>1 DEF PreparePinnedInfra, Render, EndPass, RenderKept
<1>3. CASE StartPass \/ RejectPin \/ PinAlreadyApplied \/ AlreadyApplied
           \/ CallFailsOrRestart \/ StatusWriteLost \/ WriteStatus
  BY <1>3 DEF StartPass, RejectPin, PinAlreadyApplied, AlreadyApplied,
     CallFailsOrRestart, StatusWriteLost, WriteStatus, GoOn, EndPass, RenderKept
<1>4. CASE \/ WaitForActiveJob \/ NoActiveJob \/ CreateApplyJob \/ ApplySucceeded
           \/ ApplyFailed
  <2>1. pc \in {"lock", "apply"} /\ UNCHANGED <<configMap, target, late>>
    BY <1>4 DEF WaitForActiveJob, NoActiveJob, CreateApplyJob, ApplySucceeded,
       ApplyFailed, ApplyTurn, GoOn, OnlyPassMoves, storeVars
  <2>2. QED
    BY <2>1 DEF SnapshotInv, RenderKept
<1>5. CASE SkipRevision \/ CreateRevision \/ TrimRevisions
  BY <1>5 DEF SkipRevision, CreateRevision, TrimRevisions, GoOn, RenderKept
<1>6. CASE Informers \/ (\E h \in Hashes : EndJob(h)) \/ Users \/ UNCHANGED vars
  <2>1. UNCHANGED <<pc, configMap, target, late>>
    BY <1>6 DEF Informers, SyncConfigMap, SyncRevision, EndJob, Users, EditSpec, Pin,
       Unpin, UserWrites, vars, passVars, storeVars
  <2>2. QED
    BY <2>1 DEF SnapshotInv, RenderKept
<1>7. QED
  BY <1>1, <1>2, <1>3, <1>4, <1>5, <1>6 DEF Next, Pass

LEMMA SnapshotStep ==
    ASSUME Sound, NumberKept, SnapshotInv, [Next]_vars
    PROVE  SnapshotInv'
<1>1. RenderKept'
  BY RenderStep
<1>2. SnapshotMatchesHash'
  <2>1. CASE Quiet \/ WriteStatus
    <3>1. revisions' = revisions
      BY <2>1, QuietKeeps DEF WriteStatus, storeVars
    <3>2. QED
      BY <3>1 DEF SnapshotInv, SnapshotMatchesHash
  <2>2. CASE TrimRevisions
    BY <2>2, TrimKeeps DEF SnapshotInv, SnapshotMatchesHash
  <2>3. CASE CreateRevision
    <3>1. pc = "record" /\ target[1] = 0
      BY <2>3 DEF CreateRevision, Sound, PassOK
    <3>2. ~NewRevision.late => shown = target[2]
      BY <3>1 DEF NewRevision, SnapshotInv, RenderKept
    <3>3. ~NewRevision.late => NewRevision.snapshot \in {None, NewRevision.hash}
      BY <3>2 DEF NewRevision
    <3>4. QED
      BY <2>3, <3>3, CreateKeeps DEF SnapshotInv, SnapshotMatchesHash
  <2>4. QED
    BY <2>1, <2>2, <2>3, StepKinds
<1>3. QED
  BY <1>1, <1>2 DEF SnapshotInv

LEMMA SnapshotInit == Init => SnapshotInv
<1> SUFFICES ASSUME Init PROVE SnapshotInv
  OBVIOUS
<1>1. RenderKept
  BY DEF Init, RenderKept
<1>2. \A n \in DOMAIN revisions : revisions[n].snapshot = revisions[n].hash
  BY DEF Init
<1>3. QED
  BY <1>1, <1>2 DEF SnapshotInv, SnapshotMatchesHash

\* A revision that was recorded while the informer showed <project>-tf as it was
\* holds the configuration of its stored hash, whatever pins and edits have written
\* there in between: the content is that of the pass, which nobody overwrites
\* (createRevision, ensureTFConfigMap).
THEOREM SnapshotsAreTrue == Spec => []SnapshotMatchesHash
<1>1. Init => Sound /\ NumberInv /\ SnapshotInv
  BY InitSound, NumberInit, SnapshotInit
<1>2. Sound /\ NumberInv /\ SnapshotInv /\ [Next]_vars
         => (Sound /\ NumberInv /\ SnapshotInv)'
  BY StepSound, NumberStep, SnapshotStep DEF NumberInv
<1>3. SnapshotInv => SnapshotMatchesHash
  BY DEF SnapshotInv
<1>4. QED
  BY <1>1, <1>2, <1>3, PTL DEF Spec

-----------------------------------------------------------------------------
(***************************************************************************)
(* The history.                                                            *)
(***************************************************************************)

\* A set of numbers that is not empty has a smallest one.
LEMMA LeastNumber ==
    ASSUME NEW S \in SUBSET Nat, S # {}
    PROVE  \E k \in S : \A m \in S : k <= m
<1>1. \E k \in S : \A m \in S : ~ (<<m, k>> \in OpToRel(<, Nat))
  BY NatLessThanWellFounded, WFMin
<1>2. \A a, b \in Nat : a < b => <<a, b>> \in OpToRel(<, Nat)
  BY DEF OpToRel
<1>3. PICK k \in S : \A m \in S : ~ (m < k)
  BY <1>1, <1>2
<1>4. k \in Nat /\ S \subseteq Nat
  OBVIOUS
<1>5. \A m \in S : k <= m
  BY <1>3, <1>4
<1>6. QED
  BY <1>5

\* Of finitely many numbers, those with no more than limit at or above them are
\* no more than limit.
LEMMA FewRemain ==
    ASSUME NEW S \in SUBSET Nat, IsFiniteSet(S), NEW limit \in Nat
    PROVE  LET rest == {n \in S : Cardinality({m \in S : m >= n}) <= limit}
           IN  Cardinality(rest) <= limit
<1> DEFINE above(n) == {m \in S : m >= n}
           rest == {n \in S : Cardinality(above(n)) <= limit}
<1> SUFFICES Cardinality(rest) <= limit
  OBVIOUS
<1>1. CASE rest = {}
  <2>1. Cardinality(rest) = 0
    BY <1>1, FS_EmptySet
  <2>2. QED
    BY <2>1
<1>2. CASE rest # {}
  <2>1. PICK k \in rest : \A m \in rest : k <= m
    BY <1>2, LeastNumber
  <2>2. rest \subseteq above(k)
    BY <2>1
  <2>3. IsFiniteSet(above(k))
    BY FS_Subset
  <2>4. Cardinality(rest) <= Cardinality(above(k))
    BY <2>2, <2>3, FS_Subset
  <2>5. Cardinality(above(k)) <= limit
    BY <2>1
  <2>6. Cardinality(rest) \in Nat /\ Cardinality(above(k)) \in Nat
    BY <2>2, <2>3, FS_Subset, FS_CardinalityType
  <2>7. QED
    BY <2>4, <2>5, <2>6
<1>3. QED
  BY <1>1, <1>2

\* A complete trim leaves no more than the limit of what it was shown: no revision
\* is pinned in the copy of a pass that records one, so none is spared.
LEMMA TrimIsEnough ==
    ASSUME Sound, Limit # 0, TrimRevisions
    PROVE  \/ /\ UNCHANGED faults
              /\ Cardinality(DOMAIN revisions') <= Limit + missed'
           \/ /\ faults' = faults + 1 /\ UNCHANGED missed
              /\ Cardinality(DOMAIN revisions') <= Cardinality(DOMAIN revisions)
<1> DEFINE above(n) == {m \in DOMAIN seen : m >= n}
           listed == {n \in DOMAIN seen : Cardinality(above(n)) <= Limit}
           unlisted == DOMAIN revisions \ DOMAIN seen
<1>1. /\ IsFiniteSet(DOMAIN revisions)
      /\ DOMAIN seen \subseteq Nat /\ IsFiniteSet(DOMAIN seen)
  BY NumberTypes
<1>2. obj.pin = 0 /\ 0 \notin DOMAIN seen
  BY RevisionAssumption DEF TrimRevisions, Sound, PassOK, TypeOK, Numbers
<1>3. Surplus \ {obj.pin} = Surplus
  BY <1>2 DEF Surplus
<1>4. CASE faults' = faults + 1 /\ UNCHANGED missed
  BY <1>1, <1>4, TrimKeeps, FS_Subset
<1>5. CASE /\ DOMAIN revisions' = DOMAIN revisions \ Surplus
           /\ missed' = Cardinality(unlisted) /\ UNCHANGED faults
  <2>1. \A n \in DOMAIN seen : Cardinality(above(n)) \in Nat
    BY <1>1, FS_Subset, FS_CardinalityType
  <2>2. DOMAIN revisions' \subseteq listed \cup unlisted
    BY <1>5, <2>1, RevisionAssumption DEF Surplus
  <2>3. Cardinality(listed) <= Limit
    BY <1>1, FewRemain, RevisionAssumption
  <2>4. IsFiniteSet(listed) /\ IsFiniteSet(unlisted)
    BY <1>1, FS_Subset
  <2>5. /\ IsFiniteSet(listed \cup unlisted) /\ IsFiniteSet(listed \cap unlisted)
        /\ Cardinality(listed \cup unlisted)
             = Cardinality(listed) + Cardinality(unlisted)
                 - Cardinality(listed \cap unlisted)
    BY <2>4, FS_Union, FS_Intersection
  <2>6. Cardinality(DOMAIN revisions') <= Cardinality(listed \cup unlisted)
    BY <2>2, <2>5, FS_Subset
  <2>7. /\ Cardinality(listed) \in Nat /\ Cardinality(unlisted) \in Nat
        /\ Cardinality(listed \cap unlisted) \in Nat
        /\ Cardinality(listed \cup unlisted) \in Nat
        /\ Cardinality(DOMAIN revisions') \in Nat
    BY <2>2, <2>4, <2>5, FS_Subset, FS_CardinalityType
  <2> HIDE DEF listed, unlisted
  <2>8. Cardinality(DOMAIN revisions') <= Limit + Cardinality(unlisted)
    BY <2>3, <2>5, <2>6, <2>7, RevisionAssumption
  <2>9. QED
    BY <1>5, <2>8
<1>6. \/ faults' = faults + 1 /\ UNCHANGED missed
      \/ /\ DOMAIN revisions' = DOMAIN revisions \ Surplus
         /\ missed' = Cardinality(unlisted) /\ UNCHANGED faults
  BY <1>3 DEF TrimRevisions, LoggedError, Restrict
<1>7. QED
  BY <1>4, <1>5, <1>6

LEMMA HistoryStep ==
    ASSUME Sound, NumberKept, HistoryInv, [Next]_vars
    PROVE  HistoryInv'
<1> SUFFICES ASSUME Limit # 0, Cardinality(FormerLife) <= Limit
             PROVE  Cardinality(DOMAIN revisions')
                       <= Limit + missed' + faults' + (IF pc' = "trim" THEN 1 ELSE 0)
  BY DEF HistoryInv
<1>t. /\ Limit \in Nat /\ faults \in Nat /\ faults' \in Nat
      /\ missed \in Nat /\ missed' \in Nat
      /\ Cardinality(DOMAIN revisions) \in Nat
      /\ Cardinality(DOMAIN revisions') \in Nat
  <2>1. Sound'
    BY StepSound
  <2>2. IsFiniteSet(DOMAIN revisions')
    <3>1. DOMAIN revisions' \subseteq Numbers
      BY <2>1 DEF Sound, TypeOK
    <3>2. IsFiniteSet(Numbers)
      BY RevisionAssumption, FS_Interval DEF Numbers
    <3>3. QED
      BY <3>1, <3>2, FS_Subset
  <2>3. faults \in Nat /\ faults' \in Nat /\ missed \in Nat /\ missed' \in Nat
    BY <2>1, RevisionAssumption DEF Sound, TypeOK
  <2>4. QED
    BY <2>2, <2>3, NumberTypes, FS_CardinalityType, RevisionAssumption
<1>h. Cardinality(DOMAIN revisions)
         <= Limit + missed + faults + (IF pc = "trim" THEN 1 ELSE 0)
  BY DEF HistoryInv
<1>1. CASE Quiet
  <2>1. revisions' = revisions
    BY <1>1, QuietKeeps
  <2>2. /\ UNCHANGED missed
        /\ \/ faults' = faults /\ (pc = "trim" => pc' = "trim")
           \/ faults' = faults + 1
    <3>1. CASE StartPass \/ EnsureTFConfigMap \/ RejectPin \/ PinAlreadyApplied
               \/ PreparePinnedInfra
      BY <3>1 DEF StartPass, EnsureTFConfigMap, RejectPin, PinAlreadyApplied, Pinned,
         PreparePinnedInfra, OnlyPassMoves, storeVars, boundVars
    <3>2. CASE WaitForActiveJob \/ NoActiveJob \/ AlreadyApplied \/ CreateApplyJob
               \/ ApplySucceeded \/ ApplyFailed
      BY <3>2 DEF WaitForActiveJob, NoActiveJob, AlreadyApplied, ApplyTurn,
         CreateApplyJob, ApplySucceeded, ApplyFailed, OnlyPassMoves, storeVars,
         boundVars
    <3>3. CASE SkipRevision \/ CallFailsOrRestart \/ StatusWriteLost
      BY <3>3 DEF SkipRevision, CallFailsOrRestart, StatusWriteLost, LoggedError,
         storeVars
    <3>4. CASE Informers \/ Users \/ (\E h \in Hashes : EndJob(h)) \/ UNCHANGED vars
      BY <3>4 DEF Informers, SyncConfigMap, SyncRevision, EndJob, Users, EditSpec, Pin,
         Unpin, UserWrites, storeVars, boundVars, passVars, vars
    <3>5. QED
      BY <1>1, <3>1, <3>2, <3>3, <3>4 DEF Quiet
  <2>3. QED
    BY <1>t, <1>h, <2>1, <2>2
<1>2. CASE CreateRevision
  <2>1. CASE pc' = "trim" /\ DOMAIN revisions' = DOMAIN revisions \cup {project.revision + 1}
             /\ UNCHANGED faults
    <3>m. UNCHANGED missed
      BY <1>2, CreateKeeps
    <3>1. Cardinality(DOMAIN revisions') <= Cardinality(DOMAIN revisions) + 1
      <4>1. IsFiniteSet(DOMAIN revisions)
        BY NumberTypes
      <4>2. Cardinality(DOMAIN revisions \cup {project.revision + 1})
               \in {Cardinality(DOMAIN revisions), Cardinality(DOMAIN revisions) + 1}
        BY <4>1, FS_AddElement
      <4>3. QED
        BY <1>t, <2>1, <4>2
    <3>2. pc = "record"
      BY <1>2 DEF CreateRevision
    <3>3. QED
      BY <1>t, <1>h, <2>1, <3>m, <3>1, <3>2
  <2>2. CASE pc' = "status" /\ revisions' = revisions /\ faults' \in {faults, faults + 1}
    <3>1. pc = "record" /\ UNCHANGED missed
      BY <1>2, CreateKeeps
    <3>2. QED
      BY <1>t, <1>h, <2>2, <3>1
  <2>3. QED
    BY <1>2, <2>1, <2>2, CreateKeeps
<1>3. CASE TrimRevisions
  <2>1. pc = "trim" /\ pc' = "status"
    BY <1>3, TrimKeeps
  <2>2. CASE Cardinality(DOMAIN revisions') <= Limit + missed'
    BY <1>t, <2>1, <2>2
  <2>3. CASE /\ faults' = faults + 1 /\ UNCHANGED missed
             /\ Cardinality(DOMAIN revisions') <= Cardinality(DOMAIN revisions)
    BY <1>t, <1>h, <2>1, <2>3
  <2>4. QED
    BY <1>3, <2>2, <2>3, TrimIsEnough
<1>4. CASE WriteStatus
  <2>1. /\ pc = "status" /\ pc' = "idle"
        /\ UNCHANGED <<revisions, faults, missed>>
    BY <1>4 DEF WriteStatus, EndPass, storeVars, boundVars
  <2>2. QED
    BY <1>t, <1>h, <2>1
<1>5. QED
  BY <1>1, <1>2, <1>3, <1>4, StepKinds

LEMMA HistoryInit == Init => HistoryInv
<1> SUFFICES ASSUME Init, Limit # 0, Cardinality(FormerLife) <= Limit
             PROVE  Cardinality(DOMAIN revisions) <= Limit + missed + faults + 0
  BY DEF Init, HistoryInv
<1>1. DOMAIN revisions = FormerLife /\ faults = 0 /\ missed = 0
  BY DEF Init
<1>2. QED
  BY <1>1, RevisionAssumption

\* Between passes no more revisions are kept than the limit says, but for those
\* that the last complete trim was not shown and those whose trim failed or was cut
\* off; the next trim that is shown them makes up for all (cleanupOldRevisions).
THEOREM HistoryIsBounded == Spec => []HistoryBounded
<1> DEFINE Inv == Sound /\ NumberInv /\ HistoryInv
<1>1. Init => Inv
  BY InitSound, NumberInit, HistoryInit
<1>2. Inv /\ [Next]_vars => Inv'
  BY StepSound, NumberStep, HistoryStep DEF NumberInv
<1>3. Inv => HistoryBounded
  <2>1. ASSUME Inv, pc = "idle", Limit # 0, Cardinality(FormerLife) <= Limit
        PROVE  Cardinality(DOMAIN revisions) <= Limit + missed + faults
    <3>1. Cardinality(DOMAIN revisions) <= Limit + missed + faults + 0
      BY <2>1 DEF HistoryInv
    <3>2. Limit \in Nat /\ faults \in Nat /\ missed \in Nat
      BY <2>1, RevisionAssumption DEF Sound, TypeOK
    <3>3. QED
      BY <3>1, <3>2
  <2>2. QED
    BY <2>1 DEF HistoryBounded
<1>4. QED
  BY <1>1, <1>2, <1>3, PTL DEF Spec

-----------------------------------------------------------------------------
(***************************************************************************)
(* The trail.                                                              *)
(***************************************************************************)

\* A bounded set of numbers that is not empty has a greatest one.
LEMMA GreatestNumber ==
    ASSUME NEW b \in Nat, NEW S \in SUBSET (0 .. b), S # {}
    PROVE  \E k \in S : \A m \in S : m <= k
<1> DEFINE T == {b - n : n \in S}
<1>1. T \in SUBSET Nat /\ T # {}
  OBVIOUS
<1>2. PICK d \in T : \A e \in T : d <= e
  BY <1>1, LeastNumber
<1>3. PICK k \in S : d = b - k
  BY <1>2
<1>4. \A m \in S : b - k <= b - m
  BY <1>2, <1>3
<1>5. \A m \in S : m <= k
  BY <1>3, <1>4
<1>6. QED
  BY <1>5

\* Whatever of the list a trim has deleted, or others before it, leaves at least
\* Limit newer revisions.  What the trim spares of the list is newer than all that
\* it deletes; if one of the spared is gone already, it has left enough behind when
\* it went.
LEMMA TrimLeavesEnough ==
    ASSUME Sound, TrailInv, TrimRevisions,
           NEW n \in DOMAIN seen, n \notin DOMAIN revisions'
    PROVE  Cardinality({m \in DOMAIN revisions' : m > n}) >= Limit
<1> DEFINE newer(x) == {m \in DOMAIN revisions : m > x}
           rest(x) == {m \in DOMAIN revisions' : m > x}
           spared(x) == {m \in DOMAIN seen : m > x}
<1>t. /\ DOMAIN revisions \subseteq Nat /\ IsFiniteSet(DOMAIN revisions)
      /\ DOMAIN seen \subseteq Nat /\ IsFiniteSet(DOMAIN seen)
      /\ Limit \in Nat
  BY NumberTypes, RevisionAssumption
<1>r. DOMAIN revisions' \subseteq DOMAIN revisions
  BY TrimKeeps
<1>1. PICK doomed \in SUBSET Surplus, last \in 0 .. MaxRevision :
         DOMAIN revisions' = DOMAIN revisions \ {m \in doomed : m <= last}
  <2>1. PICK doomed \in SUBSET Surplus, last \in 0 .. MaxRevision :
           revisions' = Restrict(revisions, DOMAIN revisions \ {m \in doomed : m <= last})
    BY DEF TrimRevisions
  <2>2. QED
    BY <2>1 DEF Restrict
<1> DEFINE deleted == {m \in doomed : m <= last}
<1>d. deleted \subseteq DOMAIN seen
  BY <1>1 DEF Surplus
<1>c. \A x \in Nat : /\ IsFiniteSet(newer(x)) /\ IsFiniteSet(rest(x))
                     /\ Cardinality(newer(x)) \in Nat /\ Cardinality(rest(x)) \in Nat
                     /\ IsFiniteSet(spared(x)) /\ Cardinality(spared(x)) \in Nat
  BY <1>t, <1>r, FS_Subset, FS_CardinalityType
<1>g. ASSUME NEW x \in Nat, NEW S, S \subseteq rest(x), Cardinality(S) >= Limit
      PROVE  Cardinality(rest(x)) >= Limit
  <2>1. IsFiniteSet(rest(x)) /\ Cardinality(rest(x)) \in Nat
    BY <1>c
  <2>2. Cardinality(S) <= Cardinality(rest(x)) /\ Cardinality(S) \in Nat
    BY <1>g, <2>1, FS_Subset, FS_CardinalityType
  <2> HIDE DEF rest
  <2>3. QED
    BY <1>t, <1>g, <2>1, <2>2
<1>2. n \in Nat
  BY <1>t
<1>3. CASE deleted = {}
  <2>1. DOMAIN revisions' = DOMAIN revisions
    BY <1>1, <1>3
  <2>2. QED
    BY <2>1 DEF TrailInv
<1>4. CASE deleted # {}
  <2>1. PICK top \in deleted : \A m \in deleted : m <= top
    <3>1. deleted \in SUBSET (0 .. MaxRevision)
      <4>1. DOMAIN seen \subseteq 1 .. MaxRevision
        BY DEF Sound, TypeOK, Numbers
      <4>2. QED
        BY <1>d, <4>1
    <3>2. MaxRevision \in Nat
      BY RevisionAssumption
    <3>3. QED
      BY <1>4, <3>1, <3>2, GreatestNumber
  <2>2. top \in Nat /\ top \in Surplus
    BY <1>t, <1>d, <1>1
  <2>3. \A x \in Nat : x >= top => rest(x) = newer(x)
    BY <1>1, <1>t, <1>d, <2>1, <2>2
  <2>4. CASE n > top
    <3>1. n \notin DOMAIN revisions
      BY <1>1, <1>t, <1>d, <2>1, <2>4
    <3>2. Cardinality(newer(n)) >= Limit
      BY <3>1 DEF TrailInv
    <3>3. QED
      BY <1>2, <2>2, <2>3, <2>4, <3>2
  <2>5. CASE n <= top
    <3>1. \A x \in Nat : x >= top => rest(x) \subseteq rest(n)
      BY <1>2, <1>t, <1>r, <2>2, <2>5
    <3>2. CASE spared(top) \subseteq DOMAIN revisions
      <4>1. Cardinality(spared(top)) >= Limit
        <5>1. {m \in DOMAIN seen : m >= top} = spared(top) \cup {top}
          BY <1>t, <1>d, <2>2
        <5>2. Cardinality(spared(top) \cup {top})
                 \in {Cardinality(spared(top)), Cardinality(spared(top)) + 1}
          BY <1>c, <2>2, FS_AddElement
        <5>3. Cardinality(spared(top) \cup {top}) > Limit
          BY <2>2, <5>1 DEF Surplus
        <5>4. Cardinality(spared(top)) \in Nat
          BY <1>c, <2>2
        <5> HIDE DEF spared
        <5>5. QED
          BY <1>t, <5>2, <5>3, <5>4
      <4>2. spared(top) \subseteq rest(n)
        BY <1>t, <1>2, <2>2, <2>3, <3>1, <3>2
      <4>3. QED
        BY <1>2, <1>c, <1>g, <2>2, <4>1, <4>2
    <3>3. CASE ~(spared(top) \subseteq DOMAIN revisions)
      <4>1. PICK a \in DOMAIN seen : a > top /\ a \notin DOMAIN revisions
        BY <3>3
      <4>2. a \in Nat /\ a >= top
        BY <1>t, <2>2, <4>1
      <4>3. Cardinality(newer(a)) >= Limit
        BY <4>1 DEF TrailInv
      <4>4. newer(a) \subseteq rest(n)
        BY <2>3, <3>1, <4>2
      <4>5. QED
        BY <1>2, <1>c, <1>g, <4>2, <4>3, <4>4
    <3>4. QED
      BY <3>2, <3>3
  <2>6. QED
    BY <1>2, <2>2, <2>4, <2>5
<1>5. QED
  BY <1>3, <1>4

LEMMA TrailStep ==
    ASSUME Sound, NumberKept, TrailInv, [Next]_vars
    PROVE  TrailInv'
<1> SUFFICES ASSUME NEW n \in DOMAIN seen', n \notin DOMAIN revisions'
             PROVE  Cardinality({m \in DOMAIN revisions' : m > n}) >= Limit
  BY DEF TrailInv
<1>1. CASE Quiet \/ WriteStatus
  <2>1. revisions' = revisions
    BY <1>1, QuietKeeps DEF WriteStatus, storeVars
  <2>2. n \in DOMAIN seen
    <3>1. CASE \E x \in Numbers : SyncRevision(x)
      BY <2>1, <3>1 DEF SyncRevision
    <3>2. CASE seen' = seen
      BY <3>2
    <3>3. seen' = seen \/ \E x \in Numbers : SyncRevision(x)
      <4>1. CASE StartPass \/ EnsureTFConfigMap \/ RejectPin \/ PinAlreadyApplied
                 \/ PreparePinnedInfra
        BY <4>1 DEF StartPass, EnsureTFConfigMap, RejectPin, PinAlreadyApplied,
           PreparePinnedInfra, OnlyPassMoves, cacheVars
      <4>2. CASE WaitForActiveJob \/ NoActiveJob \/ AlreadyApplied \/ CreateApplyJob
                 \/ ApplySucceeded \/ ApplyFailed
        BY <4>2 DEF WaitForActiveJob, NoActiveJob, AlreadyApplied, CreateApplyJob,
           ApplySucceeded, ApplyFailed, OnlyPassMoves, cacheVars
      <4>3. CASE \/ SkipRevision \/ CallFailsOrRestart \/ StatusWriteLost
                 \/ WriteStatus
        BY <4>3 DEF SkipRevision, CallFailsOrRestart, StatusWriteLost, WriteStatus,
           cacheVars
      <4>4. CASE Informers \/ Users \/ (\E h \in Hashes : EndJob(h)) \/ UNCHANGED vars
        BY <4>4 DEF Informers, SyncConfigMap, EndJob, Users, EditSpec, Pin, Unpin,
           UserWrites, cacheVars, vars
      <4>5. QED
        BY <1>1, <4>1, <4>2, <4>3, <4>4 DEF Quiet
    <3>4. QED
      BY <3>1, <3>2, <3>3
  <2>3. QED
    BY <2>1, <2>2 DEF TrailInv
<1>2. CASE CreateRevision
  <2>1. n \in DOMAIN seen /\ DOMAIN revisions \subseteq DOMAIN revisions'
    BY <1>2, CreateKeeps
  <2>2. Cardinality({m \in DOMAIN revisions : m > n}) >= Limit
    BY <2>1 DEF TrailInv
  <2>3. Sound'
    BY StepSound
  <2>4. /\ IsFiniteSet({m \in DOMAIN revisions : m > n})
        /\ IsFiniteSet({m \in DOMAIN revisions' : m > n})
    <3>1. DOMAIN revisions' \subseteq Numbers /\ IsFiniteSet(Numbers)
      BY <2>3, RevisionAssumption, FS_Interval DEF Sound, TypeOK, Numbers
    <3>2. QED
      BY <2>1, <3>1, FS_Subset
  <2>5. {m \in DOMAIN revisions : m > n} \subseteq {m \in DOMAIN revisions' : m > n}
    BY <2>1
  <2>6. QED
    BY <2>2, <2>4, <2>5, FS_Subset, FS_CardinalityType, RevisionAssumption
<1>3. CASE TrimRevisions
  BY <1>3, TrimKeeps, TrimLeavesEnough
<1>4. QED
  BY <1>1, <1>2, <1>3, StepKinds

LEMMA TrailInit == Init => TrailInv
BY DEF Init, TrailInv

\* Only the trim deletes revisions.
LEMMA TrailKept ==
    ASSUME Sound, NumberKept, TrailInv, [Next]_vars,
           NEW n \in DOMAIN revisions, n \notin DOMAIN revisions'
    PROVE  Cardinality({m \in DOMAIN revisions' : m > n}) >= Limit
<1>1. CASE Quiet \/ WriteStatus \/ CreateRevision
  BY <1>1, QuietKeeps, CreateKeeps DEF WriteStatus, storeVars
<1>2. CASE TrimRevisions
  <2>1. n \in DOMAIN seen
    BY <1>2 DEF TrimRevisions, Surplus, Restrict
  <2>2. QED
    BY <1>2, <2>1, TrimLeavesEnough
<1>3. QED
  BY <1>1, <1>2, StepKinds

\* Whatever the limit, and however old the list that it is taken from, a deletion
\* leaves at least Limit newer revisions behind (cleanupOldRevisions).
THEOREM TrailIsKept == Spec => AuditTrailKept
<1> DEFINE Inv == Sound /\ NumberInv /\ TrailInv
<1>1. Init => Inv
  BY InitSound, NumberInit, TrailInit
<1>2. Inv /\ [Next]_vars => Inv'
  BY StepSound, NumberStep, TrailStep DEF NumberInv
<1>3. Inv /\ [Next]_vars =>
         [\A n \in DOMAIN revisions \ DOMAIN revisions' :
             Cardinality({m \in DOMAIN revisions' : m > n}) >= Limit]_vars
  BY TrailKept DEF NumberInv
<1>4. QED
  BY <1>1, <1>2, <1>3, PTL DEF Spec, AuditTrailKept
=============================================================================
