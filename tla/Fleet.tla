------------------------------- MODULE Fleet -------------------------------
(***************************************************************************)
(* The projects of one namespace and what one does to another: a project   *)
(* builds on the outputs of others and on ConfigMaps and Secrets           *)
(* (resolveDependencies, resolveExternalParams, and the watches on all of  *)
(* them), all with spec.cache.mode shared run their Jobs one at a time     *)
(* (checkJobLock, hasActiveNamespaceJobs), and those with                  *)
(* spec.driftDetection run drift checks beside it all.  Every project has  *)
(* spec.autoApprove.                                                       *)
(*                                                                         *)
(* A hash is a spec value with the parameters and outputs built on.  An    *)
(* apply Job applies the hash it is named for, and its log shows the spec  *)
(* value as output.  (What its pod really mounts is in PlanApply.)         *)
(*                                                                         *)
(* The operator has one worker, so passes of different projects do not     *)
(* overlap; a pass is one action per stretch that ends in an API write and *)
(* works on the copy obj that it read.                                     *)
(*                                                                         *)
(* Not here: retries, caches that trail the API server, the wakeup by the  *)
(* project's own ConfigMap (PlanApply); deletion and suspension (Lifecycle).*)
(***************************************************************************)
EXTENDS Naturals, FiniteSets

CONSTANTS
    Projects,
    Values,      \* what a spec can say
    None,        \* no value
    Sources,     \* ConfigMaps and Secrets that hold parameters
    References,  \* the sources each project's spec refers to
    Upstreams,   \* the projects each project depends on
    Settings,    \* who shares the cache, detects drift, has keepInSync
    MaxEdits,    \* bound: edits of specs and sources
    MaxDrifts,   \* bound: changes of the infrastructure by others
    MaxFaults    \* bound: API errors, unread logs, failed checks, restarts

ASSUME FleetAssumption ==
    /\ Values # {} /\ None \notin Values \cup Projects
    /\ Upstreams \in [Projects -> SUBSET Projects]
    /\ References \in [Projects -> SUBSET Sources]
    /\ Settings \subseteq [shared : SUBSET Projects, drifting : SUBSET Projects,
                           inSync : SUBSET Projects]
    /\ MaxEdits \in Nat /\ MaxDrifts \in Nat /\ MaxFaults \in Nat

VARIABLES
    settings,    \* as the projects' specs have them; they do not change
    spec,        \* the value in each project's spec
    sources,     \* the value in each source, None if there is no such object
    status,      \* the stored status of each project
    applyJobs,   \* the state of each project's apply Job of each hash
    driftJobs,   \* the state of each project's drift Job
    drifted,     \* the projects whose infrastructure others have changed
    queue,       \* the work queue: keys to be served, now or in some seconds
    timers,      \* keys that come back when the drift interval has passed
    pc, cur, obj, target, fresh, \* the pass: project, copy, hash, no conflict yet
    lost,        \* history: the projects whose last pass lost its status write
    edits, drifts, faults

inputVars == <<spec, sources>>
passVars == <<pc, cur, obj, target, fresh, lost>>
jobVars == <<applyJobs, driftJobs>>
boundVars == <<edits, drifts, faults>>
vars == <<settings, inputVars, status, jobVars, drifted, queue, timers, passVars,
          boundVars>>

-----------------------------------------------------------------------------
ValuesOrNone == Values \cup {None}

Hashes(p) == [value : Values, params : [References[p] -> Values],
              outputs : [Upstreams[p] -> Values]]

JobStates == {"absent", "active", "succeeded", "failed"}
DriftStates == {"absent", "active", "clean", "dirty", "failed"}
Phases == {"", "WaitingDependency", "Queued", "Running", "Succeeded", "Error",
           "DriftChecking"}

\* checked: lastDriftCheckTime is less than an interval ago.
Statuses(p) == [phase : Phases, applied : Hashes(p) \cup {None},
                output : ValuesOrNone, checked : BOOLEAN, drift : BOOLEAN]
NewStatus == [phase |-> "", applied |-> None, output |-> None,
              checked |-> FALSE, drift |-> FALSE]

TypeOK ==
    /\ settings \in Settings
    /\ spec \in [Projects -> Values] /\ sources \in [Sources -> ValuesOrNone]
    /\ DOMAIN status = Projects /\ DOMAIN applyJobs = Projects
    /\ \A p \in Projects : /\ status[p] \in Statuses(p)
                           /\ applyJobs[p] \in [Hashes(p) -> JobStates]
    /\ driftJobs \in [Projects -> DriftStates]
    /\ drifted \subseteq Projects /\ queue \subseteq Projects
    /\ timers \subseteq Projects /\ lost \subseteq Projects
    /\ pc \in {"idle", "lock", "flow", "delete", "status"}
    /\ \/ cur \in Projects /\ obj \in Statuses(cur)
                            /\ target \in Hashes(cur) \cup {None}
       \/ cur = None /\ obj = NewStatus /\ target = None
    /\ fresh \in BOOLEAN
    /\ edits \in 0 .. MaxEdits /\ drifts \in 0 .. MaxDrifts
    /\ faults \in 0 .. MaxFaults

\* Which value a spec or a source has first makes no difference; a source may
\* be missing.
FirstValue == CHOOSE v \in Values : TRUE

Init ==
    /\ settings \in Settings
    /\ spec = [p \in Projects |-> FirstValue]
    /\ sources \in [Sources -> {FirstValue, None}]
    /\ status = [p \in Projects |-> NewStatus]
    /\ applyJobs = [p \in Projects |-> [h \in Hashes(p) |-> "absent"]]
    /\ driftJobs = [p \in Projects |-> "absent"]
    /\ drifted = {}
    /\ queue = Projects /\ timers = {} /\ lost = {}
    /\ pc = "idle" /\ cur = None /\ obj = NewStatus /\ target = None
    /\ fresh = TRUE
    /\ edits = 0 /\ drifts = 0 /\ faults = 0

-----------------------------------------------------------------------------
BecomeIdle ==
    /\ pc' = "idle" /\ cur' = None /\ obj' = NewStatus /\ target' = None
    /\ fresh' = TRUE

EndPass == BecomeIdle /\ UNCHANGED lost

GoOn(step, o) == pc' = step /\ obj' = o /\ UNCHANGED <<cur, target, fresh, lost>>

\* The frame of a step that changes the pass, the queue and the timers only.
OnlyPassMoves ==
    UNCHANGED <<settings, inputVars, status, jobVars, drifted, boundVars>>

NothingScheduled == UNCHANGED <<queue, timers>>

ComesBack == queue' = queue \cup {cur} /\ UNCHANGED timers

\* Mutant: only the project itself is watched.
DependentsMutant(p) == {}

\* findDependentProjects.
Dependents(p) == {q \in Projects : p \in Upstreams[q]}

Fault == faults < MaxFaults /\ faults' = faults + 1

-----------------------------------------------------------------------------
(***************************************************************************)
(* resolveExternalParams and resolveDependencies.                          *)
(***************************************************************************)

Resolvable(p) == \A s \in References[p] : sources[s] # None

\* Mutant: an output that is not there is no reason to wait.
UpstreamsReadyMutant(p) == \A u \in Upstreams[p] : status[u].phase = "Succeeded"

UpstreamsReady(p) ==
    \A u \in Upstreams[p] :
        status[u].phase = "Succeeded" /\ status[u].output # None

Ready(p) == Resolvable(p) /\ UpstreamsReady(p)

Wanted(p) ==
    [value |-> spec[p],
     params |-> [s \in References[p] |-> sources[s]],
     outputs |-> [u \in Upstreams[p] |-> status[u].output]]

StartPass(p) ==
    /\ pc = "idle" /\ p \in queue /\ Ready(p)
    /\ queue' = queue \ {p}
    /\ pc' = "lock" /\ cur' = p /\ obj' = status[p] /\ target' = Wanted(p)
    /\ fresh' = TRUE /\ lost' = lost \ {p}
    /\ OnlyPassMoves /\ UNCHANGED timers

\* The pass ends with a phase, and the project comes back.
ComeBackIn(p, phase) ==
    /\ pc = "idle" /\ p \in queue
    /\ pc' = "status" /\ cur' = p /\ target' = None /\ fresh' = TRUE
    /\ lost' = lost \ {p}
    /\ obj' = [status[p] EXCEPT !.phase = phase]
    /\ OnlyPassMoves /\ NothingScheduled

\* A source is not there: the pass returns its error.
ParamsMissing(p) == ~Resolvable(p) /\ ComeBackIn(p, "Error")

WaitForUpstream(p) ==
    Resolvable(p) /\ ~UpstreamsReady(p) /\ ComeBackIn(p, "WaitingDependency")

-----------------------------------------------------------------------------
(***************************************************************************)
(* checkJobLock.                                                           *)
(***************************************************************************)

Applies(p) == \E h \in Hashes(p) : applyJobs[p][h] = "active"

\* Mutant: drift Jobs do not count, as for a project's own lock.
NamespaceBusyMutant == \E q \in Projects : Applies(q)

\* hasActiveNamespaceJobs.
NamespaceBusy == \E q \in Projects : Applies(q) \/ driftJobs[q] = "active"

WaitForNamespace ==
    /\ pc = "lock" /\ cur \in settings.shared /\ NamespaceBusy
    /\ GoOn("status", [obj EXCEPT !.phase = "Queued"])
    /\ ComesBack /\ OnlyPassMoves

WaitForActiveJob ==
    /\ pc = "lock" /\ cur \notin settings.shared /\ Applies(cur)
    /\ GoOn("status", [obj EXCEPT !.phase = "Running"])
    /\ ComesBack /\ OnlyPassMoves

LockIsFree ==
    /\ pc = "lock"
    /\ ~(IF cur \in settings.shared THEN NamespaceBusy ELSE Applies(cur))
    /\ GoOn("flow", obj)
    /\ NothingScheduled /\ OnlyPassMoves

-----------------------------------------------------------------------------
(***************************************************************************)
(* reconcileAutoApprove.                                                   *)
(***************************************************************************)

ApplyTurn == pc = "flow" /\ obj.applied # target

\* No phase is restored.
AlreadyApplied ==
    /\ pc = "flow" /\ obj.applied = target /\ cur \notin settings.drifting
    /\ EndPass
    /\ NothingScheduled /\ OnlyPassMoves

CreateApplyJob ==
    /\ ApplyTurn /\ applyJobs[cur][target] = "absent"
    /\ applyJobs' = [applyJobs EXCEPT ![cur][target] = "active"]
    /\ GoOn("status", [obj EXCEPT !.phase = "Running"])
    /\ ComesBack
    /\ UNCHANGED <<settings, inputVars, status, driftJobs, drifted, boundVars>>

\* The outputs come from the Job's log; when it cannot be read, the old ones
\* stay and the apply counts all the same.
ApplySucceeded ==
    /\ ApplyTurn /\ applyJobs[cur][target] = "succeeded"
    /\ LET done == [obj EXCEPT !.phase = "Succeeded", !.applied = target,
                               !.drift = FALSE,
                               !.checked = @ \/ cur \in settings.drifting]
       IN \/ /\ GoOn("status", [done EXCEPT !.output = target.value])
             /\ UNCHANGED faults
          \/ GoOn("status", done) /\ Fault
    /\ NothingScheduled
    /\ UNCHANGED <<settings, inputVars, status, jobVars, drifted, edits, drifts>>

ApplyFailed ==
    /\ ApplyTurn /\ applyJobs[cur][target] = "failed"
    /\ GoOn("status", [obj EXCEPT !.phase = "Error"])
    /\ NothingScheduled /\ OnlyPassMoves

-----------------------------------------------------------------------------
(***************************************************************************)
(* reconcileDriftDetection.                                                *)
(***************************************************************************)

DriftTurn ==
    pc = "flow" /\ obj.applied = target /\ cur \in settings.drifting

SetTimer == timers' = timers \cup {cur} /\ UNCHANGED queue

TooEarly ==
    /\ DriftTurn /\ obj.checked
    /\ EndPass
    /\ SetTimer /\ OnlyPassMoves

CreateDriftJob ==
    /\ DriftTurn /\ ~obj.checked /\ driftJobs[cur] = "absent"
    /\ driftJobs' = [driftJobs EXCEPT ![cur] = "active"]
    /\ GoOn("status", [obj EXCEPT !.phase = "DriftChecking"])
    /\ ComesBack
    /\ UNCHANGED <<settings, inputVars, status, applyJobs, drifted, boundVars>>

DriftStillActive ==
    /\ DriftTurn /\ ~obj.checked /\ driftJobs[cur] = "active"
    /\ EndPass
    /\ ComesBack /\ OnlyPassMoves

\* Mutant: a check that found something stands for nothing found.
DriftResultMutant(o, found) ==
    [o EXCEPT !.checked = TRUE, !.phase = "Succeeded", !.drift = FALSE]

\* handleCompletedDriftJob; a failed check counts as a check.
DriftResult(o, found) ==
    CASE found = "clean" -> [o EXCEPT !.checked = TRUE, !.phase = "Succeeded",
                                      !.drift = FALSE]
      [] found = "dirty" -> [o EXCEPT !.checked = TRUE, !.drift = TRUE]
      [] found = "failed" -> [o EXCEPT !.checked = TRUE]

\* A failed apply's status write is a change every time: it counts up a revision.
Counted == pc = "status" /\ obj.phase = "Error" /\ target # None

\* A conflict is dropped.
StoreStatus(o) ==
    /\ status' = IF fresh THEN [status EXCEPT ![cur] = o] ELSE status
    /\ queue' = IF status' = status /\ ~(fresh /\ Counted) THEN queue
                ELSE queue \cup {cur} \cup Dependents(cur)

\* The result is written before the Job is deleted.  The write may be lost, and a
\* log that cannot be read leaves the status as it is.
DriftChecked ==
    /\ DriftTurn /\ ~obj.checked
    /\ driftJobs[cur] \in {"clean", "dirty", "failed"}
    /\ LET checked == DriftResult(obj, driftJobs[cur]) IN
       \/ StoreStatus(checked) /\ GoOn("delete", checked) /\ UNCHANGED faults
       \/ /\ Fault /\ UNCHANGED <<status, queue>>
          /\ \/ GoOn("delete", checked)
             \/ driftJobs[cur] # "failed" /\ GoOn("delete", obj)
    /\ UNCHANGED <<settings, inputVars, jobVars, drifted, timers, edits, drifts>>

\* An error of the Delete is dropped.  With keepInSync the applied hash is
\* cleared whenever the status, new or old, says drift.
DeleteDriftJob ==
    /\ pc = "delete"
    /\ \/ driftJobs' = [driftJobs EXCEPT ![cur] = "absent"] /\ UNCHANGED faults
       \/ Fault /\ UNCHANGED driftJobs
    /\ IF obj.drift /\ cur \in settings.inSync /\ driftJobs[cur] # "failed"
       THEN GoOn("status", [obj EXCEPT !.applied = None]) /\ ComesBack
       ELSE EndPass /\ SetTimer
    /\ UNCHANGED <<settings, inputVars, status, applyJobs, drifted, edits, drifts>>

-----------------------------------------------------------------------------
(***************************************************************************)
(* The end of a pass, faults, Jobs, time and people.                       *)
(***************************************************************************)

WriteStatus ==
    /\ pc = "status"
    /\ StoreStatus(obj)
    /\ EndPass
    /\ UNCHANGED <<settings, inputVars, jobVars, drifted, timers, boundVars>>

\* updateStatusWithCondition drops every error.  The pass returns as it would have:
\* nobody comes back for the success or the failure of an apply.
StatusWriteLost ==
    /\ pc = "status" /\ Fault
    /\ BecomeIdle /\ lost' = lost \cup {cur}
    /\ NothingScheduled
    /\ UNCHANGED <<settings, inputVars, status, jobVars, drifted, edits, drifts>>

\* The error of another call requeues the project; that of the Delete is dropped.
CallFails ==
    /\ pc \in {"lock", "flow"} /\ Fault
    /\ ComesBack
    /\ EndPass
    /\ UNCHANGED <<settings, inputVars, status, jobVars, drifted, edits, drifts>>

\* A new operator lists all projects and knows no timers.
Restart ==
    /\ Fault
    /\ queue' = Projects /\ timers' = {}
    /\ EndPass
    /\ UNCHANGED <<settings, inputVars, status, jobVars, drifted, edits, drifts>>

\* A Job's end wakes its project.
EndApplyJob(p) ==
    /\ \E h \in Hashes(p), s \in {"succeeded", "failed"} :
          /\ applyJobs[p][h] = "active"
          /\ applyJobs' = [applyJobs EXCEPT ![p][h] = s]
          /\ drifted' = IF s = "succeeded" THEN drifted \ {p} ELSE drifted
    /\ queue' = queue \cup {p}
    /\ UNCHANGED <<settings, inputVars, status, driftJobs, timers, passVars, boundVars>>

EndDriftJob(p) ==
    /\ driftJobs[p] = "active"
    /\ \/ /\ driftJobs' = [driftJobs EXCEPT
                              ![p] = IF p \in drifted THEN "dirty" ELSE "clean"]
          /\ UNCHANGED faults
       \/ driftJobs' = [driftJobs EXCEPT ![p] = "failed"] /\ Fault
    /\ queue' = queue \cup {p}
    /\ UNCHANGED <<settings, inputVars, status, applyJobs, drifted, timers, passVars,
                   edits, drifts>>

\* Drift intervals are longer than passes.
IntervalPasses(p) ==
    /\ cur # p
    /\ status[p].checked \/ p \in timers
    /\ status' = [status EXCEPT ![p].checked = FALSE]
    /\ queue' = queue \cup ({p} \cap timers)
    /\ timers' = timers \ {p}
    /\ UNCHANGED <<settings, inputVars, jobVars, drifted, passVars, boundVars>>

\* findProjectsReferencingConfigMap, findProjectsReferencingSecret.
WokenBy(s) == {p \in Projects : s \in References[p]}

EditSource(s) ==
    /\ edits < MaxEdits /\ edits' = edits + 1
    /\ \E v \in ValuesOrNone \ {sources[s]} : sources' = [sources EXCEPT ![s] = v]
    /\ queue' = queue \cup WokenBy(s)
    /\ UNCHANGED <<settings, spec, status, jobVars, drifted, timers, passVars,
                   drifts, faults>>

EditSpec(p) ==
    /\ edits < MaxEdits /\ edits' = edits + 1
    /\ \E v \in Values \ {spec[p]} : spec' = [spec EXCEPT ![p] = v]
    /\ fresh' = (fresh /\ cur # p)
    /\ queue' = queue \cup {p} \cup Dependents(p)
    /\ UNCHANGED <<settings, sources, status, jobVars, drifted, timers, pc, cur, obj,
                   target, lost, drifts, faults>>

\* Only where somebody looks does it matter.
ChangeOutside(p) ==
    /\ drifts < MaxDrifts /\ drifts' = drifts + 1
    /\ p \in settings.drifting \ drifted /\ \E h \in Hashes(p) : applyJobs[p][h] = "succeeded"
    /\ drifted' = drifted \cup {p}
    /\ UNCHANGED <<settings, inputVars, status, jobVars, queue, timers, passVars, edits,
                   faults>>

-----------------------------------------------------------------------------
PassStep ==
    \/ WaitForNamespace \/ WaitForActiveJob \/ LockIsFree
    \/ AlreadyApplied \/ CreateApplyJob \/ ApplySucceeded \/ ApplyFailed
    \/ TooEarly \/ CreateDriftJob \/ DriftStillActive \/ DriftChecked
    \/ DeleteDriftJob
    \/ WriteStatus

Serve(p) == StartPass(p) \/ ParamsMissing(p) \/ WaitForUpstream(p)

Jobs(p) == EndApplyJob(p) \/ EndDriftJob(p)

Next ==
    \/ PassStep \/ StatusWriteLost \/ CallFails \/ Restart
    \/ \E s \in Sources : EditSource(s)
    \/ \E p \in Projects :
          Serve(p) \/ Jobs(p) \/ IntervalPasses(p) \/ EditSpec(p) \/ ChangeOutside(p)

Spec == Init /\ [][Next]_vars

\* The work queue is first in, first out, so that no key in it is passed over
\* for ever; every pass and every Job ends, and time goes on.
FairSpec ==
    /\ Spec /\ WF_vars(PassStep)
    /\ \A p \in Projects :
          /\ SF_vars(Serve(p))
          /\ WF_vars(EndApplyJob(p)) /\ WF_vars(EndDriftJob(p))
          /\ WF_vars(IntervalPasses(p))

-----------------------------------------------------------------------------
(***************************************************************************)
(* Properties.                                                             *)
(***************************************************************************)

\* The projects that share the provider cache never have two Jobs at work, be
\* they apply or drift Jobs, whatever a pass was reading when another Job ended,
\* an edit fell in or the operator restarted (hasActiveNamespaceJobs).
SharedExclusion ==
    \A p, q \in settings.shared :
        /\ Applies(p) => driftJobs[q] # "active"
        /\ Applies(p) /\ Applies(q) => p = q
        /\ driftJobs[p] = "active" /\ driftJobs[q] = "active" => p = q

\* A failing Job of a project need not be the one for what it wants now.
Failed(p) == applyJobs[p][Wanted(p)] = "failed"

\* In a shared cache the drift Jobs of others can come between for ever.
CanStarve(p) == p \in settings.shared /\ settings.shared \cap settings.drifting # {}

\* A project whose upstreams have succeeded and stay so builds on the outputs
\* they publish now, or fails: no wakeup of a dependent and no turn at the lock
\* is lost (findDependentProjects, the requeues of resolveDependencies and
\* checkJobLock).  A project whose last status write was dropped may wait for ever
\* and its dependents with it (updateStatusWithCondition).
WaitersAreServed ==
    \A p \in Projects :
        []<>(\/ ~Ready(p) \/ CanStarve(p) \/ Failed(p) \/ p \in lost
             \/ status[p].applied = Wanted(p))

\* What others change in the infrastructure of a project that is at rest with
\* drift detection is reported in its status, through failing checks, unread
\* logs, lost status writes, restarts and lost timers, unless an apply repairs it
\* or the project has something else to do (reconcileDriftDetection).
DriftIsNoticed ==
    \A p \in Projects :
        p \in drifted /\ p \in settings.drifting ~>
            \/ p \notin drifted \/ status[p].drift
            \/ ~Ready(p) \/ CanStarve(p) \/ status[p].applied # Wanted(p)

(***************************************************************************)
(* What the documentation says and the code does not do.                   *)
(***************************************************************************)

\* doc/drift-detection.md: with keepInSync a drift that was detected "triggers a
\* re-apply", which fails or repairs it.
DriftIsRepaired ==
    \A p \in Projects :
        p \in drifted /\ p \in settings.inSync /\ status[p].drift ~>
            \/ p \notin drifted
            \/ \E h \in Hashes(p) : applyJobs[p][h] = "failed"
=============================================================================
