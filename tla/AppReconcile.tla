---------------------------- MODULE AppReconcile ----------------------------
(***************************************************************************)
(* One ApplicationDefinition, the API server that stores it, the informer  *)
(* cache the operator reads it from, and the operator's Reconcile loop     *)
(* (internal/controller/app), one step per call to the API server.         *)
(*                                                                         *)
(* A version of the object is a record:                                    *)
(*   exists    FALSE once the object is gone                               *)
(*   gen       metadata.generation: 1 at creation, +1 with every spec edit *)
(*   chg       the change-id annotation, 0 when it is absent               *)
(*   spec      [reps, suspend, valid]: the components with their replicas, *)
(*             spec.suspend, and whether the builders accept the spec      *)
(*   deleting  metadata.deletionTimestamp is set                           *)
(*   fin       the operator's finalizer is present                         *)
(*   status    [phase, obs, lcid, susp]: phase, observedGeneration,        *)
(*             lastChangeID and suspendedReplicas                          *)
(* Conditions and component messages follow from the phase and the error   *)
(* of the cycle; they only matter because a change of wording alone also   *)
(* makes updateStatusIfNeeded write (see Conclude).                        *)
(*                                                                         *)
(* The pod template is abstracted to the generation it was built from.     *)
(***************************************************************************)
EXTENDS Integers, Sequences

CONSTANTS
  Components,   \* component names a spec may use
  Specs,        \* the specs users write: [reps, suspend, valid]
  FirstSpec,    \* the spec the object is created with
  FirstId,      \* the change id it is created with, 0 for none
  Stamps,       \* how users treat the change id: "fresh", "kept", "unused", "restamp"
  MaxGen,       \* bound: number of generations (and of change ids)
  MaxLag,       \* bound: users act only while fewer events are undelivered
  MaxFaults,    \* bound: failed calls, failed applies, crashes, pods that fail
  MayDelete     \* whether users delete the object

Phases == {"", "Creating", "Updating", "Running", "Degraded", "Suspended", "Failed"}

\* Replica counts of some of the components; the others are Absent.
Absent == -1
Counts == [Components -> Nat \cup {Absent}]
Named(counts) == {c \in Components : counts[c] # Absent}

SpecRecords == [reps : Counts, suspend : BOOLEAN, valid : BOOLEAN]

\* Retries of a conflicting update (the three "i < 3" loops).
MaxAttempts == 3

ASSUME SpecsAssumption == FirstSpec \in Specs /\ Specs \subseteq SpecRecords
ASSUME BoundsAssumption ==
  /\ FirstId \in {0, 1}
  /\ Stamps \subseteq {"fresh", "kept", "unused", "restamp"}
  /\ MaxGen \in Nat /\ MaxLag \in Nat /\ MaxFaults \in Nat
  /\ MayDelete \in BOOLEAN

VARIABLES
  server,      \* the object as the API server stores it
  watch,       \* versions the watch has not delivered to the cache yet
  cache,       \* the version the informer cache holds
  queued,      \* the object's key is in the work queue (or a timer holds it)
  workload,    \* per component, the StatefulSet: [tmpl, reps, ready]
  pc,          \* where Reconcile stands
  appDef,      \* state.appDef, the copy Reconcile works on
  current,     \* appDef carries the server's resourceVersion
  orig,        \* state.originalStatus
  keys,        \* the keys of state.componentStatuses
  desired,     \* replicas of the built workloads, per component
  todo,        \* components still to apply, or still to check
  attempt,     \* conflicts met by the update in progress
  firstError,  \* state.firstError # nil
  allReady,    \* result of the health checks so far
  faults       \* faults so far

apiVars   == <<server, watch, cache>>
localVars == <<appDef, current, orig, keys, desired, todo, attempt, firstError, allReady>>
vars == <<apiVars, queued, workload, pc, localVars, faults>>

NoWorkload == [tmpl |-> 0, reps |-> 0, ready |-> FALSE]
NoRecord   == [c \in Components |-> Absent]
NewStatus  == [phase |-> "", obs |-> 0, lcid |-> 0, susp |-> NoRecord]
NewObject  == [exists |-> TRUE, gen |-> 1, chg |-> FirstId, spec |-> FirstSpec,
               deleting |-> FALSE, fin |-> FALSE, status |-> NewStatus]
NoObject   == [NewObject EXCEPT !.exists = FALSE]

Init ==
  /\ server = NewObject /\ cache = NewObject /\ watch = <<>>
  /\ queued = TRUE
  /\ workload = [c \in Components |-> NoWorkload]
  /\ pc = "idle"
  /\ appDef = NoObject /\ current = FALSE /\ orig = NewStatus /\ keys = {}
  /\ desired = NoRecord /\ todo = {} /\ attempt = 0
  /\ firstError = FALSE /\ allReady = FALSE
  /\ faults = 0

-----------------------------------------------------------------------------
(* The API server and its clients other than the operator.                 *)

\* A write the API server accepts: stored at once, announced by the watch.
Store(version) == server' = version /\ watch' = Append(watch, version)

\* A client other than the operator wrote: the operator's copy is outdated.
StoreByOther(version) ==
  /\ Store(version)
  /\ current' = FALSE
  /\ UNCHANGED <<cache, queued, workload, pc, appDef, orig, keys, desired, todo,
                 attempt, firstError, allReady, faults>>

MayWrite == server.exists /\ ~server.deleting /\ Len(watch) < MaxLag

\* A user edits the spec; the change id is stamped anew or left as it is, or
\* there is none and the user does not care for one.
EditSpec ==
  /\ MayWrite /\ server.gen < MaxGen
  /\ \E s \in Specs, stamp \in Stamps \cap {"fresh", "kept", "unused"} :
       /\ stamp = "unused" => server.chg = 0
       /\ StoreByOther([server EXCEPT
         !.gen = @ + 1, !.spec = s, !.chg = IF stamp = "fresh" THEN @ + 1 ELSE @])

\* A user stamps a new change id without touching the spec.
Restamp ==
  /\ MayWrite /\ "restamp" \in Stamps /\ server.chg < MaxGen
  /\ StoreByOther([server EXCEPT !.chg = @ + 1])

\* Deletion waits for the finalizer when there is one.
DeleteObject ==
  /\ MayWrite /\ MayDelete
  /\ StoreByOther([server EXCEPT !.deleting = TRUE, !.exists = @ /\ server.fin])

\* The watch delivers the next version; its handler enqueues the key.
Deliver ==
  /\ watch # <<>>
  /\ cache' = Head(watch) /\ watch' = Tail(watch)
  /\ queued' = TRUE
  /\ UNCHANGED <<server, workload, pc, localVars, faults>>

\* The StatefulSet controller and the kubelets bring all replicas up.  The
\* workload is owned, so the change enqueues the key.
PodsReady(c) ==
  /\ workload[c].tmpl # 0 /\ ~workload[c].ready
  /\ workload' = [workload EXCEPT ![c].ready = TRUE]
  /\ queued' = TRUE
  /\ UNCHANGED <<apiVars, pc, localVars, faults>>

\* A replica stops being ready.
PodsFail(c) ==
  /\ workload[c].ready /\ workload[c].reps > 0 /\ faults < MaxFaults
  /\ workload' = [workload EXCEPT ![c].ready = FALSE]
  /\ queued' = TRUE /\ faults' = faults + 1
  /\ UNCHANGED <<apiVars, pc, localVars>>

\* Owned objects go once their owner is gone.
CollectGarbage ==
  /\ ~server.exists
  /\ \E c \in Components : workload[c] # NoWorkload
  /\ workload' = [c \in Components |-> NoWorkload]
  /\ UNCHANGED <<apiVars, queued, pc, localVars, faults>>

-----------------------------------------------------------------------------
(* The end of a reconcile, and the reads every retry makes.                *)

DropLocals ==
  /\ appDef' = NoObject /\ current' = FALSE /\ orig' = NewStatus /\ keys' = {}
  /\ desired' = NoRecord /\ todo' = {} /\ attempt' = 0
  /\ firstError' = FALSE /\ allReady' = FALSE

\* Reconcile returns; an error, Requeue or RequeueAfter puts the key back.
Finish(requeue) ==
  /\ pc' = "idle"
  /\ queued' = (queued \/ requeue)
  /\ DropLocals

\* The copy Client.Get returns is the cached one.
Refetch(version) == appDef' = version /\ current' = (watch = <<>>)

-----------------------------------------------------------------------------
(* Reconcile, in the order of its calls.                                   *)

\* The components the status map gets an entry for.
initializeComponentStatuses(version) == Named(version.spec.reps)

\* Mutant: the finalizer is only added to objects already processed once.
StartWithoutFinalizer ==
  /\ pc = "idle" /\ queued
  /\ queued' = FALSE
  /\ IF ~cache.exists \/ (cache.deleting /\ ~cache.fin)
     THEN UNCHANGED <<pc, localVars>>
     ELSE /\ Refetch(cache)
          /\ orig' = cache.status /\ keys' = initializeComponentStatuses(cache)
          /\ pc' = IF cache.deleting THEN "removeFinalizer"
                   ELSE IF ~cache.fin /\ cache.status.obs > 0 THEN "addFinalizer" ELSE "phase"
          /\ UNCHANGED <<desired, todo, attempt, firstError, allReady>>
  /\ UNCHANGED <<apiVars, workload, faults>>

\* Mutant: the suspended application is skipped before its deletion is handled.
StartSkipsSuspended ==
  /\ pc = "idle" /\ queued
  /\ queued' = FALSE
  /\ IF ~cache.exists \/ (cache.deleting /\ ~cache.fin)
        \/ (cache.spec.suspend /\ cache.status.phase = "Suspended")
     THEN UNCHANGED <<pc, localVars>>
     ELSE /\ Refetch(cache)
          /\ orig' = cache.status /\ keys' = initializeComponentStatuses(cache)
          /\ pc' = IF cache.deleting THEN "removeFinalizer"
                   ELSE IF ~cache.fin THEN "addFinalizer" ELSE "phase"
          /\ UNCHANGED <<desired, todo, attempt, firstError, allReady>>
  /\ UNCHANGED <<apiVars, workload, faults>>

\* Get, copy of the status, initializeComponentStatuses, then the branch of
\* handleFinalizer that applies.
StartReconcile ==
  /\ pc = "idle" /\ queued
  /\ queued' = FALSE
  /\ IF ~cache.exists \/ (cache.deleting /\ ~cache.fin)
     THEN UNCHANGED <<pc, localVars>>
     ELSE /\ Refetch(cache)
          /\ orig' = cache.status /\ keys' = initializeComponentStatuses(cache)
          /\ pc' = IF cache.deleting THEN "removeFinalizer"
                   ELSE IF ~cache.fin THEN "addFinalizer" ELSE "phase"
          /\ UNCHANGED <<desired, todo, attempt, firstError, allReady>>
  /\ UNCHANGED <<apiVars, workload, faults>>

\* The update that adds the finalizer succeeds.  Its resourceVersion was the
\* server's, so spec and annotations are written back as they were.
AddFinalizer ==
  /\ pc = "addFinalizer" /\ current
  /\ Store([server EXCEPT !.fin = TRUE])
  /\ appDef' = server' /\ attempt' = 0 /\ pc' = "phase"
  /\ UNCHANGED <<cache, queued, workload, current, orig, keys, desired, todo,
                 firstError, allReady, faults>>

\* Mutant: Reconcile goes on after the finalizer is removed.
RemoveFinalizerGoesOn ==
  /\ pc = "removeFinalizer" /\ current
  /\ Store([server EXCEPT !.fin = FALSE, !.exists = FALSE])
  /\ pc' = "phase"
  /\ UNCHANGED <<cache, queued, workload, localVars, faults>>

\* Cleanup done, the finalizer is removed and the object goes with it.
RemoveFinalizer ==
  /\ pc = "removeFinalizer" /\ current
  /\ Store([server EXCEPT !.fin = FALSE, !.exists = FALSE])
  /\ Finish(FALSE)
  /\ UNCHANGED <<cache, workload, faults>>

\* setInitialPhase has a first phase to persist.
PhaseUnset == appDef.status.phase = ""

\* setInitialPhase writes the phase Creating and asks for a requeue.
SetInitialPhase ==
  /\ pc = "phase" /\ current
  /\ PhaseUnset \/ attempt > 0
  /\ Store([server EXCEPT !.status = [appDef.status EXCEPT !.phase = "Creating"]])
  /\ Finish(TRUE)
  /\ UNCHANGED <<cache, workload, faults>>

\* Mutant: after a conflict the change id is taken from the refetched object.
ReappliedNewId ==
  CASE pc = "addFinalizer"    -> cache
    [] pc = "removeFinalizer" -> cache
    [] pc = "phase"           -> [cache EXCEPT !.status.phase = "Creating"]
    [] pc = "status"          -> [cache EXCEPT !.status =
         [appDef.status EXCEPT !.obs = cache.gen,
                               !.lcid = IF @ = 0 THEN @ ELSE cache.chg]]

\* What the copy looks like after a conflict: the cached version with the
\* change reapplied.
Reapplied ==
  CASE pc = "addFinalizer"    -> cache
    [] pc = "removeFinalizer" -> cache
    [] pc = "phase"           -> [cache EXCEPT !.status.phase = "Creating"]
    [] pc = "status"          -> [cache EXCEPT !.status = [appDef.status EXCEPT !.obs = cache.gen]]

Updating ==
  \/ pc \in {"addFinalizer", "removeFinalizer", "status"}
  \/ pc = "phase" /\ (PhaseUnset \/ attempt > 0)

\* An update conflicts: refetch, reapply, retry; the third conflict ends the
\* loop.  It is an error everywhere but in the removal of the finalizer.
Conflict ==
  /\ Updating /\ ~current /\ server.exists
  /\ IF cache.exists /\ attempt + 1 < MaxAttempts
     THEN /\ Refetch(Reapplied)
          /\ attempt' = attempt + 1
          /\ UNCHANGED <<queued, pc, orig, keys, desired, todo, firstError, allReady>>
     ELSE Finish(pc # "removeFinalizer" \/ ~cache.exists)
  /\ UNCHANGED <<apiVars, workload, faults>>

\* The object vanished before its update (it had no finalizer yet): NotFound.
UpdateNotFound ==
  /\ Updating /\ ~server.exists
  /\ Finish(TRUE)
  /\ UNCHANGED <<apiVars, workload, faults>>

\* Mutant: an application without change ids takes the fast path too.
FastPathWithoutId(version) ==
  /\ version.status.phase = "Running"
  /\ version.status.obs = version.gen
  /\ version.chg = version.status.lcid

FastPath(version) ==
  /\ version.status.phase = "Running"
  /\ version.status.obs = version.gen
  /\ version.status.lcid # 0
  /\ version.chg = version.status.lcid

AlreadySuspended(version) == version.spec.suspend /\ version.status.phase = "Suspended"

\* Steps 3.5 and 3.6: nothing to do for this version.
SkipReconcile ==
  /\ pc = "phase" /\ ~Updating
  /\ AlreadySuspended(appDef) \/ FastPath(appDef)
  /\ Finish(FALSE)
  /\ UNCHANGED <<apiVars, workload, faults>>

ReachesBuild == pc = "phase" /\ ~Updating /\ ~AlreadySuspended(appDef) /\ ~FastPath(appDef)

\* processComponentsAndBuildObjects looks up the status entry of a component
\* that has none: nil dereference, recovered by the runtime as an error.
BuildPanics ==
  /\ ReachesBuild /\ ~(Named(appDef.spec.reps) \subseteq keys)
  /\ Finish(TRUE)
  /\ UNCHANGED <<apiVars, workload, faults>>

\* A builder refuses the spec: handleReconcileError.
BuildFails ==
  /\ ReachesBuild /\ Named(appDef.spec.reps) \subseteq keys /\ ~appDef.spec.valid
  /\ appDef' = [appDef EXCEPT !.status.phase = "Failed", !.status.obs = appDef.gen]
  /\ firstError' = TRUE /\ attempt' = 0 /\ pc' = "status"
  /\ UNCHANGED <<apiVars, queued, workload, current, orig, keys, desired, todo,
                 allReady, faults>>

\* handlePauseResume on the built workloads.
SuspendRecord(susp, reps) ==
  [c \in Components |-> IF susp[c] # Absent THEN susp[c] ELSE reps[c]]

\* Mutant: resuming forgets to delete the recorded counts.
ResumeKeepsRecord(susp, reps) == susp

ResumeRecord(susp, reps) ==
  [c \in Components |-> IF reps[c] # Absent THEN Absent ELSE susp[c]]

ResumeReplicas(susp, reps) ==
  [c \in Components |-> IF reps[c] # Absent /\ susp[c] # Absent THEN susp[c] ELSE reps[c]]

handlePauseResume ==
  IF appDef.spec.suspend
  THEN /\ desired' = [c \in Components |-> IF appDef.spec.reps[c] # Absent THEN 0 ELSE Absent]
       /\ appDef' = [appDef EXCEPT
            !.status.phase = "Suspended",
            !.status.susp = SuspendRecord(appDef.status.susp, appDef.spec.reps)]
  ELSE /\ desired' = ResumeReplicas(appDef.status.susp, appDef.spec.reps)
       /\ appDef' = [appDef EXCEPT
            !.status.phase = IF @ = "Suspended" THEN "Updating" ELSE @,
            !.status.susp = ResumeRecord(appDef.status.susp, appDef.spec.reps)]

\* Every builder succeeds.
Build ==
  /\ ReachesBuild /\ Named(appDef.spec.reps) \subseteq keys /\ appDef.spec.valid
  /\ handlePauseResume
  /\ todo' = Named(appDef.spec.reps) /\ attempt' = 0 /\ pc' = "apply"
  /\ UNCHANGED <<apiVars, queued, workload, current, orig, keys, firstError, allReady, faults>>

\* Mutant: a new workload is built from a live read of the spec, past the cache.
ApplyLive(c) ==
  /\ pc = "apply" /\ c \in todo
  /\ todo' = todo \ {c}
  /\ workload' = [workload EXCEPT ![c] =
       [tmpl |-> IF @ = NoWorkload THEN server.gen ELSE appDef.gen, reps |-> desired[c],
        ready |-> FALSE]]
  /\ UNCHANGED <<apiVars, queued, pc, appDef, current, orig, keys, desired, attempt,
                 firstError, allReady, faults>>

\* One object of applyResources is created or patched; an unchanged one
\* keeps its readiness.
ApplyOne(c) ==
  /\ pc = "apply" /\ c \in todo
  /\ todo' = todo \ {c}
  /\ workload' = [workload EXCEPT ![c] =
       [tmpl |-> appDef.gen, reps |-> desired[c],
        ready |-> @.ready /\ @.tmpl = appDef.gen /\ @.reps = desired[c]]]
  /\ UNCHANGED <<apiVars, queued, pc, appDef, current, orig, keys, desired, attempt,
                 firstError, allReady, faults>>

\* Mutant: the error of one object is dropped when the loop goes on.
ApplyErrorDropped(c) ==
  /\ pc = "apply" /\ c \in todo /\ faults < MaxFaults
  /\ todo' = todo \ {c}
  /\ faults' = faults + 1
  /\ UNCHANGED <<apiVars, queued, workload, pc, appDef, current, orig, keys, desired,
                 attempt, firstError, allReady>>

\* It fails instead: the loop goes on, or returns at once (failed Service
\* lookup).  The error is kept.
ApplyFails(c) ==
  /\ pc = "apply" /\ c \in todo /\ faults < MaxFaults
  /\ todo' \in {todo \ {c}, {}}
  /\ firstError' = TRUE /\ faults' = faults + 1
  /\ UNCHANGED <<apiVars, queued, workload, pc, appDef, current, orig, keys, desired,
                 attempt, allReady>>

\* All objects applied: health checks, unless an apply failed.
StartHealth ==
  /\ pc = "apply" /\ todo = {}
  /\ pc' = "health"
  /\ todo' = IF firstError THEN {} ELSE keys
  /\ allReady' = ~firstError
  /\ UNCHANGED <<apiVars, queued, workload, appDef, current, orig, keys, desired, attempt,
                 firstError, faults>>

Healthy(c) == workload[c].tmpl # 0 /\ workload[c].ready

\* One iteration of checkHealthAndCalculateStatus: a live read.  A status
\* entry without a component in the spec is an error.
CheckOne(c) ==
  /\ pc = "health" /\ c \in todo
  /\ todo' = todo \ {c}
  /\ allReady' = (allReady /\ c \in Named(appDef.spec.reps) /\ Healthy(c))
  /\ firstError' = (firstError \/ c \notin Named(appDef.spec.reps))
  /\ UNCHANGED <<apiVars, queued, workload, pc, appDef, current, orig, keys, desired,
                 attempt, faults>>

CheckFails(c) ==
  /\ pc = "health" /\ c \in todo /\ faults < MaxFaults
  /\ todo' = todo \ {c}
  /\ allReady' = FALSE /\ firstError' = TRUE /\ faults' = faults + 1
  /\ UNCHANGED <<apiVars, queued, workload, pc, appDef, current, orig, keys, desired,
                 attempt>>

\* Mutant: a failed application stays Failed.
FinalPhaseSticky(phase) ==
  CASE phase = "Suspended" -> "Suspended"
    [] phase # "Suspended" /\ (firstError \/ phase = "Failed") -> "Failed"
    [] phase \notin {"Suspended", "Failed"} /\ ~firstError /\ allReady -> "Running"
    [] OTHER -> "Updating"

\* Mutant: a phase the API does not use.
FinalPhasePending(phase) ==
  IF firstError THEN "Failed" ELSE IF allReady THEN "Running" ELSE "Pending"

\* determineFinalPhase.
FinalPhase(phase) ==
  CASE phase = "Suspended" -> "Suspended"
    [] phase # "Suspended" /\ firstError -> "Failed"
    [] phase # "Suspended" /\ ~firstError /\ allReady -> "Running"
    [] ~firstError /\ ~allReady /\ phase \in {"Running", "Degraded"} -> "Degraded"
    [] ~firstError /\ ~allReady /\ phase = "Creating" -> "Creating"
    [] OTHER -> "Updating"

\* The status this cycle arrives at, LastChangeID and ObservedGeneration
\* included.
ConcludedStatus ==
  [appDef.status EXCEPT
     !.phase = FinalPhase(@),
     !.lcid = IF allReady /\ ~firstError /\ appDef.chg # 0 THEN appDef.chg ELSE @,
     !.obs = appDef.gen]

\* What updateStatusIfNeeded compares, of the fields modelled here.
SameStatus(s, t) == s.phase = t.phase /\ s.obs = t.obs /\ s.lcid = t.lcid

\* Whether Reconcile asks to run again: an error, or a component not ready.
NeedsRequeue == firstError \/ ~allReady

\* The status changed, or only its wording did: an update follows.
Conclude ==
  /\ pc = "health" /\ todo = {}
  /\ appDef' = [appDef EXCEPT !.status = ConcludedStatus]
  /\ attempt' = 0 /\ pc' = "status"
  /\ UNCHANGED <<apiVars, queued, workload, current, orig, keys, desired, todo,
                 firstError, allReady, faults>>

\* updateStatusIfNeeded finds nothing to write.
StatusUnchanged ==
  /\ pc = "status" /\ attempt = 0 /\ SameStatus(appDef.status, orig)
  /\ Finish(NeedsRequeue)
  /\ UNCHANGED <<apiVars, workload, faults>>

\* The status subresource is written.
UpdateStatus ==
  /\ pc = "status" /\ current
  /\ Store([server EXCEPT !.status = appDef.status])
  /\ Finish(NeedsRequeue)
  /\ UNCHANGED <<cache, workload, faults>>

\* A call fails otherwise (network, API server): Reconcile returns the error.
CallFails ==
  /\ Updating /\ faults < MaxFaults
  /\ Finish(TRUE)
  /\ faults' = faults + 1
  /\ UNCHANGED <<apiVars, workload>>

\* The operator dies; its successor lists the objects before it reconciles.
Restart ==
  /\ faults < MaxFaults
  /\ pc' = "idle" /\ queued' = TRUE /\ DropLocals
  /\ cache' = server /\ watch' = <<>>
  /\ faults' = faults + 1
  /\ UNCHANGED <<server, workload>>

-----------------------------------------------------------------------------
Users == EditSpec \/ Restamp \/ DeleteObject

Reconcile ==
  \/ StartReconcile \/ AddFinalizer \/ RemoveFinalizer \/ SetInitialPhase
  \/ Conflict \/ UpdateNotFound \/ SkipReconcile
  \/ BuildPanics \/ BuildFails \/ Build
  \/ \E c \in Components : ApplyOne(c) \/ CheckOne(c)
  \/ StartHealth \/ Conclude \/ StatusUnchanged \/ UpdateStatus

Faults ==
  \/ \E c \in Components : ApplyFails(c) \/ CheckFails(c) \/ PodsFail(c)
  \/ CallFails \/ Restart

Cluster == Deliver \/ CollectGarbage \/ \E c \in Components : PodsReady(c)

Next == Users \/ Reconcile \/ Faults \/ Cluster

Spec == Init /\ [][Next]_vars

\* The manager always runs its worker and its watches.  Users, faults and pod
\* failures owe nothing.
FairOperator == WF_vars(Reconcile) /\ WF_vars(Deliver)
FairSpec     == Spec /\ FairOperator

\* StatefulSets come up: a premise of the properties that need it.
FairPods == \A c \in Components : WF_vars(PodsReady(c))

-----------------------------------------------------------------------------
(* Types.                                                                  *)

Statuses == [phase : Phases, obs : Nat, lcid : Nat, susp : Counts]
Versions == [exists : BOOLEAN, gen : Nat, chg : Nat, spec : SpecRecords,
             deleting : BOOLEAN, fin : BOOLEAN, status : Statuses]
Controls == {"idle", "addFinalizer", "removeFinalizer", "phase", "apply", "health", "status"}

\* Every variable keeps its type: objects in flight are whole versions, and the
\* work in hand only names components.
TypeOK ==
  /\ server \in Versions /\ watch \in Seq(Versions) /\ cache \in Versions
  /\ queued \in BOOLEAN
  /\ workload \in [Components -> [tmpl : Nat, reps : Nat, ready : BOOLEAN]]
  /\ pc \in Controls
  /\ appDef \in Versions /\ current \in BOOLEAN /\ orig \in Statuses
  /\ keys \subseteq Components /\ desired \in Counts
  /\ todo \subseteq Components /\ attempt \in Nat
  /\ firstError \in BOOLEAN /\ allReady \in BOOLEAN
  /\ faults \in Nat

-----------------------------------------------------------------------------
(* Safety.                                                                 *)

\* The fast path of Reconcile (step 3.6) skips a version for good.  It may do so
\* only if every component of that version's spec was built and applied from
\* it: no edit is lost between the reads, retries and status writes.
FastPathSound ==
  server.exists /\ FastPath(server) =>
    \A c \in Named(server.spec.reps) : workload[c].tmpl = server.gen

\* Workloads exist only under the finalizer, so deleting the object always
\* passes through the cleanup of handleFinalizer.
FinalizerCoversWork ==
  server.exists /\ ~server.fin => \A c \in Components : workload[c] = NoWorkload

\* applyResources never puts an older generation over a newer one, whatever
\* the age of the version it read and across restarts.
AppliedNeverRegresses ==
  [][\A c \in Components : server.exists => workload'[c].tmpl >= workload[c].tmpl]_vars

\* Once the object is gone, Reconcile creates or changes no workload again.
NoWorkAfterGone ==
  [][\A c \in Components : ~server.exists => workload'[c].tmpl \in {workload[c].tmpl, 0}]_vars

\* The comment of pause_resume.go:82, "future reconciles respect the Spec": an
\* application the fast path leaves alone runs the replicas its spec asks for.
RespectsReplicas ==
  server.exists /\ FastPath(server) =>
    \A c \in Named(server.spec.reps) : workload[c].reps = server.spec.reps[c]

\* Phase Suspended, "intentionally suspended (scaled to zero)": a suspended
\* spec whose status says Suspended for its generation runs no replicas.
SuspendedIsZero ==
  server.exists /\ server.spec.suspend /\ server.status.phase = "Suspended"
      /\ server.status.obs = server.gen =>
    \A c \in Named(server.spec.reps) : workload[c].reps = 0

\* The status map is initialised from the current spec (comment of line 137),
\* so building a component always finds its entry.
StatusEntryExists == ReachesBuild => Named(appDef.spec.reps) \subseteq keys

\* lastChangeID records the last change processed: it never goes back to an
\* earlier one.
LastChangeNeverRegresses == [][server'.status.lcid >= server.status.lcid]_vars

-----------------------------------------------------------------------------
(* Liveness.                                                               *)

AsSpecified(c) == workload[c].tmpl = server.gen /\ workload[c].reps = server.spec.reps[c]

\* When users and faults stop and pods come up, the application settles: an
\* accepted spec is built, applied and reported Running, a suspended one is reported Suspended,
\* a refused one Failed.
Settled ==
  server.exists /\ ~server.deleting =>
    CASE server.spec.suspend -> server.status.phase = "Suspended" \/ ~server.spec.valid
      [] ~server.spec.suspend /\ ~server.spec.valid -> server.status.phase = "Failed"
      [] OTHER -> /\ server.status.phase = "Running"
                  /\ \A c \in Named(server.spec.reps) : workload[c].tmpl = server.gen
Settles == FairPods => <>[]Settled

\* Without change ids, when no version is skipped, it even runs the replicas of
\* the spec in the end, whatever was recorded while it was suspended.
RunsReplicas ==
  <>[](server.exists /\ ~server.deleting /\ server.chg = 0
         /\ ~server.spec.suspend /\ server.spec.valid =>
       \A c \in Named(server.spec.reps) : AsSpecified(c))

\* A deletion is never stuck behind the finalizer: the object goes, even though
\* a third conflict in handleFinalizer is not reported as an error.
DeletionCompletes == server.deleting ~> ~server.exists

\* Phase Degraded, "previously ready but now unhealthy": an application without
\* change ids is not reported Running for ever while a component is unready.
\* With them it is: the fast path comes before the health checks.
Unready == \E c \in Named(server.spec.reps) : ~Healthy(c)
RunningUnready == server.exists /\ server.status.phase = "Running" /\ Unready
ReportsDegraded == (RunningUnready /\ server.chg = 0) ~> (~RunningUnready \/ server.chg # 0)

=============================================================================
