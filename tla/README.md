# A verification development for the INFINI runtime operator

The runtime operator is a Kubernetes operator in Go. A user writes an
`ApplicationDefinition` with named components; the operator builds a
StatefulSet, Services, a ConfigMap and a ServiceAccount per component, applies
them, watches their health and reports progress in the object's status and to a
webhook. This directory holds TLA+ models of that program, the TLC
configurations that check them on small instances, and proofs, checked with
TLAPS, of what matters most. Paths below are relative to `src/`; "controller"
is `internal/controller/app/applicationdefinition_controller.go`.

## 1. Inventory

| Component | State it keeps | Operations | Correct when |
|---|---|---|---|
| Reconciler (controller, `pause_resume.go`) | none between cycles; per cycle `reconcileState`: a copy of the object, status entries, built objects, first error | `Reconcile`: read from the cache, finalizer, initial phase, suspended and fast path exits, build, pause/resume, apply, health, final phase, save with three attempts | no edit is skipped; a workload is never taken back to an older spec; nothing is done without the finalizer or after the end; the status says what was done; everything settles |
| API types (`api/app/v1`) | the stored object: generation, annotations, finalizer, deletion mark, status | none | status fields mean what their comments say |
| Change reports (`recordEvent`, `getEventRecorder`) | `status.lastChangeID` | one event per step, success before the id is recorded | a recorded id was reported; it is reported once |
| Webhook recorder (`pkg/webrecorder`) | keys of accepted events with their time; one goroutine per event, one for the cleanup | `AnnotatedEventf`, `sendEvent`, `cleanupOldEvents` | accepted events arrive when the receiver answers; no duplicate within the TTL |
| Object application (`kubeutil/apply.go`) | none | `ApplyObjectV2` (create, or reconcile with three attempts), `ApplyObject` (older) | ends with the wanted content stored, or reports an error |
| Workload health (`kubeutil/health.go`) | none | `CheckHealth` per kind | healthy means rolled out and ready; a rolled out workload becomes healthy |
| Runtime builder (`pkg/builders/runtime`, `pkg/builders/k8s`) | hashes of ConfigMaps in `status.annotations` | `verifyParameters`, `BuildObjects` | parts refer to parts that exist; a new config restarts the pods |
| Task runner, runtime strategy (`pkg/reconcilers`) | a `TaskContext` per run | `RunTasks`, `ApplyResourcesTask`, `CheckK8sHealthTask` | a complete run did all of it |
| Strategy registry (`pkg/strategy`) | two maps filled by `init` | register, look up | one strategy per type |
| Process (`cmd/main.go`) | the manager with cache, queue and leader election | start, stop | a restart loses nothing but work in hand |

How they interact. The manager's watch feeds a cache and a work queue. A single
worker calls `Reconcile`, which *reads the cache* and *writes to the API server*
with optimistic locking; after a conflict it reads the cache again, which may
still be behind. Built objects are owned by the application, so their changes
enqueue it too. The StatefulSet controller, the garbage collector, kubelets and
users work on the same store at any time. Events leave through goroutines.

What is hard here: stale reads between every two calls; statuses saved over
newer ones; a crash or a failed call after any of the writes; three quick
retries against a cache that has not moved; exits (`Suspended`, the fast path)
that stop all later work if they are taken once too often; asynchronous sending
with retries; a restart request that exists in one cycle only. `PROJECT.json`
lists every such place under `hazards` with its line and the properties that
watch it.

## 2. Modules

```
AppReconcile            the reconciler, its store, cache, users and cluster
  AppInvariants         inductive invariants (OrderInv, RecordInv)
    AppRefinement       implements AppContract (refinement mapping)
      MCAppReconcile    instances
    AppReconcileProofs  theorems of the reconciler
  AppReports            with the success events of its cycles (MCAppReports)
  AppContractProofs     theorems of AppRefinement and AppReports
AppContract             what the operator promises, without reads or retries
VolumeCleanup           deletion: finalizer, claims, StatefulSet controller (MCVolumeCleanup)
  VolumeCleanupProofs   theorems
ComponentStatus         build, apply, check and status per component, names (MCComponentStatus)
  ComponentStatusProofs theorems
WebhookRecorder         recorder, senders, cleanup      (MCWebhookRecorder)
  ChangeReports         the reconciler's use of it      (MCChangeReports)
    ChangeReportsProofs theorems of both
ObjectApply             both ways to apply an object    (MCObjectApply)
ConfigRollout           config hash, restart stamp, pods (MCConfigRollout)
  RolloutProofs         theorems of both
StatefulSetHealth       health check and rollout        (MCStatefulSetHealth)
TaskRun                 task runner and strategy        (MCTaskRun)
  WorkloadProofs        theorems of both
RuntimeObjects          what BuildObjects returns       (MCRuntimeObjects)
  RuntimeObjectsProofs  theorems
```

Each MC module only names small sets for the constants. Operators marked
"Mutant:" in a module are broken variants of the definition after them; they are
not part of any specification and document which mistake a property would catch
(`mutants` in `PROJECT.json`).

### AppReconcile

State and code:

| Variable | In the system |
|---|---|
| `server` | the object in the API server: `gen`, `chg` (change-id annotation), `spec`, `deleting`, `fin`, `status` |
| `watch`, `cache` | versions not delivered yet, and the version `Client.Get` returns |
| `queued` | the key is in the work queue or a requeue timer holds it |
| `workload` | per component the StatefulSet: the generation it was built from, replicas, readiness |
| `pc` | the call `Reconcile` makes next |
| `appDef`, `orig`, `keys`, `desired`, `firstError` | `state.appDef`, `originalStatus`, keys of `componentStatuses`, built replicas, `firstError` |
| `current` | `appDef` has the server's resourceVersion, so a write will be accepted |
| `attempt` | conflicts met by the update in progress |

Actions: `StartReconcile` (read, deletion, empty and finalizer decisions),
`AddFinalizer`, `RemoveFinalizer`, `SetInitialPhase`, `Conflict` (a conflict and
the refetch), `UpdateNotFound`, `SkipReconcile` (suspended and fast path),
`Build`/`BuildFails`/`BuildPanics` (with `handlePauseResume`), `ApplyOne`,
`ApplyFails`, `StartHealth`, `CheckOne`, `CheckFails`, `Conclude`
(`determineFinalPhase`, `lastChangeID`), `StatusUnchanged`, `UpdateStatus`,
`CallFails`, `Restart`. Users edit, restamp and delete; the cluster delivers,
makes pods ready or unready and collects garbage.

Between two API calls nothing of `Reconcile` is visible to others, so one
action runs from a call to the next. The controller keeps controller-runtime's
default of one worker; a key is never reconciled twice at once. A panic is
recovered by controller-runtime and counts as an error. `CheckHealth` reads an
unstructured object, which the default client does not cache: it is a live read.

Abstractions: the pod template is the generation it was built from; one
StatefulSet stands for the objects of a component; conditions and messages are
left out except that a change of wording alone may cause a status write
(`ComponentStatus` has the messages); the deletion of volume claims inside
`handleFinalizer` is part of `RemoveFinalizer` (`VolumeCleanup` has its calls);
an unset `change-id` is 0, ids grow, and `Stamps` says how
users treat the id: "fresh" with an edit, "unused" while there is none yet,
"kept" by an edit, or "restamp" without one.
An application without components does not occur, since the CRD demands one
(`config/crd/bases/infini.cloud_applicationdefinitions.yaml:103`).

### The other modules

*AppContract* has versions requested one after the other, components brought up
to requested versions and never back, and a declaration `done`. `AppRefinement`
maps `done` to "the fast path skips the stored version": a step of the detailed
model that makes the fast path true must be one in which every component stands
at the current generation.

*AppReports* extends `AppReconcile` by one variable: `told`, the change ids
whose success a cycle of `Reconcile` handed to a recorder. Every step is one of
`AppReconcile`; the one that concludes a cycle in which everything was ready
also calls `recordEvent`, before `lastChangeID` is saved.

*VolumeCleanup* is the same loop seen from the deletion: `handleFinalizer` with
one step per call (list from the cache, delete by name, remove the finalizer
with its retries), beside users who edit, delete and create again under the
same name, the StatefulSet controller that makes pods and claims until it is
collected, and the collection of StatefulSet and pods. The cycle of a live
application is reduced to the apply of its StatefulSet. A claim in use stays,
marked, until its pod has gone; `claims` remembers the *life* (incarnation of
the application) that used it last, since a claim has no owner.

*ComponentStatus* is steps 4 to 8 for several components, with names as
sequences of characters: `DeriveResourceName`, the "-headless" suffix, what the
API server accepts as a name, and the messages by which errors and checks find
their component again. The store holds, per kind and name, for which component
and generation an object was built. When the selector of a StatefulSet would
change, the reconciler library deletes it and the next cycle makes it anew
(`WithEnableRecreateWorkload`, `cmd/main.go:242`). Reading a cache, saving with
conflicts, suspension and the fast path are `AppReconcile`'s.

*WebhookRecorder*: `sentEvents` per recorder, one sender per accepted event with
its attempts. Time is counted in periods of the cleanup ticker; the backoff and
request timeouts, three orders of magnitude shorter, are steps without duration.
A recorder has one caller, since it is made per event; the unlocked
load-then-store of `shouldSendEvent` is therefore one step.
*ChangeReports* extends it: each event takes a new recorder; what a cycle finds
is arbitrary; the status write overwrites `lastChangeID` with the copy's.
Time stands still there, since a recorder of one event never consults what it
remembers.

*ConfigRollout*: one component without change ids (every event leads to a full
cycle). A config is its own hash and its own generation; the restart annotation
takes fresh values from the times in use. The refresh of mounted ConfigMaps by
the kubelet is not modelled: what a pod runs is what it read as it started.

*StatefulSetHealth*: the controller creates pods in order, rolls out from the
last ordinal down to the partition, and writes a status whose counts include
pods above the desired number. The check reads that status only. `shrunk`
remembers that an edit took replicas away.

*ObjectApply*: cached read, create or conditional update, three attempts,
another writer, a lagging cache. The resource reconciler library is external.
`ApplyObject` is only reached from `ApplyResourcesTask`. `ApplyObjectV2` stands
between the two ends of a cycle that decide whether there will be another one:
the exits of `StartApply` (suspended; Running under a recorded change id), and
the phase and the id that `Conclude` saves, or `SaveLost` does not. Whether the
pods are ready is arbitrary there. An owner gives every edit an id of its own or
uses none; edits that keep the id are `AppReconcile`'s matter. `unseen` remembers
that the object was written by another client since the last call that ended
well, or that this call believed an old cache.

*RuntimeObjects*: `BuildObjects` as a function from a record of the properties
to objects, claims, volumes, mounts, account and ports. There is one action;
the states are the inputs. The loops that look at what they have made so far
(one volume per name, one unused name per port) are folds of `AddVolume` and
`AddPort`. The name of a port is a record of what is joined with "-" in the
code: a base or, in a made-up name, the protocol, and numbers.

*TaskRun*: the tasks of a run over a Go map, in any order, and the strategy's
verdict. The strategy in the repository runs the health task alone;
`TaskList` also puts the apply task before it, as the package provides.
`Reconcile` does not call the strategy today.

## 3. Runs

All bounds are constants, named where declared. "Faults" are failed calls,
failed applies, restarts and pods that stop being ready, together.

| Run | What it asks | Instance |
|---|---|---|
| `app_safety` | `FastPathSound`, `FinalizerCoversWork`, `AppliedNeverRegresses`, `NoWorkAfterGone`; the loop implements `AppContract`; `OrderInv` and `RecordInv` of the proofs | 2 components, the second added to the first or in its place, both suspended, or a spec refused, 2 generations and ids, restamps, deletion, users act with 1 version undelivered, 1 fault |
| `app_live` | `SuccessWasApplied`, `ChangeGetsReported`, `Settles`, `RunsReplicas`, `DeletionCompletes`, `ReportsDegraded` | 1 component suspended, resumed at another size or refused, 2 generations, an id from the edit on or never, deletion, 2 faults, pods that may stay down |
| `volumes` | `ListedClaimsGo`, `LiveClaimsStay`, `CleanupCompletes` | 2 replicas, the application created twice, 1 edit, eviction, failed call or restart |
| `component_status` | `StatusAgrees`, `HealthyIsOwn`, `RestsApplied`, `CulpritIsNamed`, `GetsRunning` | 6 specs of 1 or 2 components: plain, colliding in three ways, too long, not buildable; 1 edit from any to any, 1 fault; labels of 6 characters |
| `recorder` | `Deduplicates`, `ReceiptsBounded`, `AcceptedIsDelivered` | 2 recorders, 2 events, 3 periods, 3 failures, network errors |
| `reports` | `ProcessedWasReported`, `ProcessedIsDelivered` | 2 changes, 2 events, 2 lost saves, a restart, a failed request |
| `config` | `SavedHashWasStamped`, `ConfigMapCatchesUp` | 3 configs, 2 pods, a failed apply, 2 lost saves or restarts |
| `health` | `HealthyIsRolledOut`, `BecomesHealthy` | 1 or 3 replicas, 2 edits, 1 crash |
| `apply` | `RestsOnlyWhenApplied`, `GetsApplied` | both functions, with change ids and without, suspension, 2 contents, 4 edits, writes of others, failures or lost saves |
| `task_run` | `CompleteMeansDone`, `NoCheckAfterFailedApply`, `TasksComplete` | 3 objects, 3 faults, 2 losses of readiness |
| `objects` | `MountsResolve`, `MountsShowTheirSource`, `PortsAccepted` | 5492 configs: all sequences of up to 4 of 6 port specs, up to 2 and 2 of 4 mounts, all accounts, services with and without node ports |

`app_safety` and `reports` check the type invariants of the two modules other
modules extend. The other modules define one as well (`...TypeOK`); those of
`ComponentStatus`, `StatefulSetHealth`, `ObjectApply`, `ConfigRollout` and
`RuntimeObjects` are theorems. Some properties carry a condition, which is where
the code stops keeping its promise (see 4): `ChangeGetsReported` is about changes that do not suspend,
`GetsRunning` about names that are their own resource names and do not meet,
`CleanupCompletes` leaves out pods a new life has taken over,
`ReportsDegraded` and `RunsReplicas` are about owners without change ids,
`SavedHashWasStamped` about cycles whose applies succeed, `HealthyIsRolledOut`
about StatefulSets that were not scaled down, and `PortsAccepted` says nothing of
node ports. `GetsApplied` and `RestsOnlyWhenApplied` are about `ApplyObjectV2`,
and except what `Reconcile` leaves alone (`LeftAlone`): a suspended application,
and one whose change id is recorded when its object is not what the last cycle
left. That is so once another client has changed or deleted it; and when a cycle
that read an old version from the cache found it "unchanged" and recorded the id,
say after edits from one content to another and back. For an owner who uses
neither change ids nor suspension both say without exception that the object is
repaired. `HealthyIsOwn` asks that the
StatefulSet a healthy component was found by was applied in the same cycle, for
a component with that resource name. It does not ask that it was applied for
this component: of "a-b" and "a_b" in one spec, the code may call "a-b" healthy
on the StatefulSet applied last, which can be that of "a_b" (`helpers.go:62`).

Why the bounds are enough. The hard cases of the reconciler need one version
read stale, one newer in the cache or on its way, and one write in between:
an undelivered version when a user writes, and an edit or a restamp. A third
generation makes stale reads older, not different; a second
fault only repeats the recovery of the first. Both start from states that
the invariant describes anyway, and the theorems below remove these bounds. Two
components suffice for a loop that applies one and fails on the other. A fourth
port is the first that can meet a made-up name of a made-up name. A sender has
three attempts, so three failures exhaust it. Two replicas are the smallest
number where one claim can be deleted while another is still to come, two lives
the smallest where a cleanup can be late. Collisions of names are between two
components; `component_status` takes these kinds of them (two StatefulSets in
either order, a Service and a headless one), before or after an edit; with `AllApps` for
`SomeApps` it also passes on names no Service may have and on other and unknown
kinds, which takes longer. With labels of 6 characters and a suffix of 2, a name of 5 is what a name
of 55 to 63 characters is in Kubernetes.

`CHECK_DEADLOCK FALSE` is set everywhere because these systems rest when there
is nothing left to do (or, in a bounded instance, when the bounds are used up).

### Fairness

`FairSpec`: the worker goes on with a queued key and with the cycle it is
in, and the watch delivers. These are the manager's goroutines and informers.
That StatefulSets come up once pods stop failing is not the operator's doing:
`Settles` takes it as a premise (`FairPods`), and `RunsReplicas`,
`DeletionCompletes` and `ReportsDegraded` hold with pods that stay down.
`ChangeGetsReported` takes `FairPods` too. Users, failures, conflicts with other writers and restarts are never fair.
Conflicts that `Reconcile` makes for itself by reading a lagging cache end
because `Deliver` is fair and a failed cycle is put back into the queue; the
backoff of that queue is the justification for giving delivery a turn. Senders
are fair one by one, being goroutines. `ConfigRollout`, `StatefulSetHealth`,
`ObjectApply` and `TaskRun` assume the same of their worker, cache and
StatefulSet controller. `VolumeCleanup` assumes that both informers deliver,
that the worker goes on, and that Kubernetes makes pods and claims in order,
removes marked claims that nobody uses and collects what has lost its owner.
`ComponentStatus` assumes the worker and that pods come up. `TaskRun` puts a failed or pending run back, which is
what its contract asks of the caller (`pkg/strategy/reconcile_strategy.go`).

## 4. Disagreements between code and its own words

One run checks a sentence of the repository and finds a behaviour of the code
against it. `findings` in `PROJECT.json` quotes line and sentence.

| Run | Behaviour |
|---|---|
| `app_kept_id` | Edits that keep the change id: the status of the former spec meets a conflict, is saved with the new generation, and the fast path skips the new spec for good. |

Further ones met while modelling. They are not among the runs; where a `.cfg`
is named, `tlc -config` shows the behaviour; where it checks several,
`tlc -continue -config` shows each.

| Where | Behaviour | Instance |
|---|---|---|
| `applicationdefinition_controller.go:843`, against `applicationdefinition_types.go:63` | Scaling to zero failed; the phase says Suspended, and later cycles leave at once. | `MCAppReconcileSuspend.cfg` |
| `builder.go:193`, against 182 | The cycle after the one that stamped takes the stamp out; pods not replaced in between keep the old config. | `MCConfigRolloutRestart.cfg` |
| `applicationdefinition_controller.go:431`, against 424 | Claims are listed and deleted while the StatefulSet still exists: a pod deleted by others in between gets a new claim, which outlives the application. | `MCVolumeCleanupHazards.cfg` (`NoClaimLeft`) |
| the same, 449 | Created again before the old StatefulSet is collected, the application takes over pods whose claims are marked; their data goes with the next restart of the pod. | `MCVolumeCleanupHazards.cfg` (`LivePodsKeepClaims`) |
| the same, 171, against `applicationdefinition_types.go:187` | A change that suspends is never reported as a success and its id never recorded. | `MCAppReportsSuspension.cfg` (`ReportsSuspension`) |
| the same, 757, against `helpers.go:61` | The CRD admits names with "_", which are built as "-" and looked up as "_": the application stays Creating. | `MCComponentStatusNames.cfg` (`AnyNamesRun`) |
| `builder.go:222`, against `helpers.go:61` | Names with ".", with a digit in front or of more than 54 characters are admitted, and a Service of theirs is refused in every cycle. | the same, with `NoLabels` or `Long` among `NameApps` |
| `pause_resume.go:72`, against 82 | Scaled while suspended: resuming restores the recorded count; with a recorded id nothing corrects it. | `MCAppReconcileResume.cfg` |
| `applicationdefinition_controller.go:405`, against 137 | Conflict adding the finalizer, refetch with a new component, no status entry: a nil dereference. The next cycle recovers. | `MCAppReconcilePanic.cfg` |
| the same, 953, against `applicationdefinition_types.go:187` | A stale cycle writes its older `lastChangeID` over the newer. | `MCAppReconcileIdBack.cfg` |
| the same, 179, against `applicationdefinition_types.go:61` | A Running application with a recorded id is not looked at again, so it is never Degraded. | `ReportsDegraded` without its condition |
| the same, 179, against `applicationdefinition_types.go:59` | Nor are its objects: what another client changed or deleted stays so. | `MCObjectApplyDrift.cfg` (`RestsInPlace`) |
| `recorder.go:267`, against `applicationdefinition_controller.go:234` | The id is recorded although the event "sent before" is still with its goroutine. | `MCChangeReportsSending.cfg` (`SentBeforeProcessed`) |
| `applicationdefinition_controller.go:1158`, against `recorder.go:117` | One recorder per event: duplicates are never found. | `MCChangeReportsSending.cfg` (`SentOnce`) |
| `builder.go:186`, against 182 | The hash is saved although the stamped StatefulSet was not applied. | `SavedHashWasStamped` without its condition |
| `health.go:184`, against 182 | Healthy with an old pod among those that remain, because surplus pods count. | `HealthyIsRolledOut` without its condition |
| `health.go:184`, against 198 | With a partition never healthy. | `MCStatefulSetHealthPartition.cfg` |
| `apply.go:92`, against 52 | `ApplyObject` never changes an existing object (today unreachable from `Reconcile`). | `MCObjectApplyV1.cfg` |
| `builder.go:283`, against `types.go:192` | A `serviceAccount` section without `create`: a ServiceAccount without a name, which the controller takes for a build error (line 584), so that nothing of the application is applied. | `MCRuntimeObjectsDefaults.cfg` (`AccountsAreAskedFor`) |
| `helpers.go:217`, against 215 | The node port of a port spec is set whatever the type of the Service. The headless Service (`service.go:72`) and a client Service of type ClusterIP get it too, and the API server refuses them. | `MCRuntimeObjectsDefaults.cfg` (`NodePortsFit`) |
| `volume.go:244`, against 242 | Storage without a claim name: the claim `data` is mounted nowhere. | `MCRuntimeObjectsDefaults.cfg` (`StorageIsMounted`) |

`pkg/webrecorder/recorder.go:282` also speaks of a backoff of 2, 4 and 8 s where
the constants give 10 and 20 s; no property depends on it.

## 5. Proofs

The theorems hold for every value of the constants that satisfies the `ASSUME`s
of the module they are about: any components, specs, names, sizes, objects and
bounds. Every one of them says something of the full specification, faults,
restarts and stale reads included.

| Module | Theorem | Statement |
|---|---|---|
| `AppReconcileProofs` | `TypeCorrect` | `Spec => []TypeOK` |
| | `OrderCorrect` | `Spec => [](TypeInv /\ OrderInv)` |
| | `FinalizerCorrect` | `Spec => []FinalizerCoversWork` |
| | `AppliedCorrect` | `Spec => AppliedNeverRegresses` |
| | `NoWorkAfterGoneCorrect` | `Spec => NoWorkAfterGone` |
| | `RecordCorrect` | `Spec => [](TypeInv /\ OrderInv /\ RecordInv)` (1) |
| | `FastPathCorrect` | `Spec => []FastPathSound` (1) |
| `AppContractProofs` | `ContractCorrect` | `Spec => ImplementsContract` (1) |
| | `SuccessCorrect` | `[]SuccessWasApplied` of `AppReports` (1) |
| `VolumeCleanupProofs` | `CleanupIsDone` | `CleanupSpec => []ListedClaimsGo` |
| | `CleanupIsHarmless` | `CleanupSpec => []LiveClaimsStay` |
| `ComponentStatusProofs` | `StatusTypeCorrect` | `StatusSpec => []StatusTypeOK` |
| | `AgreesCorrect` | `StatusSpec => []StatusAgrees` |
| | `HealthyOwnCorrect` | `StatusSpec => []HealthyIsOwn` |
| | `CulpritCorrect` | `StatusSpec => CulpritIsNamed` |
| | `RestsAppliedCorrect` | `StatusSpec => []RestsApplied` |
| `ChangeReportsProofs` | `NoDuplicates` | `RecorderSpec => []Deduplicates` |
| | `FewReceipts` | `RecorderSpec => []ReceiptsBounded` |
| | `ReportsTypeCorrect` | `ReportsSpec => []ReportsTypeOK` |
| | `ProcessedCorrect` | `ReportsSpec => []ProcessedWasReported` |
| `RolloutProofs` | `ApplyTypeCorrect` | `ApplySpec => []ApplyTypeOK` |
| | `RestCorrect` | `ApplySpec => []RestsOnlyWhenApplied` |
| | `RolloutTypeCorrect` | `RolloutSpec => []RolloutTypeOK` |
| | `SavedHashCorrect` | `RolloutSpec => []SavedHashWasStamped` |
| `WorkloadProofs` | `HealthTypeCorrect` | `HealthSpec => []HealthTypeOK` |
| | `HealthyCorrect` | `HealthSpec => []HealthyIsRolledOut` |
| | `CompleteCorrect` | `TaskSpec => []CompleteMeansDone` |
| | `NoCheckCorrect` | `TaskSpec => []NoCheckAfterFailedApply` (2) |
| `RuntimeObjectsProofs` | `ObjectsTypeCorrect` | `ObjectsSpec => []ObjectsTypeOK` |
| | `MountsCorrect` | `ObjectsSpec => []MountsResolve` |
| | `SourcesCorrect` | `ObjectsSpec => []MountsShowTheirSource` |
| | `PortsCorrect` | `ObjectsSpec => []PortsAccepted` |

(1) when `"kept" \notin Stamps`: every edit brings a new change id, once there
is one. `app_kept_id` is a counterexample without it.
(2) when `AppliesFirst`: in the list of tasks no apply follows a health check.
The strategy in the repository runs the health task alone, and the package
offers the apply task to go before it; in the other order the property is false.

**The reconciler.** None of its properties is inductive, since they say nothing
of versions in flight. `TypeInv` adds to the types that what is being applied
has a replica count. `OrderInv` orders what the properties leave open:

- `Line`: cache, versions on their way and server form a sequence in which each
  version follows the ones before (generation, id, finalizer, deletion).
- `Copy`: Reconcile's copy is no newer than the cache, and if it carries the
  server's resourceVersion it *is* the server's version up to the status.
- `Life`: work happens only under a finalizer, and once the object is gone every
  version still to be read is one Reconcile does not work on.
- `Work`: no workload is ahead of the copy being applied.

From it follow the finalizer property (a conjunct of `Life`), and that applying
never takes a workload back (`Work`) or revives one (`Life`).
`RecordInv` is about recorded ids: a recorded id is no newer than any version
that will be read (`Recorded`), a version with the server's id has the server's
spec (`Identity`, where the assumption on `Stamps` is used), an id recorded
anywhere, in flight or in the copy, that equals the server's id *vouches* that
all components of the server's spec stand at its generation (`Vouched`), and a
cycle without error has applied what it got through (`Applied`). `FastPathSound`
is `Vouched` of the stored status. Each step is one lemma per group of actions
(`OrderUsers`, `OrderOpening`, `OrderBuild`, `OrderWork`, `OrderFaults`,
`OrderCluster`, and `Record...` alike), joined in `OrderStep` and `RecordStep`.
`app_safety` is TLC's check of the same invariants.

**The contract.** `ContractStep` shows every step of the loop to be a step or a
stutter of `AppContract`, again by groups of actions. A step that leaves the
server's object up to its status, and the generations of the workloads, alone is
a stutter. An edit withdraws `done`, because a recorded id is no newer than the
server's (`RecordedIsOld`). A status write that makes the fast path true is the
contract's declaration, and `Vouched` supplies its guard.

**What is reported.** `ToldInv` says of each id in `told` what `RecordInv` says
of recorded ones; it needs no new idea, but all of it again, as an id may be
told in a cycle whose status is never saved.

**Volume claims.** `CleanupInv` counts lives. `LivesInv` keeps the worker's copy,
the StatefulSet and the claims from being ahead of the version they are compared
with, which is why a cleanup with an old copy meets no claim of a later life,
although nothing in the code compares lives. `ListedInv` keeps a claim that one
listing returned in sight of the next until it is marked.

**Status of components.** `StatusInv` follows a cycle: what `Applying` and
`Checking` say of messages, errors and refused components; `AppliedOrTodo`, that
each StatefulSet of the spec has been applied in this cycle or is still in
`todo`; `AcceptedOnly` and `ReadyIsThere`, that a name found among the stored
objects is one the API server accepts, and such a name is its own resource name
(`PlainName`). `HealthyIsOwn` was first stated as "applied for this component".
The proof failed at two names with one resource name; with these in both orders
among its specs, the run has the counterexample to the former statement, and the
property now says what section 3 says. `RestInv` adds what rest stands on:
while the key is not queued, the cycle works on the current spec, and what it got
through without an error is stored for that spec, since an object that had to
change would have queued the key.

**Recorder and reports.** `Kept`: an accepted event is remembered or older than
the TTL. `Attempts`: while a request is under way the endpoint has handled at
most one per earlier attempt. `ReportsInv`: every id that may be saved one day,
in the copy of a cycle or in the cache, has had its success event.

**Object and config.** `WorksOnWanted`: a call of `ApplyObjectV2` that no edit
has overtaken works on what the spec wants, so that a call that ends well leaves
nothing undone. `InCycle` and `EndsWell` carry this to the end of the cycle, over
whatever other clients and an old cache have made of it (`unseen`), and
`RecordedStands` from there on, while the exits keep later cycles from the
object. `StampsFirst`: without a failed apply, a template without a
stamp is built only for a hash a stamped template was applied for, and so is
what is about to be saved. That there is always a fresh time to stamp with is a
counting argument on pods (`NowIsATime`).

**Health and tasks.** The check sees counts. `CountsHold`: a count of updated
pods as large as the wanted number was true when written and still is, for as
long as no pod is surplus (`NoSurplus`); then a subset of the wanted pods of
that size is all of them. `RunInv` places a run in its list: it is before the
k-th task, and the tasks before that went well.

**Built objects.** No invariant is needed, since there is one step; the matter
is what the folds compute. The library's induction theorems take an operator as
a parameter, which the back ends cannot instantiate. The proofs use membership
in a set of numbers instead: a set of numbers has a least element
(`LeastNumber`, from the well-foundedness of `<`), so a set with 0 and every
successor up to n has n (`FromZero`). `IterationExists` turns a fold into the
sequence of its intermediate values; `VolumesFor` and `PortsFor` say what the
k-th one is, and `OneMoreVolume` and `OnePortAdded` take it one step further. That
an unused name is found within as many tries as there are ports
(`CounterExists`) is the pigeonhole principle: suffixes make distinct names.
`ComponentStatusProofs` finds the elements of a flattened sequence the same way.

**Assumptions on constants** are of three kinds: bounds are numbers;
sets are not empty where the code has something; and what the API server
guarantees before the operator sees an object (names of components are distinct
and match the CRD's pattern, ids are not the empty one, specs and mounts are
records of their types). TLC evaluates all of them in the runs.

**Only model-checked**: the liveness properties, since fairness and ENABLED are
out of this prover's reach: `ChangeGetsReported`, `Settles`, `RunsReplicas`,
`DeletionCompletes`, `ReportsDegraded`, `CleanupCompletes`, `GetsRunning`,
`AcceptedIsDelivered`, `ProcessedIsDelivered`, `ConfigMapCatchesUp`,
`BecomesHealthy`, `GetsApplied`, `TasksComplete`. Every invariant and every
action property of a passing run is a theorem.

## 6. What is not modelled

- Health of Deployments, claims and disruption budgets, and of load balancers:
  the one builder registered makes StatefulSets and Services. `CheckAppHealth`
  of the strategy is never called.
- Names of containers, volumes and accounts; a ConfigMap and a Secret mounted
  under one volume name is outside `MountsShowTheirSource`'s premise,
  `NamesApart`.
- A cache that is still empty after a restart: the manager starts workers only
  once its caches have synced.
- Constructors that fill structs (`pkg/builders/k8s`), parsing of properties,
  labels, texts, conditions; the registry; flags, certificates and probes of
  `main`; generated deep copies and manifests; end-to-end test helpers.

The webhook retry test of the repository is skipped ("requires a long wait
time"); `AcceptedIsDelivered` and `ReceiptsBounded` cover what it was for.

## 7. Plan

1. Done: the reconciler, its contract and its reports; recorder and sending;
   deletion with claims; status and names of components; config rollout;
   StatefulSet health; object application; built objects; task run. Proved:
   every safety property and action property of the runs, and the refinement
   of `AppContract`.
2. Next: an abstract specification for `ApplyObjectV2` (the object goes from
   what others wrote to the wanted content, and never to an older one) and for
   the recorder (an event is accepted once and handled a bounded number of
   times), each with a refinement mapping and its proof; and what remains true
   where section 4 shows a property to end, without the condition the property
   carries.

## 8. Running it

`tlc -config <cfg> <MC module>` for a run of `PROJECT.json`; `tlapm <module>`
for each module in `*Proofs.tla` (under three minutes together, from nothing).
