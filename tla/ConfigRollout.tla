---------------------------- MODULE ConfigRollout ----------------------------
(***************************************************************************)
(* How an edit of a component's config files reaches its pods.  BuildObjects *)
(* hashes the ConfigMap and compares it with the hash in the status of the *)
(* application; when they differ it stamps the pod template with the time, *)
(* so that the StatefulSet controller replaces the pods.  The new hash is  *)
(* only in memory until Reconcile saves the status.                        *)
(*                                                                         *)
(* One component of an application without change ids, so that every event *)
(* leads to a full cycle.  A config is a number, its own hash, and its     *)
(* edit is the only edit of the spec: it is also the generation.           *)
(***************************************************************************)
EXTENDS Integers, FiniteSets

CONSTANTS
  Pods,             \* the pods of the StatefulSet
  MaxConfig,        \* bound: edits of the config
  MaxApplyFailures, \* bound: objects that cannot be applied
  MaxSaveFailures   \* bound: statuses that are not saved, and restarts

ASSUME RolloutAssumption ==
  /\ IsFiniteSet(Pods)
  /\ MaxConfig \in Nat \ {0} /\ MaxApplyFailures \in Nat /\ MaxSaveFailures \in Nat

Configs == 1 .. MaxConfig

\* The restartedAt annotation of a pod template: none, or a time.  Times are
\* told apart as long as a template or a pod carries them.
NoStamp == 0
Times == 1 .. Cardinality(Pods) + 2

VARIABLES
  config,      \* the config files in the spec
  status,      \* [hash, obs]: status.annotations, observedGeneration
  configMap,   \* the config in the ConfigMap of the cluster
  template,    \* restartedAt of the StatefulSet's pod template
  pods,        \* per pod [stamp, config]: its template, the config it read
  queued,      \* the application's key is in the work queue
  step,        \* where Reconcile stands
  built,       \* [config, hash, stamp] of the cycle; its hash is unsaved
  failed,      \* an apply of the cycle failed
  stamped,     \* history: configs a stamped template was applied for
  applyFailures, saveFailures

clusterVars == <<configMap, template, pods, stamped>>
cycleVars == <<step, built, failed>>
countVars == <<applyFailures, saveFailures>>
rolloutVars == <<config, status, clusterVars, queued, cycleVars, countVars>>

NothingBuilt == [config |-> 0, hash |-> 0, stamp |-> NoStamp]

\* The first config runs everywhere, and later cycles removed its stamp.
RolloutInit ==
  /\ config = 1 /\ status = [hash |-> 1, obs |-> 1]
  /\ configMap = 1 /\ template = NoStamp
  /\ pods = [p \in Pods |-> [stamp |-> NoStamp, config |-> 1]]
  /\ queued = FALSE /\ step = "idle" /\ built = NothingBuilt /\ failed = FALSE
  /\ stamped = {1}
  /\ applyFailures = 0 /\ saveFailures = 0

\* A user edits the config files.
EditConfig ==
  /\ config < MaxConfig
  /\ config' = config + 1 /\ queued' = TRUE
  /\ UNCHANGED <<status, clusterVars, cycleVars, countVars>>

\* The StatefulSet controller replaces a pod of another template; the new pod
\* reads the ConfigMap as it starts.  The change of the status is an event.
ReplacePod(p) ==
  /\ pods[p].stamp # template
  /\ pods' = [pods EXCEPT ![p] = [stamp |-> template, config |-> configMap]]
  /\ queued' = TRUE
  /\ UNCHANGED <<config, status, configMap, template, stamped, cycleVars, countVars>>

\* A time that no template and no pod carries.
Now == CHOOSE t \in Times : t # template /\ \A p \in Pods : pods[p].stamp # t

\* BuildObjects: the template is stamped when the hash is not the saved one,
\* and the hash in the status of the copy is replaced at once.
BuildObjects ==
  /\ step = "idle" /\ queued /\ queued' = FALSE
  /\ built' = [config |-> config, hash |-> config,
               stamp |-> IF status.hash # config THEN Now ELSE NoStamp]
  /\ step' = "applyConfigMap" /\ failed' = FALSE
  /\ UNCHANGED <<config, status, clusterVars, countVars>>

\* applyResources, the ConfigMap first and the StatefulSet after it.
ApplyConfigMap ==
  /\ step = "applyConfigMap" /\ step' = "applyWorkload"
  /\ configMap' = built.config
  /\ UNCHANGED <<config, status, template, pods, stamped, queued, built, failed, countVars>>

ApplyWorkload ==
  /\ step = "applyWorkload" /\ step' = "save"
  /\ template' = built.stamp
  /\ stamped' = IF built.stamp = NoStamp THEN stamped ELSE stamped \cup {built.config}
  /\ UNCHANGED <<config, status, configMap, pods, queued, built, failed, countVars>>

\* An object cannot be applied: noted, and the loop goes on with the next.
ApplyFails ==
  /\ step \in {"applyConfigMap", "applyWorkload"} /\ applyFailures < MaxApplyFailures
  /\ step' = IF step = "applyConfigMap" THEN "applyWorkload" ELSE "save"
  /\ failed' = TRUE /\ applyFailures' = applyFailures + 1
  /\ UNCHANGED <<config, status, clusterVars, queued, built, saveFailures>>

\* Some pods are not on the template yet: Reconcile comes back.
NotReady == failed \/ \E p \in Pods : pods[p].stamp # template

\* Reconcile returns.
EndCycle(requeue) ==
  /\ step' = "idle" /\ built' = NothingBuilt /\ failed' = FALSE
  /\ queued' = (queued \/ requeue)

\* Mutant: after a conflict the hash is computed again, of the refetched spec.
SaveStatusRehashed ==
  /\ step = "save"
  /\ status' = [hash |-> config, obs |-> config]
  /\ EndCycle(NotReady)
  /\ UNCHANGED <<config, clusterVars, countVars>>

\* updateStatusIfNeeded: the status with the new hash; after a conflict with
\* an edit the generation is the edited one.
SaveStatus ==
  /\ step = "save"
  /\ status' = [hash |-> built.hash, obs |-> config]
  /\ EndCycle(NotReady)
  /\ UNCHANGED <<config, clusterVars, countVars>>

\* Neither the generation nor, perhaps, phase and messages changed.  The hash
\* is not compared.
SaveUnneeded ==
  /\ step = "save" /\ status.obs = built.config
  /\ EndCycle(NotReady)
  /\ UNCHANGED <<config, status, clusterVars, countVars>>

\* Mutant: a failed save does not put the key back.
SaveFailsSilently ==
  /\ step # "idle" /\ saveFailures < MaxSaveFailures
  /\ saveFailures' = saveFailures + 1
  /\ EndCycle(FALSE)
  /\ UNCHANGED <<config, status, clusterVars, applyFailures>>

\* The save fails, or the operator restarts at any moment of the cycle; the
\* error, or the first listing of the cache, puts the key back.
SaveFails ==
  /\ step # "idle" /\ saveFailures < MaxSaveFailures
  /\ saveFailures' = saveFailures + 1
  /\ EndCycle(TRUE)
  /\ UNCHANGED <<config, status, clusterVars, applyFailures>>

Cycle == BuildObjects \/ ApplyConfigMap \/ ApplyWorkload \/ ApplyFails \/ SaveStatus \/ SaveUnneeded

RolloutNext ==
  \/ EditConfig
  \/ \E p \in Pods : ReplacePod(p)
  \/ Cycle
  \/ SaveFails

\* The worker takes queued keys and goes on, the StatefulSet controller works.
RolloutSpec ==
  /\ RolloutInit /\ [][RolloutNext]_rolloutVars
  /\ WF_rolloutVars(Cycle)
  /\ \A p \in Pods : WF_rolloutVars(ReplacePod(p))

-----------------------------------------------------------------------------
\* Types; what is built is built from the spec, and kept for one cycle only.
RolloutTypeOK ==
  /\ config \in Configs /\ configMap \in Configs
  /\ status \in [hash : Configs, obs : Configs]
  /\ template \in Times \cup {NoStamp}
  /\ pods \in [Pods -> [stamp : Times \cup {NoStamp}, config : Configs]]
  /\ step \in {"idle", "applyConfigMap", "applyWorkload", "save"}
  /\ step = "idle" <=> built = NothingBuilt
  /\ built \in [config : Configs, hash : Configs, stamp : Times \cup {NoStamp}] \cup {NothingBuilt}
  /\ applyFailures \in Nat

\* A hash that was saved asks for no restart any more, so a stamped template
\* must have been applied for it: whatever save is lost and wherever the
\* operator restarts.  It takes that no apply fails: the hash is saved all the
\* same when the stamped StatefulSet could not be applied.
SavedHashWasStamped == applyFailures = 0 => status.hash \in stamped

\* The ConfigMap gets the last config in the end, with failed applies, saves
\* that are lost or meet an edit, and restarts.
ConfigMapCatchesUp == <>[](configMap = config)

\* The comment in BuildObjects: "If hash changed, we need to restart the pod".
\* In the end every pod runs the config of the spec.
PodsRunConfig == <>[](\A p \in Pods : pods[p].config = config)
=============================================================================
