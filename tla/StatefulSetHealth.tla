-------------------------- MODULE StatefulSetHealth --------------------------
(***************************************************************************)
(* checkStatefulSetHealth (internal/controller/common/kubeutil) against a  *)
(* StatefulSet whose controller rolls out revisions and scales it while    *)
(* its status, which is all the check reads, lags behind.                  *)
(*                                                                         *)
(* The controller and the kubelets are the environment, modelled from what *)
(* the check assumes of them: pods are updated one at a time from the last *)
(* ordinal down to the partition, and the counts of the status are those   *)
(* of the pods at the moment it is written.                                *)
(***************************************************************************)
EXTENDS Integers, FiniteSets

CONSTANTS
  Sizes,       \* replicas that users ask for
  Partitions,  \* partitions of the rolling update that users ask for
  MaxEdits,    \* bound: edits of the spec
  MaxCrashes   \* bound: losses of readiness

ASSUME HealthAssumption ==
  /\ Sizes \subseteq Nat /\ Sizes # {} /\ Partitions \subseteq Nat /\ Partitions # {}
  /\ MaxEdits \in Nat /\ MaxCrashes \in Nat

Ordinals == UNION {0 .. n - 1 : n \in Sizes}

VARIABLES
  sts,       \* metadata and spec: [gen, size, partition, rev]
  stsStatus, \* [obs, ready, updated, current]
  stsPods,   \* per ordinal [rev, ready]; rev 0 when there is no pod
  currentRev,\* status.currentRevision, the revision before the rollout
  shrunk,    \* history: an edit took replicas away
  crashes

healthVars == <<sts, stsStatus, stsPods, currentRev, shrunk, crashes>>

NoPod == [rev |-> 0, ready |-> FALSE]

\* A StatefulSet that has just been created, without pods.
HealthInit ==
  /\ sts \in [gen : {1}, size : Sizes, partition : Partitions, rev : {1}]
  /\ stsStatus = [obs |-> 0, ready |-> 0, updated |-> 0, current |-> 0]
  /\ stsPods = [o \in Ordinals |-> NoPod]
  /\ currentRev = 1 /\ shrunk = FALSE /\ crashes = 0

Existing == {o \in Ordinals : stsPods[o] # NoPod}
Ready    == {o \in Existing : stsPods[o].ready}
OnRevision(rev) == {o \in Existing : stsPods[o].rev = rev}
Wanted   == 0 .. sts.size - 1

\* The operator applies another spec: a size, a partition or a pod template.
EditStatefulSet ==
  /\ sts.gen <= MaxEdits
  /\ \E size \in Sizes, partition \in Partitions, rev \in {sts.rev, sts.rev + 1} :
       sts' = [gen |-> sts.gen + 1, size |-> size, partition |-> partition, rev |-> rev]
  /\ sts' # [sts EXCEPT !.gen = @ + 1]
  /\ shrunk' = (shrunk \/ sts'.size < sts.size)
  /\ UNCHANGED <<stsStatus, stsPods, currentRev, crashes>>

\* In the order of the ordinals (OrderedReady, the default of the builders).
CreatePod(o) ==
  /\ o \in Wanted \ Existing /\ 0 .. o - 1 \subseteq Ready
  /\ stsPods' = [stsPods EXCEPT ![o] =
       [rev |-> IF o < sts.partition THEN currentRev ELSE sts.rev, ready |-> FALSE]]
  /\ UNCHANGED <<sts, stsStatus, currentRev, shrunk, crashes>>

\* Surplus pods go first; then the last outdated one above the partition, when
\* the pods after it are ready.
Surplus  == Existing \ Wanted
Outdated == {o \in Wanted \cap Existing : o >= sts.partition /\ stsPods[o].rev # sts.rev}

DeletePod(o) ==
  /\ \/ o \in Surplus
     \/ Surplus = {} /\ o \in Outdated
        /\ \A q \in Wanted : q > o => q \in Ready \ Outdated
  /\ stsPods' = [stsPods EXCEPT ![o] = NoPod]
  /\ UNCHANGED <<sts, stsStatus, currentRev, shrunk, crashes>>

PodReady(o) ==
  /\ o \in Existing \ Ready
  /\ stsPods' = [stsPods EXCEPT ![o].ready = TRUE]
  /\ UNCHANGED <<sts, stsStatus, currentRev, shrunk, crashes>>

PodCrash(o) ==
  /\ o \in Ready /\ crashes < MaxCrashes
  /\ stsPods' = [stsPods EXCEPT ![o].ready = FALSE] /\ crashes' = crashes + 1
  /\ UNCHANGED <<sts, stsStatus, currentRev, shrunk>>

\* All pods of the update revision and ready: it becomes the current one.
Complete == Existing = OnRevision(sts.rev) /\ Existing = Ready

\* The controller writes the status: the counts of all pods, surplus included.
WriteStatus ==
  /\ currentRev' = IF Complete THEN sts.rev ELSE currentRev
  /\ stsStatus' = [obs |-> sts.gen, ready |-> Cardinality(Ready),
                   updated |-> Cardinality(OnRevision(sts.rev)),
                   current |-> Cardinality(OnRevision(currentRev'))]
  /\ UNCHANGED <<sts, stsPods, shrunk, crashes>>

HealthNext ==
  \/ EditStatefulSet
  \/ WriteStatus
  \/ \E o \in Ordinals : CreatePod(o) \/ DeletePod(o) \/ PodReady(o) \/ PodCrash(o)

\* The controller and the kubelets keep working.
HealthSpec ==
  /\ HealthInit /\ [][HealthNext]_healthVars
  /\ WF_healthVars(WriteStatus)
  /\ \A o \in Ordinals :
       WF_healthVars(CreatePod(o)) /\ WF_healthVars(DeletePod(o)) /\ WF_healthVars(PodReady(o))

-----------------------------------------------------------------------------
\* Mutant: a status of an earlier generation counts.
checkUnobserved ==
  /\ stsStatus.updated >= sts.size
  /\ stsStatus.ready >= sts.size
  /\ stsStatus.current >= sts.size
  /\ stsStatus.updated >= sts.size - sts.partition

\* Mutant: the pods of the current revision have to outnumber the desired ones.
checkStrictlyCurrent ==
  /\ stsStatus.obs >= sts.gen
  /\ stsStatus.updated >= sts.size
  /\ stsStatus.ready >= sts.size
  /\ stsStatus.current > sts.size

\* The verdict: the four early returns, then the one about the partition.
checkStatefulSetHealth ==
  /\ stsStatus.obs >= sts.gen
  /\ stsStatus.updated >= sts.size
  /\ stsStatus.ready >= sts.size
  /\ stsStatus.current >= sts.size
  /\ stsStatus.updated >= sts.size - sts.partition

\* Types; no status is ahead of the spec, and no pod of a revision to come.
HealthTypeOK ==
  /\ sts.gen \in 1 .. MaxEdits + 1 /\ sts.size \in Sizes /\ sts.partition \in Partitions
  /\ sts.rev \in 1 .. sts.gen /\ currentRev \in 1 .. sts.rev
  /\ stsStatus \in [obs : 0 .. sts.gen, ready : Nat, updated : Nat, current : Nat]
  /\ stsPods \in [Ordinals -> [rev : 0 .. sts.rev, ready : BOOLEAN]]
  /\ shrunk \in BOOLEAN

\* "Check if rollout is complete (all replicas are on the update revision)":
\* a healthy StatefulSet runs every desired pod, all of the last template,
\* although the check only sees counts that may be old.  It takes that no edit
\* takes replicas away: surplus pods that are updated first count for outdated
\* ones that stay.
HealthyIsRolledOut ==
  checkStatefulSetHealth /\ ~shrunk => Wanted \subseteq OnRevision(sts.rev)

\* Once users stop, the StatefulSet is healthy in the end and stays so; if it
\* is not, the application never becomes Running.
BecomesHealthy == <>[]checkStatefulSetHealth
=============================================================================
