---------------------------- MODULE WorkloadProofs ----------------------------
(***************************************************************************)
(* What a health check of a StatefulSet says of its pods, and what a       *)
(* complete run of the task runner says of its tasks; for any sizes,       *)
(* revisions, objects and task lists.                                      *)
(*                                                                         *)
(* The counts of a status are all a check sees, and they say which pods    *)
(* only as long as no pod is surplus: then a set of updated pods as large  *)
(* as the wanted one is the wanted one, and nothing touches it until the   *)
(* next edit.                                                              *)
(***************************************************************************)
EXTENDS StatefulSetHealth, TaskRun, FiniteSetTheorems, SequenceTheorems, TLAPS

\* Without an edit that takes replicas away no pod is surplus.
NoSurplus == ~shrunk => Existing \subseteq Wanted

\* A status of this generation that counts as many updated pods as are wanted
\* was true when it was written, and has stayed so.
CountsHold ==
  ~shrunk /\ stsStatus.obs = sts.gen /\ stsStatus.updated >= sts.size
    => Wanted \subseteq OnRevision(sts.rev)

\* A pod is of some revision, so that one that is not ready is still a pod.
OfSomeRevision == \A o \in Existing : stsPods[o].rev # 0

HealthInv == HealthTypeOK /\ IsFiniteSet(Existing) /\ OfSomeRevision /\ NoSurplus /\ CountsHold

\* Types in the form the proofs use.
LEMMA HealthFacts ==
  ASSUME HealthTypeOK
  PROVE  /\ sts.gen \in Nat \ {0} /\ sts.size \in Nat /\ sts.rev \in Nat \ {0}
         /\ currentRev \in Nat \ {0} /\ currentRev <= sts.rev /\ sts.rev <= sts.gen
         /\ stsStatus.obs \in Nat /\ stsStatus.obs <= sts.gen
         /\ stsStatus.updated \in Nat /\ MaxEdits \in Nat
<1>1. sts.gen \in 1 .. MaxEdits + 1 /\ sts.rev \in 1 .. sts.gen /\ currentRev \in 1 .. sts.rev
  BY DEF HealthTypeOK
<1>2. sts.size \in Sizes /\ Sizes \subseteq Nat /\ MaxEdits \in Nat
  BY HealthAssumption DEF HealthTypeOK
<1>3. stsStatus.obs \in 0 .. sts.gen /\ stsStatus.updated \in Nat
  <2>1. stsStatus \in [obs : 0 .. sts.gen, ready : Nat, updated : Nat, current : Nat]
    BY DEF HealthTypeOK
  <2> QED BY <2>1
<1>4. sts.gen \in Nat \ {0} /\ sts.rev \in Nat \ {0} /\ sts.rev <= sts.gen
  BY <1>1, <1>2
<1>5. currentRev \in Nat \ {0} /\ currentRev <= sts.rev
  BY <1>1, <1>4
<1>6. stsStatus.obs \in Nat /\ stsStatus.obs <= sts.gen
  BY <1>3, <1>4
<1> QED BY <1>2, <1>3, <1>4, <1>5, <1>6

\* A StatefulSet without pods.
LEMMA HealthInitial == HealthInit => HealthInv
<1> SUFFICES ASSUME HealthInit PROVE HealthInv
  OBVIOUS
<1>1. HealthTypeOK
  <2>1. /\ sts.gen = 1 /\ sts.size \in Sizes /\ sts.partition \in Partitions /\ sts.rev = 1
        /\ 1 \in 1 .. MaxEdits + 1
    BY HealthAssumption DEF HealthInit
  <2>2. stsStatus \in [obs : 0 .. sts.gen, ready : Nat, updated : Nat, current : Nat]
    BY <2>1 DEF HealthInit
  <2>3. stsPods \in [Ordinals -> [rev : 0 .. sts.rev, ready : BOOLEAN]]
    <3>1. NoPod \in [rev : 0 .. sts.rev, ready : BOOLEAN]
      BY <2>1 DEF NoPod
    <3> QED BY <3>1 DEF HealthInit
  <2>4. currentRev = 1 /\ shrunk \in BOOLEAN
    BY DEF HealthInit
  <2> QED BY <2>1, <2>2, <2>3, <2>4 DEF HealthTypeOK
<1>2. Existing = {}
  BY DEF HealthInit, Existing
<1>3. CountsHold
  BY DEF HealthInit, CountsHold
<1> QED BY <1>1, <1>2, <1>3, FS_EmptySet DEF HealthInv, OfSomeRevision, NoSurplus

\* The operator edits the spec: the status is of the generation before.
LEMMA EditKeeps ==
  ASSUME HealthInv, EditStatefulSet
  PROVE  HealthInv'
<1>1. PICK size \in Sizes, partition \in Partitions, rev \in {sts.rev, sts.rev + 1} :
        sts' = [gen |-> sts.gen + 1, size |-> size, partition |-> partition, rev |-> rev]
  BY DEF EditStatefulSet
<1>2. /\ sts.gen <= MaxEdits /\ shrunk' = (shrunk \/ size < sts.size)
      /\ UNCHANGED <<stsStatus, stsPods, currentRev, crashes>>
  BY <1>1 DEF EditStatefulSet
<1>3. /\ sts'.gen = sts.gen + 1 /\ sts'.size = size /\ sts'.partition = partition
      /\ sts'.rev = rev
  BY <1>1
<1>4. HealthTypeOK
  BY DEF HealthInv
<1>5. rev \in 1 .. sts.gen + 1 /\ currentRev \in 1 .. rev /\ sts.rev <= rev
  BY <1>1, <1>4, HealthFacts
<1>6. HealthTypeOK'
  <2>1. sts'.gen \in 1 .. MaxEdits + 1 /\ sts'.rev \in 1 .. sts'.gen /\ currentRev' \in 1 .. sts'.rev
    BY <1>2, <1>3, <1>4, <1>5, HealthFacts
  <2>2. stsStatus' \in [obs : 0 .. sts'.gen, ready : Nat, updated : Nat, current : Nat]
    <3>1. stsStatus \in [obs : 0 .. sts.gen, ready : Nat, updated : Nat, current : Nat]
      BY <1>4 DEF HealthTypeOK
    <3>2. 0 .. sts.gen \subseteq 0 .. sts'.gen
      BY <1>3, <1>4, HealthFacts
    <3> QED BY <1>2, <3>1, <3>2
  <2>3. stsPods' \in [Ordinals -> [rev : 0 .. sts'.rev, ready : BOOLEAN]]
    <3>1. stsPods \in [Ordinals -> [rev : 0 .. sts.rev, ready : BOOLEAN]]
      BY <1>4 DEF HealthTypeOK
    <3>2. 0 .. sts.rev \subseteq 0 .. sts'.rev
      BY <1>3, <1>4, <1>5, HealthFacts
    <3> QED BY <1>2, <3>1, <3>2
  <2>4. shrunk' \in BOOLEAN
    BY <1>2
  <2> QED BY <1>3, <2>1, <2>2, <2>3, <2>4 DEF HealthTypeOK
<1>7. Existing' = Existing
  BY <1>2 DEF Existing
<1>8. NoSurplus'
  <2> SUFFICES ASSUME ~shrunk' PROVE Existing \subseteq Wanted'
    BY <1>7 DEF NoSurplus
  <2>1. ~shrunk /\ sts.size <= size
    <3>1. ~shrunk /\ ~(size < sts.size)
      BY <1>2
    <3>2. sts.size \in Nat /\ size \in Nat
      BY <1>4, HealthFacts, HealthAssumption
    <3> QED BY <3>1, <3>2
  <2>2. Wanted \subseteq Wanted'
    BY <1>3, <1>4, <2>1, HealthFacts, HealthAssumption DEF Wanted
  <2> QED BY <2>1, <2>2 DEF HealthInv, NoSurplus
<1>9. CountsHold'
  BY <1>2, <1>3, <1>4, HealthFacts DEF CountsHold
<1> QED BY <1>2, <1>6, <1>7, <1>8, <1>9 DEF HealthInv, OfSomeRevision

\* The status is written: without surplus, enough updated pods are all of them.
LEMMA StatusKeeps ==
  ASSUME HealthInv, WriteStatus
  PROVE  HealthInv'
<1>1. /\ UNCHANGED <<sts, stsPods, shrunk, crashes>>
      /\ currentRev' = IF Complete THEN sts.rev ELSE currentRev
      /\ stsStatus'.obs = sts.gen /\ stsStatus'.updated = Cardinality(OnRevision(sts.rev))
      /\ stsStatus' = [obs |-> sts.gen, ready |-> Cardinality(Ready),
                       updated |-> Cardinality(OnRevision(sts.rev)),
                       current |-> Cardinality(OnRevision(currentRev'))]
  BY DEF WriteStatus
<1>2. HealthTypeOK /\ IsFiniteSet(Existing)
  BY DEF HealthInv
<1>3. /\ Cardinality(Ready) \in Nat /\ Cardinality(OnRevision(sts.rev)) \in Nat
      /\ Cardinality(OnRevision(currentRev')) \in Nat
  <2>1. Ready \in SUBSET Existing /\ \A r : OnRevision(r) \in SUBSET Existing
    BY DEF Ready, OnRevision
  <2> QED BY <1>2, <2>1, FS_Subset, FS_CardinalityType
<1>4. HealthTypeOK'
  <2>1. currentRev' \in 1 .. sts.rev
    BY <1>1, <1>2, HealthFacts
  <2>2. stsStatus' \in [obs : 0 .. sts.gen, ready : Nat, updated : Nat, current : Nat]
    BY <1>1, <1>2, <1>3, HealthFacts
  <2> QED BY <1>1, <1>2, <2>1, <2>2 DEF HealthTypeOK
<1>5. Existing' = Existing /\ Wanted' = Wanted /\ OnRevision(sts.rev)' = OnRevision(sts.rev)
  BY <1>1 DEF Existing, Wanted, OnRevision
<1>6. CountsHold'
  <2> SUFFICES ASSUME ~shrunk, Cardinality(OnRevision(sts.rev)) >= sts.size
               PROVE  Wanted \subseteq OnRevision(sts.rev)
    BY <1>1, <1>5 DEF CountsHold
  <2>1. OnRevision(sts.rev) \in SUBSET Wanted
    BY DEF HealthInv, NoSurplus, OnRevision
  <2>2. IsFiniteSet(Wanted) /\ Cardinality(Wanted) = sts.size
    <3>1. sts.size \in Nat
      BY <1>2, HealthFacts
    <3> QED BY <3>1, FS_Interval DEF Wanted
  <2>3. /\ Cardinality(OnRevision(sts.rev)) <= Cardinality(Wanted)
        /\ Cardinality(Wanted) = Cardinality(OnRevision(sts.rev)) => Wanted = OnRevision(sts.rev)
    BY <2>1, <2>2, FS_Subset
  <2>4. Cardinality(Wanted) = Cardinality(OnRevision(sts.rev))
    BY <1>2, <1>3, <2>2, <2>3, HealthFacts
  <2> QED BY <2>3, <2>4
<1> QED BY <1>1, <1>2, <1>4, <1>5, <1>6 DEF HealthInv, OfSomeRevision, NoSurplus

\* One pod changes: it is created where one is wanted, deleted when it is
\* surplus or outdated, or keeps its revision.
LEMMA PodKeeps ==
  ASSUME HealthInv, NEW o \in Ordinals,
         NEW pod \in [rev : 0 .. sts.rev, ready : BOOLEAN],
         stsPods' = [stsPods EXCEPT ![o] = pod],
         UNCHANGED <<sts, stsStatus, currentRev, shrunk>>,
         \/ pod.rev # 0 /\ o \in Wanted \ Existing
         \/ pod = NoPod /\ ~(~shrunk /\ o \in OnRevision(sts.rev))
         \/ o \in Existing /\ pod.rev # 0 /\ pod.rev = stsPods[o].rev
  PROVE  HealthInv'
<1>1. HealthTypeOK /\ IsFiniteSet(Existing)
  BY DEF HealthInv
<1>2. HealthTypeOK'
  BY <1>1 DEF HealthTypeOK
<1>3. stsPods'[o] = pod /\ \A q \in Ordinals : q # o => stsPods'[q] = stsPods[q]
  BY <1>1 DEF HealthTypeOK
<1>4. Existing' \in SUBSET (Existing \cup {o}) /\ Wanted' = Wanted
  BY <1>3 DEF Existing, Wanted
<1>5. IsFiniteSet(Existing')
  BY <1>1, <1>4, FS_AddElement, FS_Subset
<1>6. ~shrunk => Existing' \subseteq Wanted
  <2>1. CASE pod = NoPod
    BY <1>3, <2>1 DEF Existing, HealthInv, NoSurplus
  <2>2. CASE o \in Wanted \/ o \in Existing
    BY <1>4, <2>2 DEF HealthInv, NoSurplus
  <2> QED BY <2>1, <2>2
<1>7. CountsHold'
  <2> SUFFICES ASSUME ~shrunk, Wanted \subseteq OnRevision(sts.rev), NEW q \in Wanted
               PROVE  q \in Existing' /\ stsPods'[q].rev = sts.rev
    BY <1>4 DEF HealthInv, CountsHold, OnRevision
  <2>1. q \in Existing /\ q \in Ordinals /\ stsPods[q].rev = sts.rev
    BY DEF OnRevision, Existing
  <2>2. CASE q # o
    BY <1>3, <2>1, <2>2 DEF Existing
  <2>3. CASE q = o
    <3>1. pod.rev # 0 /\ pod.rev = stsPods[o].rev
      BY <2>1, <2>3 DEF OnRevision
    <3> QED BY <1>3, <2>1, <2>3, <3>1 DEF Existing, NoPod
  <2> QED BY <2>2, <2>3
<1>8. OfSomeRevision'
  <2> SUFFICES ASSUME NEW q \in Ordinals, stsPods'[q] # NoPod PROVE stsPods'[q].rev # 0
    BY DEF OfSomeRevision, Existing
  <2> QED BY <1>3 DEF HealthInv, OfSomeRevision, Existing
<1> QED BY <1>2, <1>4, <1>5, <1>6, <1>7, <1>8 DEF HealthInv, NoSurplus

\* The controller and the kubelet work on one pod.
LEMMA PodsKeep ==
  ASSUME HealthInv, NEW o \in Ordinals, CreatePod(o) \/ DeletePod(o) \/ PodReady(o) \/ PodCrash(o)
  PROVE  HealthInv'
<1>1. HealthTypeOK
  BY DEF HealthInv
<1>2. stsPods[o] \in [rev : 0 .. sts.rev, ready : BOOLEAN]
  BY <1>1 DEF HealthTypeOK
<1>3. CASE CreatePod(o)
  <2> DEFINE pod == [rev |-> IF o < sts.partition THEN currentRev ELSE sts.rev, ready |-> FALSE]
  <2>1. pod \in [rev : 0 .. sts.rev, ready : BOOLEAN] /\ pod.rev # 0
    BY <1>1, HealthFacts
  <2>2. /\ o \in Wanted \ Existing /\ stsPods' = [stsPods EXCEPT ![o] = pod]
        /\ UNCHANGED <<sts, stsStatus, currentRev, shrunk>>
    BY <1>3 DEF CreatePod
  <2> HIDE DEF pod
  <2> QED BY <2>1, <2>2, PodKeeps
<1>4. CASE DeletePod(o)
  <2>1. NoPod \in [rev : 0 .. sts.rev, ready : BOOLEAN]
    BY <1>1, HealthFacts DEF NoPod
  <2>2. /\ stsPods' = [stsPods EXCEPT ![o] = NoPod]
        /\ UNCHANGED <<sts, stsStatus, currentRev, shrunk>>
        /\ o \in Surplus \/ o \in Outdated
    BY <1>4 DEF DeletePod
  <2>3. ~(~shrunk /\ o \in OnRevision(sts.rev))
    BY <2>2 DEF Surplus, Outdated, OnRevision, HealthInv, NoSurplus
  <2> QED BY <2>1, <2>2, <2>3, PodKeeps
<1>5. CASE PodReady(o) \/ PodCrash(o)
  <2>1. PICK r \in BOOLEAN :
          /\ o \in Existing /\ stsPods' = [stsPods EXCEPT ![o].ready = r]
          /\ UNCHANGED <<sts, stsStatus, currentRev, shrunk>>
    BY <1>5 DEF PodReady, PodCrash, Ready
  <2> DEFINE pod == [stsPods[o] EXCEPT !.ready = r]
  <2>2. pod \in [rev : 0 .. sts.rev, ready : BOOLEAN] /\ pod.rev = stsPods[o].rev
    BY <1>2
  <2>3. stsPods' = [stsPods EXCEPT ![o] = pod]
    BY <2>1
  <2>4. stsPods[o].rev # 0
    BY <2>1 DEF HealthInv, OfSomeRevision
  <2> HIDE DEF pod
  <2> QED BY <2>1, <2>2, <2>3, <2>4, PodKeeps
<1> QED BY <1>3, <1>4, <1>5

\* Every step keeps the invariant.
LEMMA HealthStep == HealthInv /\ [HealthNext]_healthVars => HealthInv'
<1> SUFFICES ASSUME HealthInv, [HealthNext]_healthVars PROVE HealthInv'
  OBVIOUS
<1>1. CASE UNCHANGED healthVars
  BY <1>1 DEF healthVars, HealthInv, HealthTypeOK, Existing, OfSomeRevision, NoSurplus, Wanted,
              CountsHold, OnRevision
<1>2. CASE HealthNext
  BY <1>2, EditKeeps, StatusKeeps, PodsKeep DEF HealthNext
<1> QED BY <1>1, <1>2

\* The invariant holds for ever.
LEMMA HealthAlways == HealthSpec => []HealthInv
BY HealthInitial, HealthStep, PTL DEF HealthSpec

\* Types: no status is ahead of its spec, no pod ahead of the revisions.
THEOREM HealthTypeCorrect == HealthSpec => []HealthTypeOK
<1>1. HealthInv => HealthTypeOK
  BY DEF HealthInv
<1> QED BY <1>1, HealthAlways, PTL

\* checkStatefulSetHealth: when it says that a StatefulSet no edit shrank is
\* healthy, every wanted pod runs the last template.
THEOREM HealthyCorrect == HealthSpec => []HealthyIsRolledOut
<1>1. HealthInv => HealthyIsRolledOut
  <2> SUFFICES ASSUME HealthInv, checkStatefulSetHealth, ~shrunk
               PROVE  Wanted \subseteq OnRevision(sts.rev)
    BY DEF HealthyIsRolledOut
  <2>1. stsStatus.obs = sts.gen /\ stsStatus.updated >= sts.size
    BY HealthFacts DEF HealthInv, checkStatefulSetHealth
  <2> QED BY <2>1 DEF HealthInv, CountsHold
<1> QED BY <1>1, HealthAlways, PTL

-----------------------------------------------------------------------------
(* The task runner.  A run is at the k-th task: it is over with the ones    *)
(* before, and they went well.                                             *)

Tasks == {"apply", "health"}

\* A health check is never followed by an apply, as in the lists of the package.
AppliesFirst ==
  \A i, j \in DOMAIN TaskList : TaskList[i] = "health" /\ TaskList[j] = "apply" => j < i

Behind(name, k) == \E i \in 1 .. k - 1 : TaskList[i] = name

\* What the tasks before the k-th one leave behind.
At(k) ==
  /\ rest = SubSeq(TaskList, k, Len(TaskList))
  /\ Behind("apply", k) => untried = {} /\ ~firstTaskErr
  /\ Behind("health", k) /\ HasInfo => checkedAt
  /\ checkedAt => Behind("health", k)

Positions == 1 .. Len(TaskList) + 1

RunInv ==
  running =>
    /\ \A o \in Objects \ untried : firstTaskErr \/ applyResults[o] = "ok"
    /\ \E k \in Positions : At(k)

\* An error of an object is the first error or follows it.
ErrorsCount == \A o \in Objects : applyResults[o] = "error" => firstTaskErr

TaskInv ==
  /\ untried \subseteq Objects /\ applyResults \in [Objects -> {"none", "ok", "error"}]
  /\ firstTaskErr \in BOOLEAN /\ checkedAt \in BOOLEAN
  /\ ErrorsCount /\ RunInv /\ CompleteMeansDone

\* The k-th task is the head of what is left.
LEMMA RestOfTasks ==
  ASSUME NEW k \in Positions
  PROVE  /\ (SubSeq(TaskList, k, Len(TaskList)) = <<>>) <=> (k = Len(TaskList) + 1)
         /\ k # Len(TaskList) + 1 =>
              /\ Head(SubSeq(TaskList, k, Len(TaskList))) = TaskList[k]
              /\ Tail(SubSeq(TaskList, k, Len(TaskList))) = SubSeq(TaskList, k + 1, Len(TaskList))
<1>1. TaskList \in Seq(Tasks) /\ Len(TaskList) \in Nat
  BY TaskAssumption DEF Tasks
<1>2. CASE k = Len(TaskList) + 1
  BY <1>1, <1>2, SubSeqEmpty DEF Positions
<1>3. CASE k # Len(TaskList) + 1
  <2>1. k \in 1 .. Len(TaskList) /\ Len(TaskList) \in k .. Len(TaskList)
    BY <1>1, <1>3 DEF Positions
  <2>2. SubSeq(TaskList, k, Len(TaskList)) = <<TaskList[k]>> \o SubSeq(TaskList, k + 1, Len(TaskList))
    BY <1>1, <2>1, SubSeqRecursiveFirst
  <2>3. SubSeq(TaskList, k, Len(TaskList)) # <<>>
    <3>1. \A i \in k .. Len(TaskList) : TaskList[i] \in Tasks
      BY <1>1, <2>1
    <3>2. Len(SubSeq(TaskList, k, Len(TaskList))) = Len(TaskList) - k + 1
      BY <1>1, <2>1, <3>1, SubSeqProperties
    <3>3. Len(SubSeq(TaskList, k, Len(TaskList))) # 0
      BY <1>1, <2>1, <3>2
    <3>4. Len(<<>>) = 0
      OBVIOUS
    <3> QED BY ONLY <3>3, <3>4, Zenon
  <2>4. /\ Head(SubSeq(TaskList, k, Len(TaskList))) = TaskList[k]
        /\ Tail(SubSeq(TaskList, k, Len(TaskList))) = SubSeq(TaskList, k + 1, Len(TaskList))
    BY <1>1, <2>1, HeadTailOfSubSeq
  <2> QED BY <1>3, <2>3, <2>4
<1> QED BY <1>2, <1>3

\* A task under way is the one at the run's position.
LEMMA TaskUnderWay ==
  ASSUME TaskInv, NEW name, Task(name)
  PROVE  \E k \in 1 .. Len(TaskList) : At(k) /\ TaskList[k] = name
<1>1. PICK k \in Positions : At(k)
  BY DEF TaskInv, RunInv, Task
<1>2. k # Len(TaskList) + 1 /\ TaskList[k] = name
  BY <1>1, RestOfTasks DEF At, Task
<1>3. k \in 1 .. Len(TaskList)
  BY <1>2, TaskAssumption DEF Positions
<1> QED BY <1>1, <1>2, <1>3

\* Nothing is run yet.
LEMMA TaskInitial == TaskInit => TaskInv
BY DEF TaskInit, TaskInv, NoResults, ErrorsCount, RunInv, CompleteMeansDone

\* A run begins with no results, before the first task.
LEMMA RunTasksKeeps ==
  ASSUME TaskInv, RunTasks
  PROVE  TaskInv'
<1>1. /\ running' = TRUE /\ rest' = TaskList /\ untried' = Objects /\ applyResults' = NoResults
      /\ firstTaskErr' = FALSE /\ checkedAt' = FALSE
  BY DEF RunTasks
<1>2. 1 \in Positions /\ TaskList = SubSeq(TaskList, 1, Len(TaskList))
  BY TaskAssumption, SubSeqFull DEF Positions
<1>3. \A name : ~Behind(name, 1)
  BY DEF Behind
<1>4. At(1)'
  BY <1>1, <1>2, <1>3 DEF At, Behind
<1>5. RunInv'
  BY <1>1, <1>2, <1>4 DEF RunInv
<1>6. ErrorsCount' /\ CompleteMeansDone'
  BY <1>1 DEF ErrorsCount, NoResults, CompleteMeansDone
<1> QED BY <1>1, <1>5, <1>6 DEF TaskInv, NoResults

\* The apply task handles one object.
LEMMA ObjectKeeps ==
  ASSUME TaskInv, NEW o \in Objects, ApplySucceeds(o) \/ ApplyFails(o) \/ OwnerRefFails(o)
  PROVE  TaskInv'
<1>1. PICK k \in 1 .. Len(TaskList) : At(k) /\ TaskList[k] = "apply"
  BY TaskUnderWay DEF ApplySucceeds, ApplyFails, OwnerRefFails
<1>2. /\ o \in untried /\ running /\ UNCHANGED <<rest, checkedAt>>
      /\ ~Behind("apply", k)
  BY <1>1 DEF ApplySucceeds, ApplyFails, OwnerRefFails, At, Task
<1>3. \A name : Behind(name, k)' <=> Behind(name, k)
  BY DEF Behind
<1>4. At(k)'
  BY <1>1, <1>2, <1>3 DEF At
<1>5. k \in Positions
  BY TaskAssumption DEF Positions
<1>6. CASE ApplySucceeds(o)
  <2>1. /\ untried' = untried \ {o} /\ applyResults' = [applyResults EXCEPT ![o] = "ok"]
        /\ UNCHANGED <<running, firstTaskErr, overallResult>>
    BY <1>6 DEF ApplySucceeds
  <2>2. RunInv'
    BY <1>2, <1>4, <1>5, <2>1 DEF RunInv, TaskInv
  <2>3. ErrorsCount'
    BY <2>1 DEF ErrorsCount, TaskInv
  <2>4. CompleteMeansDone'
    BY <1>2, <2>1 DEF CompleteMeansDone
  <2> QED BY <1>2, <2>1, <2>2, <2>3, <2>4 DEF TaskInv
<1>7. CASE ApplyFails(o)
  <2>1. /\ untried' = untried \ {o} /\ applyResults' = [applyResults EXCEPT ![o] = "error"]
        /\ firstTaskErr' = TRUE /\ UNCHANGED <<running, overallResult>>
    BY <1>7 DEF ApplyFails
  <2>2. RunInv'
    BY <1>4, <1>5, <2>1 DEF RunInv
  <2>3. ErrorsCount' /\ CompleteMeansDone'
    BY <1>2, <2>1 DEF ErrorsCount, CompleteMeansDone
  <2> QED BY <1>2, <2>1, <2>2, <2>3 DEF TaskInv
<1>8. CASE OwnerRefFails(o)
  <2>1. /\ applyResults' = [applyResults EXCEPT ![o] = "error"]
        /\ firstTaskErr' = TRUE /\ running' = FALSE /\ overallResult' = "Failed"
        /\ UNCHANGED untried
    BY <1>8 DEF OwnerRefFails, EndsRun
  <2>2. RunInv' /\ ErrorsCount' /\ CompleteMeansDone'
    BY <2>1 DEF RunInv, ErrorsCount, CompleteMeansDone
  <2> QED BY <1>2, <2>1, <2>2 DEF TaskInv
<1> QED BY <1>6, <1>7, <1>8

\* A task is done with and the run goes on to the next one.
LEMMA NextTask ==
  ASSUME TaskInv, NEW k \in 1 .. Len(TaskList), At(k), rest' = Tail(rest), running,
         UNCHANGED <<untried, applyResults, firstTaskErr, running, overallResult>>,
         checkedAt' \in BOOLEAN,
         TaskList[k] = "apply" => untried = {} /\ ~firstTaskErr /\ checkedAt' = checkedAt,
         TaskList[k] = "health" => (HasInfo => checkedAt')
  PROVE  TaskInv'
<1>1. TaskList \in Seq(Tasks) /\ Len(TaskList) \in Nat /\ k \in Positions /\ k + 1 \in Positions
  BY TaskAssumption DEF Positions, Tasks
<1>2. TaskList[k] = "apply" \/ TaskList[k] = "health"
  BY <1>1 DEF Tasks
<1>3. rest' = SubSeq(TaskList, k + 1, Len(TaskList))
  BY <1>1, RestOfTasks DEF At
<1>4. \A name : Behind(name, k + 1)' <=> Behind(name, k) \/ TaskList[k] = name
  <2>1. 1 .. (k + 1) - 1 = (1 .. k - 1) \cup {k}
    OBVIOUS
  <2> QED BY <2>1 DEF Behind
<1>5. At(k + 1)'
  <2>1. Behind("apply", k + 1)' => untried' = {} /\ ~firstTaskErr'
    BY <1>4 DEF At
  <2>2. Behind("health", k + 1)' /\ HasInfo => checkedAt'
    BY <1>2, <1>4 DEF At
  <2>3. checkedAt' => Behind("health", k + 1)'
    BY <1>2, <1>4 DEF At
  <2> QED BY <1>3, <2>1, <2>2, <2>3 DEF At
<1>6. RunInv'
  <2>1. \A o \in Objects \ untried : firstTaskErr \/ applyResults[o] = "ok"
    BY DEF TaskInv, RunInv
  <2> QED BY <1>1, <1>5, <2>1 DEF RunInv
<1>7. ErrorsCount' /\ CompleteMeansDone'
  BY DEF TaskInv, ErrorsCount, CompleteMeansDone
<1> QED BY <1>6, <1>7 DEF TaskInv

\* A run that ends otherwise than complete.
LEMMA EndKeeps ==
  ASSUME TaskInv, ~running', overallResult' # "Complete", checkedAt' \in BOOLEAN,
         UNCHANGED <<untried, applyResults, firstTaskErr>>
  PROVE  TaskInv'
BY DEF TaskInv, ErrorsCount, RunInv, CompleteMeansDone

\* The apply task ends.
LEMMA ApplyEndKeeps ==
  ASSUME TaskInv, ApplyTaskEnds
  PROVE  TaskInv'
<1>1. PICK k \in 1 .. Len(TaskList) : At(k) /\ TaskList[k] = "apply"
  BY TaskUnderWay DEF ApplyTaskEnds
<1>2. /\ untried = {} /\ running
      /\ UNCHANGED <<untried, applyResults, firstTaskErr, checkedAt>>
      /\ checkedAt' \in BOOLEAN
  BY DEF ApplyTaskEnds, Task, TaskInv
<1>3. CASE firstTaskErr
  <2>1. running' = FALSE /\ overallResult' = "Failed"
    BY <1>3 DEF ApplyTaskEnds, EndsRun
  <2> QED BY <1>2, <2>1, EndKeeps
<1>4. CASE ~firstTaskErr
  <2>1. rest' = Tail(rest) /\ UNCHANGED <<running, overallResult>>
    BY <1>4 DEF ApplyTaskEnds
  <2> QED BY <1>1, <1>2, <1>4, <2>1, NextTask
<1> QED BY <1>3, <1>4

\* The health task.
LEMMA HealthTaskKeeps ==
  ASSUME TaskInv, CheckK8sHealth
  PROVE  TaskInv'
<1>1. PICK k \in 1 .. Len(TaskList) : At(k) /\ TaskList[k] = "health"
  BY TaskUnderWay DEF CheckK8sHealth
<1>2. /\ running /\ (checkedAt' <=> HasInfo /\ ready) /\ checkedAt' \in BOOLEAN
      /\ UNCHANGED <<untried, applyResults, firstTaskErr>>
  BY DEF CheckK8sHealth, Task
<1>3. CASE HasInfo /\ ~ready
  <2>1. running' = FALSE /\ overallResult' = "Pending"
    BY <1>3 DEF CheckK8sHealth, EndsRun
  <2> QED BY <1>2, <2>1, EndKeeps
<1>4. CASE ~(HasInfo /\ ~ready)
  <2>1. rest' = Tail(rest) /\ UNCHANGED <<running, overallResult>>
    BY <1>4 DEF CheckK8sHealth
  <2>2. HasInfo => checkedAt'
    BY <1>2, <1>4
  <2> QED BY <1>1, <1>2, <2>1, <2>2, NextTask
<1> QED BY <1>3, <1>4

\* No task is left: all of them are behind, and so are the results they stand for.
LEMMA CompleteKeeps ==
  ASSUME TaskInv, RunCompletes
  PROVE  TaskInv'
<1>1. /\ running /\ rest = <<>> /\ running' = FALSE /\ overallResult' = "Complete"
      /\ UNCHANGED <<untried, applyResults, firstTaskErr, checkedAt>>
  BY DEF RunCompletes, EndsRun, runVars
<1>2. PICK k \in Positions : At(k)
  BY <1>1 DEF TaskInv, RunInv
<1>3. k = Len(TaskList) + 1
  BY <1>1, <1>2, RestOfTasks DEF At
<1>4. \A name : Has(name) => Behind(name, k)
  BY <1>3, TaskAssumption DEF Has, Behind
<1>5. Has("apply") => \A o \in Objects : applyResults[o] = "ok"
  BY <1>1, <1>2, <1>4 DEF At, TaskInv, RunInv
<1>6. Has("health") /\ HasInfo => checkedAt
  BY <1>2, <1>4 DEF At
<1>7. CompleteMeansDone'
  BY <1>1, <1>5, <1>6 DEF CompleteMeansDone, Has
<1> QED BY <1>1, <1>7 DEF TaskInv, ErrorsCount, RunInv

\* Every step keeps the invariant.
LEMMA TaskStep == TaskInv /\ [TaskNext]_taskVars => TaskInv'
<1> SUFFICES ASSUME TaskInv, [TaskNext]_taskVars PROVE TaskInv'
  OBVIOUS
<1>1. CASE UNCHANGED <<running, runVars, overallResult>>
  <2>1. UNCHANGED <<running, rest, untried, applyResults, firstTaskErr, checkedAt, overallResult>>
    BY <1>1 DEF runVars
  <2>2. \A k \in Positions : At(k)' <=> At(k)
    BY <2>1 DEF At, Behind
  <2> QED BY <2>1, <2>2 DEF TaskInv, ErrorsCount, RunInv, CompleteMeansDone, Has
<1>2. CASE UNCHANGED taskVars \/ WorkloadReady \/ WorkloadFails
  BY <1>1, <1>2 DEF taskVars, WorkloadReady, WorkloadFails
<1>3. CASE CheckFails
  <2>1. /\ running' = FALSE /\ overallResult' = "Failed" /\ checkedAt' \in BOOLEAN
        /\ UNCHANGED <<untried, applyResults, firstTaskErr>>
    BY <1>3 DEF CheckFails, EndsRun, runVars, TaskInv
  <2> QED BY <2>1, EndKeeps
<1>4. CASE RunnerStep
  BY <1>3, <1>4, RunTasksKeeps, ObjectKeeps, ApplyEndKeeps, HealthTaskKeeps, CompleteKeeps
     DEF RunnerStep
<1> QED BY <1>2, <1>4 DEF TaskNext

\* The invariant holds for ever.
LEMMA TaskAlways == TaskSpec => []TaskInv
BY TaskInitial, TaskStep, PTL DEF TaskSpec

\* RunTasks: a run that is complete has applied every object, in whatever order
\* the map gave them, and found the workload ready.
THEOREM CompleteCorrect == TaskSpec => []CompleteMeansDone
<1>1. TaskInv => CompleteMeansDone
  BY DEF TaskInv
<1> QED BY <1>1, TaskAlways, PTL

\* A run that has met an error is at its apply task, and stays there.
StopsAtError == running /\ firstTaskErr => Task("apply")

\* The first error ends the run: with the apply tasks before the health checks,
\* no check follows a failed apply.
THEOREM NoCheckCorrect ==
  ASSUME AppliesFirst
  PROVE  TaskSpec => []NoCheckAfterFailedApply
<1>1. TaskInit => StopsAtError /\ NoCheckAfterFailedApply
  BY DEF TaskInit, NoResults, StopsAtError, NoCheckAfterFailedApply
<1>2. ASSUME TaskInv, StopsAtError, NoCheckAfterFailedApply, [TaskNext]_taskVars
      PROVE  (StopsAtError /\ NoCheckAfterFailedApply)'
  <2>1. ASSUME NEW o \in Objects, ApplySucceeds(o) \/ ApplyFails(o) \/ OwnerRefFails(o)
        PROVE  (StopsAtError /\ NoCheckAfterFailedApply)'
    <3>1. PICK k \in 1 .. Len(TaskList) : At(k) /\ TaskList[k] = "apply"
      BY <1>2, <2>1, TaskUnderWay DEF ApplySucceeds, ApplyFails, OwnerRefFails
    <3>2. ~Behind("health", k)
      BY <3>1, TaskAssumption DEF Behind, AppliesFirst
    <3>3. ~checkedAt'
      BY <2>1, <3>1, <3>2 DEF At, ApplySucceeds, ApplyFails, OwnerRefFails
    <3>4. Task("apply")' \/ ~running'
      BY <2>1 DEF ApplySucceeds, ApplyFails, OwnerRefFails, EndsRun, Task
    <3> QED BY <3>3, <3>4 DEF StopsAtError, NoCheckAfterFailedApply
  <2>2. CASE CheckK8sHealth
    <3>1. Task("health") /\ ~firstTaskErr /\ UNCHANGED <<firstTaskErr, applyResults>>
      BY <1>2, <2>2 DEF CheckK8sHealth, StopsAtError, Task
    <3> QED BY <1>2, <3>1 DEF StopsAtError, NoCheckAfterFailedApply, TaskInv, ErrorsCount
  <2>3. CASE RunTasks
    BY <2>3 DEF RunTasks, NoResults, StopsAtError, NoCheckAfterFailedApply
  <2>4. CASE ApplyTaskEnds
    BY <1>2, <2>4 DEF ApplyTaskEnds, EndsRun, StopsAtError, NoCheckAfterFailedApply, Task
  <2>5. CASE CheckFails \/ RunCompletes
    BY <1>2, <2>5 DEF CheckFails, RunCompletes, EndsRun, runVars, StopsAtError,
                      NoCheckAfterFailedApply
  <2>6. CASE WorkloadReady \/ WorkloadFails \/ UNCHANGED taskVars
    BY <1>2, <2>6 DEF WorkloadReady, WorkloadFails, taskVars, runVars, StopsAtError, Task,
                      NoCheckAfterFailedApply
  <2> QED BY <1>2, <2>1, <2>2, <2>3, <2>4, <2>5, <2>6 DEF TaskNext, RunnerStep
<1> QED BY <1>1, <1>2, TaskAlways, PTL DEF TaskSpec
=============================================================================
