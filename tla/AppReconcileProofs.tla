------------------------- MODULE AppReconcileProofs -------------------------
(***************************************************************************)
(* Theorems about AppReconcile, for all components, specs and bounds.      *)
(***************************************************************************)
EXTENDS AppInvariants, TLAPS

-----------------------------------------------------------------------------
(* Types.                                                                  *)

\* Only components with a replica count are left to apply.
Planned == pc = "apply" => todo \subseteq Named(desired)

TypeInv == TypeOK /\ Planned

\* The locals a finished reconcile leaves behind are well typed.
LEMMA InitialTypes ==
  NoRecord \in Counts /\ NewStatus \in Statuses /\ NewObject \in Versions /\ NoObject \in Versions
<1>1. NoRecord \in Counts
  BY DEF NoRecord, Counts
<1>2. NewStatus \in Statuses
  BY <1>1 DEF NewStatus, Statuses, Phases
<1>3. NewObject \in Versions
  BY <1>2, SpecsAssumption, BoundsAssumption DEF NewObject, Versions
<1>4. NoObject \in Versions
  BY <1>3 DEF NoObject, Versions
<1> QED BY <1>1, <1>2, <1>3, <1>4

\* Returning from Reconcile keeps the types of its own variables.
LEMMA FinishTypes ==
  ASSUME NEW requeue \in BOOLEAN, queued \in BOOLEAN, Finish(requeue)
  PROVE  /\ pc' = "idle" /\ queued' \in BOOLEAN
         /\ appDef' \in Versions /\ current' \in BOOLEAN /\ orig' \in Statuses
         /\ keys' \subseteq Components /\ desired' \in Counts
         /\ todo' \subseteq Components /\ attempt' \in Nat
         /\ firstError' \in BOOLEAN /\ allReady' \in BOOLEAN
BY InitialTypes DEF Finish, DropLocals

\* A write keeps the types of the store and of the watch.
LEMMA StoreTypes ==
  ASSUME TypeInv, NEW v \in Versions, Store(v)
  PROVE  server' \in Versions /\ watch' \in Seq(Versions)
BY DEF TypeInv, TypeOK, Store

\* Writes of other clients keep every type.
LEMMA OtherTypes ==
  ASSUME TypeInv, NEW v \in Versions, StoreByOther(v)
  PROVE  TypeInv'
<1> USE DEF TypeInv, TypeOK, Planned, StoreByOther
<1>1. server' \in Versions /\ watch' \in Seq(Versions)
  BY StoreTypes
<1> QED BY <1>1

\* A fresh application is well typed.
LEMMA TypeInit == Init => TypeInv
<1> SUFFICES ASSUME Init PROVE TypeInv
  OBVIOUS
<1>1. server \in Versions /\ cache \in Versions /\ watch \in Seq(Versions) /\ queued \in BOOLEAN
  BY InitialTypes DEF Init
<1>2. workload \in [Components -> [tmpl : Nat, reps : Nat, ready : BOOLEAN]] /\ pc \in Controls
  BY DEF Init, NoWorkload, Controls
<1>3. appDef \in Versions /\ orig \in Statuses /\ desired \in Counts
  BY InitialTypes DEF Init
<1>4. /\ current \in BOOLEAN /\ keys \subseteq Components /\ todo \subseteq Components
      /\ attempt \in Nat /\ firstError \in BOOLEAN /\ allReady \in BOOLEAN
      /\ faults \in Nat
  BY DEF Init
<1>5. Planned
  BY DEF Init, Planned
<1> QED BY <1>1, <1>2, <1>3, <1>4, <1>5 DEF TypeInv, TypeOK

\* Rewriting some fields with values of their types keeps a version a version.
LEMMA EditTypes ==
  ASSUME NEW v \in Versions, NEW n \in Nat, NEW m \in Nat, NEW s \in SpecRecords
  PROVE  [v EXCEPT !.gen = n, !.spec = s, !.chg = m] \in Versions
BY DEF Versions

\* So does setting the phase of its status.
LEMMA PhaseTypes ==
  ASSUME NEW v \in Versions, NEW p \in Phases, NEW f \in Counts
  PROVE  [v EXCEPT !.status.phase = p, !.status.susp = f] \in Versions
BY DEF Versions, Statuses

\* The users' steps.
LEMMA TypeUsers ==
  ASSUME TypeInv, Users
  PROVE  TypeInv'
<1> server \in Versions
  BY DEF TypeInv, TypeOK
<1>1. CASE EditSpec
  <2>1. PICK s \in Specs, stamp \in Stamps \cap {"fresh", "kept", "unused"} :
          StoreByOther([server EXCEPT
            !.gen = @ + 1, !.spec = s, !.chg = IF stamp = "fresh" THEN @ + 1 ELSE @])
    BY <1>1 DEF EditSpec
  <2>2. s \in SpecRecords
    BY SpecsAssumption
  <2> DEFINE n == server.gen + 1
             m == IF stamp = "fresh" THEN server.chg + 1 ELSE server.chg
  <2>a. n \in Nat /\ m \in Nat
    BY DEF Versions
  <2>b. [server EXCEPT !.gen = n, !.spec = s, !.chg = m] \in Versions
    BY <2>2, <2>a, EditTypes
  <2>3. [server EXCEPT !.gen = @ + 1, !.spec = s,
                       !.chg = IF stamp = "fresh" THEN @ + 1 ELSE @] \in Versions
    BY <2>b
  <2> QED BY <2>1, <2>3, OtherTypes
<1>2. CASE Restamp
  <2>1. [server EXCEPT !.chg = @ + 1] \in Versions
    BY DEF Versions
  <2> QED BY <1>2, <2>1, OtherTypes DEF Restamp
<1>3. CASE DeleteObject
  <2>1. [server EXCEPT !.deleting = TRUE, !.exists = @ /\ server.fin] \in Versions
    BY DEF Versions
  <2> QED BY <1>3, <2>1, OtherTypes DEF DeleteObject
<1> QED BY <1>1, <1>2, <1>3 DEF Users

\* The cluster's steps.
LEMMA TypeCluster ==
  ASSUME TypeInv, Cluster
  PROVE  TypeInv'
<1> USE DEF TypeInv, TypeOK, Planned, localVars, apiVars
<1>1. CASE Deliver
  <2>1. Head(watch) \in Versions /\ Tail(watch) \in Seq(Versions)
    BY <1>1 DEF Deliver
  <2> QED BY <1>1, <2>1 DEF Deliver
<1>2. CASE CollectGarbage
  BY <1>2 DEF CollectGarbage, NoWorkload
<1>3. ASSUME NEW c \in Components, PodsReady(c) PROVE TypeInv'
  BY <1>3 DEF PodsReady
<1> QED BY <1>1, <1>2, <1>3 DEF Cluster

\* Reconcile up to the decision to build.
LEMMA TypeOpening ==
  ASSUME TypeInv,
         StartReconcile \/ AddFinalizer \/ RemoveFinalizer \/ SetInitialPhase
           \/ Conflict \/ UpdateNotFound \/ SkipReconcile
  PROVE  TypeInv'
<1> USE DEF TypeInv, TypeOK, Planned, Controls, localVars, apiVars
<1>1. CASE StartReconcile
  <2>1. cache.status \in Statuses /\ initializeComponentStatuses(cache) \subseteq Components
    BY DEF Versions, Named, initializeComponentStatuses
  <2> QED BY <1>1, <2>1 DEF StartReconcile, Refetch
<1>2. CASE AddFinalizer
  <2>1. [server EXCEPT !.fin = TRUE] \in Versions
    BY DEF Versions
  <2>2. server' \in Versions /\ watch' \in Seq(Versions)
    BY <1>2, <2>1, StoreTypes DEF AddFinalizer
  <2> QED BY <1>2, <2>2 DEF AddFinalizer
<1>3. CASE RemoveFinalizer
  <2>1. [server EXCEPT !.fin = FALSE, !.exists = FALSE] \in Versions
    BY DEF Versions
  <2>2. server' \in Versions /\ watch' \in Seq(Versions)
    BY <1>3, <2>1, StoreTypes DEF RemoveFinalizer
  <2> QED BY <1>3, <2>2, FinishTypes DEF RemoveFinalizer
<1>4. CASE SetInitialPhase
  <2>1. [server EXCEPT !.status = [appDef.status EXCEPT !.phase = "Creating"]] \in Versions
    BY DEF Versions, Statuses, Phases
  <2>2. server' \in Versions /\ watch' \in Seq(Versions)
    BY <1>4, <2>1, StoreTypes DEF SetInitialPhase
  <2> QED BY <1>4, <2>2, FinishTypes DEF SetInitialPhase
<1>5. CASE Conflict
  <2>1. Reapplied \in Versions
    BY <1>5 DEF Conflict, Updating, Reapplied, Versions, Statuses, Phases
  <2>2. CASE cache.exists /\ attempt + 1 < MaxAttempts
    BY <1>5, <2>1, <2>2 DEF Conflict, Refetch
  <2>3. CASE ~(cache.exists /\ attempt + 1 < MaxAttempts)
    <3>1. (pc # "removeFinalizer" \/ ~cache.exists) \in BOOLEAN
      OBVIOUS
    <3> QED BY <1>5, <2>3, <3>1, FinishTypes DEF Conflict
  <2> QED BY <2>2, <2>3
<1>6. CASE UpdateNotFound
  BY <1>6, FinishTypes DEF UpdateNotFound
<1>7. CASE SkipReconcile
  BY <1>7, FinishTypes DEF SkipReconcile
<1> QED BY <1>1, <1>2, <1>3, <1>4, <1>5, <1>6, <1>7

\* Building the workloads.
LEMMA TypeBuild ==
  ASSUME TypeInv, BuildPanics \/ BuildFails \/ Build
  PROVE  TypeInv'
<1> USE DEF TypeInv, TypeOK, Planned, Controls, localVars, apiVars
<1>1. CASE BuildPanics
  BY <1>1, FinishTypes DEF BuildPanics
<1>2. CASE BuildFails
  <2>1. [appDef EXCEPT !.status.phase = "Failed", !.status.obs = appDef.gen] \in Versions
    BY DEF Versions, Statuses, Phases
  <2> QED BY <1>2, <2>1 DEF BuildFails
<1>3. CASE Build
  <2>1. appDef.spec.reps \in Counts /\ appDef.status.susp \in Counts
    BY DEF Versions, SpecRecords, Statuses
  <2>2. /\ SuspendRecord(appDef.status.susp, appDef.spec.reps) \in Counts
        /\ ResumeRecord(appDef.status.susp, appDef.spec.reps) \in Counts
        /\ ResumeReplicas(appDef.status.susp, appDef.spec.reps) \in Counts
    BY <2>1 DEF SuspendRecord, ResumeRecord, ResumeReplicas, Counts, Absent
  <2>3. desired' \in Counts /\ Named(appDef.spec.reps) \subseteq Named(desired') /\ appDef' \in Versions
    <3>1. CASE appDef.spec.suspend
      <4>1. desired' = [c \in Components |-> IF appDef.spec.reps[c] # Absent THEN 0 ELSE Absent]
        BY <1>3, <3>1 DEF Build, handlePauseResume
      <4>2. desired' \in Counts /\ Named(appDef.spec.reps) \subseteq Named(desired')
        BY <4>1 DEF Named, Counts, Absent
      <4>3. "Suspended" \in Phases
        BY DEF Phases
      <4>4. appDef' = [appDef EXCEPT !.status.phase = "Suspended",
              !.status.susp = SuspendRecord(appDef.status.susp, appDef.spec.reps)]
        BY <1>3, <3>1 DEF Build, handlePauseResume
      <4>5. appDef' \in Versions
        BY <2>2, <4>3, <4>4, PhaseTypes
      <4> QED BY <4>2, <4>5
    <3>2. CASE ~appDef.spec.suspend
      <4>1. desired' = ResumeReplicas(appDef.status.susp, appDef.spec.reps)
        BY <1>3, <3>2 DEF Build, handlePauseResume
      <4>2. Named(appDef.spec.reps) \subseteq Named(desired')
        BY <4>1, <2>1 DEF Named, ResumeReplicas
      <4> DEFINE p == IF appDef.status.phase = "Suspended" THEN "Updating"
                      ELSE appDef.status.phase
      <4>a. p \in Phases
        BY DEF Versions, Statuses, Phases
      <4>b. appDef' = [appDef EXCEPT !.status.phase = p,
              !.status.susp = ResumeRecord(appDef.status.susp, appDef.spec.reps)]
        BY <1>3, <3>2 DEF Build, handlePauseResume
      <4>3. appDef' \in Versions
        BY <2>2, <4>a, <4>b, PhaseTypes
      <4> QED BY <2>2, <4>1, <4>2, <4>3
    <3> QED BY <3>1, <3>2
  <2> QED BY <1>3, <2>3 DEF Build, Named
<1> QED BY <1>1, <1>2, <1>3

\* Applying, checking and reporting.
LEMMA TypeWork ==
  ASSUME TypeInv,
         \/ \E c \in Components : ApplyOne(c) \/ CheckOne(c) \/ ApplyFails(c) \/ CheckFails(c)
         \/ StartHealth \/ Conclude \/ StatusUnchanged \/ UpdateStatus
  PROVE  TypeInv'
<1> USE DEF TypeInv, TypeOK, Planned, Controls, localVars, apiVars
<1>1. ASSUME NEW c \in Components, ApplyOne(c) PROVE TypeInv'
  <2>1. desired[c] \in Nat
    BY <1>1 DEF ApplyOne, Named, Counts
  <2>2. appDef.gen \in Nat
    BY DEF Versions
  <2> QED BY <1>1, <2>1, <2>2 DEF ApplyOne
<1>2. ASSUME NEW c \in Components, CheckOne(c) PROVE TypeInv'
  BY <1>2 DEF CheckOne, Healthy
<1>3. ASSUME NEW c \in Components, ApplyFails(c) PROVE TypeInv'
  BY <1>3 DEF ApplyFails
<1>4. ASSUME NEW c \in Components, CheckFails(c) PROVE TypeInv'
  <2>1. faults' \in Nat
    BY <1>4 DEF CheckFails
  <2>2. TypeOK'
    BY <1>4, <2>1 DEF CheckFails
  <2> QED BY <1>4, <2>2 DEF CheckFails
<1>5. CASE StartHealth
  BY <1>5 DEF StartHealth
<1>6. CASE Conclude
  <2>1. FinalPhase(appDef.status.phase) \in Phases
    BY DEF FinalPhase, Phases
  <2>2. ConcludedStatus \in Statuses
    BY <2>1 DEF ConcludedStatus, Versions, Statuses
  <2>3. [appDef EXCEPT !.status = ConcludedStatus] \in Versions
    BY <2>2 DEF Versions
  <2> QED BY <1>6, <2>3 DEF Conclude
<1>7. NeedsRequeue \in BOOLEAN
  BY DEF NeedsRequeue
<1>8. CASE StatusUnchanged
  BY <1>7, <1>8, FinishTypes DEF StatusUnchanged
<1>9. CASE UpdateStatus
  <2>1. [server EXCEPT !.status = appDef.status] \in Versions
    BY DEF Versions
  <2>2. server' \in Versions /\ watch' \in Seq(Versions)
    BY <1>9, <2>1, StoreTypes DEF UpdateStatus
  <2> QED BY <1>7, <1>9, <2>2, FinishTypes DEF UpdateStatus
<1> QED BY <1>1, <1>2, <1>3, <1>4, <1>5, <1>6, <1>8, <1>9

\* The remaining faults.
LEMMA TypeFaults ==
  ASSUME TypeInv, CallFails \/ Restart \/ \E c \in Components : PodsFail(c)
  PROVE  TypeInv'
<1> USE DEF TypeInv, TypeOK, Planned, Controls, localVars, apiVars
<1>1. CASE CallFails
  <2>1. faults' \in Nat
    BY <1>1 DEF CallFails
  <2>2. TypeOK'
    BY <1>1, <2>1, FinishTypes DEF CallFails
  <2>3. Planned'
    BY <1>1, FinishTypes DEF CallFails
  <2> QED BY <2>2, <2>3
<1>2. CASE Restart
  <2>1. faults' \in Nat /\ watch' \in Seq(Versions) /\ cache' \in Versions
    BY <1>2 DEF Restart
  <2>2. TypeOK'
    BY <1>2, <2>1, InitialTypes DEF Restart, DropLocals
  <2>3. Planned'
    BY <1>2 DEF Restart
  <2> QED BY <2>2, <2>3
<1>3. ASSUME NEW c \in Components, PodsFail(c) PROVE TypeInv'
  <2>1. faults' \in Nat
    BY <1>3 DEF PodsFail
  <2>2. workload' \in [Components -> [tmpl : Nat, reps : Nat, ready : BOOLEAN]]
    BY <1>3 DEF PodsFail
  <2>3. TypeOK'
    BY <1>3, <2>1, <2>2 DEF PodsFail
  <2> QED BY <1>3, <2>3 DEF PodsFail
<1> QED BY <1>1, <1>2, <1>3

\* Every step keeps the types.
LEMMA TypeStep == TypeInv /\ [Next]_vars => TypeInv'
<1> SUFFICES ASSUME TypeInv, [Next]_vars PROVE TypeInv'
  OBVIOUS
<1>1. CASE Users
  BY <1>1, TypeUsers
<1>2. CASE Cluster
  BY <1>2, TypeCluster
<1>3. CASE Reconcile
  BY <1>3, TypeOpening, TypeBuild, TypeWork DEF Reconcile
<1>4. CASE Faults
  BY <1>4, TypeWork, TypeFaults DEF Faults
<1>5. CASE UNCHANGED vars
  BY <1>5 DEF vars, apiVars, localVars, TypeInv, TypeOK, Planned
<1> QED BY <1>1, <1>2, <1>3, <1>4, <1>5 DEF Next

\* Every reachable state is well typed: versions in flight are whole, and a
\* replica count is only applied to a component that has one.
THEOREM TypeCorrect == Spec => []TypeOK
<1>1. TypeInv => TypeOK
  BY DEF TypeInv
<1> QED BY TypeInit, TypeStep, <1>1, PTL DEF Spec

-----------------------------------------------------------------------------
(* The order of the versions.                                              *)

\* Versions are ordered: the order is transitive ...
LEMMA FollowsTransitive ==
  ASSUME NEW u, NEW v, NEW w, u \in Versions, v \in Versions, w \in Versions,
         Follows(v, u), Follows(w, v)
  PROVE  Follows(w, u)
BY DEF Follows, Versions

\* ... and reflexive.
LEMMA FollowsItself == ASSUME NEW u \in Versions PROVE Follows(u, u)
BY DEF Follows, Versions

\* The n-th version on its way is a version.
LEMMA WatchTypes == TypeInv => \A i \in 1 .. Len(watch) : watch[i] \in Versions
BY DEF TypeInv, TypeOK

\* An accepted write that follows the stored version extends the line.
LEMMA StoreLine ==
  ASSUME TypeInv, Line, NEW v \in Versions, Follows(v, server), Store(v), cache' = cache
  PROVE  Line'
<1>1. server \in Versions /\ cache \in Versions /\ watch \in Seq(Versions)
  BY DEF TypeInv, TypeOK
<1>2. /\ server' = v /\ Len(watch') = Len(watch) + 1 /\ Len(watch) \in Nat
      /\ \A i \in 1 .. Len(watch) : watch'[i] = watch[i]
      /\ watch'[Len(watch) + 1] = v
  BY <1>1 DEF Store
<1>3. Follows(v, cache) /\ \A i \in 1 .. Len(watch) : Follows(v, watch[i])
  BY <1>1, WatchTypes, FollowsTransitive DEF Line
<1>4. Follows(v, v)
  BY FollowsItself
<1>5. \A i \in 1 .. Len(watch') : Follows(watch'[i], cache) /\ Follows(v, watch'[i])
  BY <1>2, <1>3, <1>4 DEF Line
<1>6. \A i, j \in 1 .. Len(watch') : i <= j => Follows(watch'[j], watch'[i])
  BY <1>2, <1>3, <1>4 DEF Line
<1>7. watch' # <<>> /\ watch'[Len(watch')] = server'
  BY <1>1, <1>2
<1> QED BY <1>2, <1>3, <1>5, <1>6, <1>7 DEF Line

\* Delivering its first version keeps the line.
LEMMA DeliverLine ==
  ASSUME TypeInv, Line, Deliver
  PROVE  Line' /\ Follows(cache', cache) /\ Len(watch) >= 1 /\ cache' = watch[1]
         /\ Len(watch') = Len(watch) - 1
         /\ \A i \in 1 .. Len(watch') : watch'[i] = watch[i + 1]
<1>1. server \in Versions /\ cache \in Versions /\ watch \in Seq(Versions) /\ watch # <<>>
  BY DEF TypeInv, TypeOK, Deliver
<1>2. Len(watch) \in Nat /\ Len(watch) >= 1
  BY <1>1
<1>3. /\ cache' = watch[1] /\ Len(watch') = Len(watch) - 1 /\ server' = server
      /\ \A i \in 1 .. Len(watch') : watch'[i] = watch[i + 1]
  BY <1>1, <1>2 DEF Deliver
<1>4. \A i \in 1 .. Len(watch') : i + 1 \in 1 .. Len(watch)
  BY <1>2, <1>3
<1>5. 1 \in 1 .. Len(watch)
  BY <1>2
<1>6. \A i \in 1 .. Len(watch') : Follows(watch'[i], cache') /\ Follows(server', watch'[i])
  BY <1>2, <1>3, <1>4, <1>5 DEF Line
<1>7. \A i, j \in 1 .. Len(watch') : i <= j => Follows(watch'[j], watch'[i])
  BY <1>2, <1>3, <1>4 DEF Line
<1>8. Follows(server', cache') /\ Follows(cache', cache)
  BY <1>3, <1>5 DEF Line
<1>9. watch' = <<>> => cache' = server'
  <2>1. SUFFICES ASSUME watch' = <<>> PROVE cache' = server'
    OBVIOUS
  <2>2. Len(watch') = 0
    BY <2>1
  <2>3. Len(watch) = 1
    BY <1>2, <1>3, <2>2
  <2> QED BY <1>1, <1>3, <2>3 DEF Line
<1>10. watch' # <<>> => watch'[Len(watch')] = server'
  <2>1. SUFFICES ASSUME watch' # <<>> PROVE watch'[Len(watch')] = server'
    OBVIOUS
  <2>2. watch' \in Seq(Versions) /\ Len(watch') >= 1
    BY <1>1, <2>1 DEF Deliver
  <2> QED BY <1>1, <1>2, <1>3, <2>2 DEF Line
<1> QED BY <1>2, <1>3, <1>6, <1>7, <1>8, <1>9, <1>10 DEF Line

\* What the order of the line says of the copy.
LEMMA TypeFacts ==
  ASSUME TypeInv
  PROVE  /\ server \in Versions /\ cache \in Versions /\ appDef \in Versions
         /\ watch \in Seq(Versions) /\ Len(watch) \in Nat
         /\ \A i \in 1 .. Len(watch) : watch[i] \in Versions
         /\ \A c \in Components : workload[c].tmpl \in Nat
BY DEF TypeInv, TypeOK

\* Another client's write that keeps the finalizer, and removes the object only
\* without one, keeps the order.
LEMMA OtherOrder ==
  ASSUME TypeInv, OrderInv, NEW v \in Versions, StoreByOther(v),
         server.exists, Follows(v, server), v.fin = server.fin, v.exists \/ ~server.fin
  PROVE  OrderInv'
<1> USE TypeFacts DEF OrderInv
<1>1. Line'
  BY StoreLine DEF StoreByOther, Store
<1>2. Copy'
  BY DEF Copy, StoreByOther, Store
<1>3. Work'
  BY DEF Work, StoreByOther, Store
<1>4. ASSUME ~v.exists
      PROVE  Ended(cache) /\ \A i \in 1 .. Len(watch) : Ended(watch[i])
  BY <1>4 DEF Line, Follows, Ended
<1>5. Life'
  <2>1. pc' \in {"phase", "apply", "health", "status"} => server'.exists /\ server'.fin
    BY DEF Life, StoreByOther, Store
  <2>2. ~server'.exists => Ended(cache') /\ \A i \in 1 .. Len(watch') : Ended(watch'[i])
    BY <1>4 DEF StoreByOther, Store, Ended
  <2>3. FinalizerCoversWork'
    BY DEF Life, FinalizerCoversWork, StoreByOther, Store
  <2> QED BY <2>1, <2>2, <2>3 DEF Life
<1> QED BY <1>1, <1>2, <1>3, <1>5

\* The users' steps keep the order.
LEMMA OrderUsers ==
  ASSUME TypeInv, OrderInv, Users
  PROVE  OrderInv'
<1> USE TypeFacts
<1>1. CASE EditSpec
  <2>1. PICK s \in Specs, stamp \in Stamps \cap {"fresh", "kept", "unused"} :
          StoreByOther([server EXCEPT
            !.gen = @ + 1, !.spec = s, !.chg = IF stamp = "fresh" THEN @ + 1 ELSE @])
    BY <1>1 DEF EditSpec
  <2>2. s \in SpecRecords
    BY SpecsAssumption
  <2> DEFINE n == server.gen + 1
             m == IF stamp = "fresh" THEN server.chg + 1 ELSE server.chg
             v == [server EXCEPT !.gen = n, !.spec = s, !.chg = m]
  <2>3. n \in Nat /\ m \in Nat /\ n >= server.gen /\ m >= server.chg
    BY DEF Versions
  <2>4. v \in Versions
    BY <2>2, <2>3, EditTypes
  <2>5. /\ v.gen = n /\ v.chg = m /\ v.exists = server.exists
        /\ v.deleting = server.deleting /\ v.fin = server.fin
    BY DEF Versions
  <2>6. StoreByOther(v)
    BY <2>1
  <2>7. Follows(v, server) /\ v.fin = server.fin /\ (v.exists \/ ~server.fin) /\ server.exists
    BY <1>1, <2>3, <2>5 DEF Follows, EditSpec, MayWrite
  <2> HIDE DEF v
  <2> QED BY <2>4, <2>6, <2>7, OtherOrder
<1>2. CASE Restamp
  <2> DEFINE m == server.chg + 1
             v == [server EXCEPT !.chg = m]
  <2>a. m \in Nat /\ m >= server.chg
    BY DEF Versions
  <2> HIDE DEF m
  <2>b. v \in Versions
    BY <2>a DEF Versions
  <2>c. StoreByOther(v)
    BY <1>2 DEF Restamp, m
  <2>1. v \in Versions /\ StoreByOther(v)
    BY <2>b, <2>c
  <2>d. /\ v.gen = server.gen /\ v.chg = m /\ v.exists = server.exists
        /\ v.deleting = server.deleting /\ v.fin = server.fin
    BY DEF Versions
  <2>2. Follows(v, server) /\ v.fin = server.fin /\ (v.exists \/ ~server.fin) /\ server.exists
    BY <1>2, <2>a, <2>d DEF Follows, Versions, Restamp, MayWrite
  <2> HIDE DEF v
  <2> QED BY <2>1, <2>2, OtherOrder
<1>3. CASE DeleteObject
  <2> DEFINE v == [server EXCEPT !.deleting = TRUE, !.exists = @ /\ server.fin]
  <2>1. v \in Versions /\ StoreByOther(v)
    BY <1>3 DEF Versions, DeleteObject
  <2>2. Follows(v, server) /\ v.fin = server.fin /\ (v.exists \/ ~server.fin) /\ server.exists
    BY <1>3 DEF Follows, Versions, DeleteObject, MayWrite
  <2> HIDE DEF v
  <2> QED BY <2>1, <2>2, OtherOrder
<1> QED BY <1>1, <1>2, <1>3 DEF Users

\* The cluster's steps keep the order.
LEMMA OrderCluster ==
  ASSUME TypeInv, OrderInv, Cluster
  PROVE  OrderInv'
<1> USE TypeFacts DEF OrderInv
<1>1. CASE Deliver
  <2>1. Line
    OBVIOUS
  <2>2. /\ Line' /\ Follows(cache', cache) /\ Len(watch) >= 1 /\ cache' = watch[1]
        /\ Len(watch') = Len(watch) - 1
        /\ \A i \in 1 .. Len(watch') : watch'[i] = watch[i + 1]
    BY <1>1, <2>1, DeliverLine
  <2>3. 1 \in 1 .. Len(watch) /\ cache' \in Versions
    BY <2>2
  <2>4. /\ cache.gen <= cache'.gen /\ cache.chg <= cache'.chg
        /\ cache.deleting => cache'.deleting
    BY <2>2 DEF Follows
  <2>5. Copy'
    BY <1>1, <2>3, <2>4 DEF Deliver, Copy, localVars, Versions
  <2>6. Work'
    BY <1>1, <2>3, <2>4 DEF Deliver, Work, localVars, Versions
  <2>7. Life'
    <3>1. ASSUME ~server.exists
          PROVE  Ended(cache') /\ \A i \in 1 .. Len(watch') : Ended(watch'[i])
      BY <2>2, <2>3, <3>1 DEF Life
    <3>2. /\ pc' = pc /\ server' = server /\ workload' = workload
      BY <1>1 DEF Deliver
    <3> QED BY <3>1, <3>2 DEF Life, FinalizerCoversWork
  <2> QED BY <2>2, <2>5, <2>6, <2>7
<1>2. CASE CollectGarbage
  <2>1. Line' /\ Copy' /\ Life'
    BY <1>2 DEF CollectGarbage, apiVars, localVars, Line, Copy, Life, FinalizerCoversWork
  <2>2. Work'
    BY <1>2 DEF CollectGarbage, apiVars, localVars, Work, NoWorkload, Versions
  <2> QED BY <2>1, <2>2
<1>3. ASSUME NEW c \in Components, PodsReady(c) PROVE OrderInv'
  <2>1. \A d \in Components : workload'[d].tmpl = workload[d].tmpl
    BY <1>3 DEF PodsReady, TypeInv, TypeOK
  <2>2. Line' /\ Copy' /\ Work'
    BY <1>3, <2>1 DEF PodsReady, apiVars, localVars, Line, Copy, Work
  <2>3. workload[c] # NoWorkload
    BY <1>3 DEF PodsReady, NoWorkload
  <2>4. Life'
    BY <1>3, <2>3 DEF PodsReady, apiVars, localVars, Life, FinalizerCoversWork
  <2> QED BY <2>2, <2>4
<1> QED BY <1>1, <1>2, <1>3 DEF Cluster

\* A reconcile that ends without a write keeps the order.
LEMMA FinishOrder ==
  ASSUME TypeInv, OrderInv, apiVars' = apiVars, workload' = workload, pc' = "idle"
  PROVE  OrderInv'
BY DEF OrderInv, Line, Copy, Life, Work, FinalizerCoversWork, apiVars

\* So does one that ends with a write of the status.
LEMMA FinishStoreOrder ==
  ASSUME TypeInv, OrderInv, NEW t \in Statuses, Store([server EXCEPT !.status = t]),
         cache' = cache, workload' = workload, pc' = "idle"
  PROVE  OrderInv'
<1> DEFINE v == [server EXCEPT !.status = t]
<1>1. v \in Versions
  BY TypeFacts DEF Versions
<1>2. /\ v.gen = server.gen /\ v.chg = server.chg /\ v.exists = server.exists
      /\ v.deleting = server.deleting /\ v.fin = server.fin
  BY TypeFacts DEF Versions
<1>3. Follows(v, server)
  BY <1>2, TypeFacts, FollowsItself DEF Follows
<1>4. Store(v)
  OBVIOUS
<1> HIDE DEF v
<1>5. Line'
  BY <1>1, <1>3, <1>4, StoreLine DEF OrderInv
<1>6. Life'
  <2>1. ~server'.exists => Ended(cache') /\ \A i \in 1 .. Len(watch') : Ended(watch'[i])
    BY <1>2, <1>4, TypeFacts DEF Store, OrderInv, Life, Ended
  <2> QED BY <1>2, <1>4, <2>1 DEF Store, OrderInv, Life, FinalizerCoversWork
<1> QED BY <1>5, <1>6 DEF OrderInv, Copy, Work

\* Steps that go on with the same version under the finalizer keep the order.
LEMMA SameCopyOrder ==
  ASSUME TypeInv, OrderInv, apiVars' = apiVars, workload' = workload, current' = current,
         appDef'.gen = appDef.gen, appDef'.chg = appDef.chg,
         pc \in {"phase", "apply", "health", "status"},
         pc' \in {"phase", "apply", "health", "status"}
  PROVE  OrderInv'
BY DEF OrderInv, Line, Copy, Life, Work, FinalizerCoversWork, apiVars

\* Reconcile up to the decision to build keeps the order.
LEMMA OrderOpening ==
  ASSUME TypeInv, OrderInv,
         StartReconcile \/ AddFinalizer \/ RemoveFinalizer \/ SetInitialPhase
           \/ Conflict \/ UpdateNotFound \/ SkipReconcile
  PROVE  OrderInv'
<1> USE TypeFacts
<1>1. CASE StartReconcile
  <2>1. CASE ~cache.exists \/ (cache.deleting /\ ~cache.fin)
    BY <1>1, <2>1 DEF StartReconcile, OrderInv, Line, Copy, Life, Work, FinalizerCoversWork,
                      apiVars, localVars
  <2>2. CASE ~(~cache.exists \/ (cache.deleting /\ ~cache.fin))
    <3>1. /\ appDef' = cache /\ current' = (watch = <<>>)
          /\ pc' = IF cache.deleting THEN "removeFinalizer"
                   ELSE IF ~cache.fin THEN "addFinalizer" ELSE "phase"
          /\ apiVars' = apiVars /\ workload' = workload
      BY <1>1, <2>2 DEF StartReconcile, Refetch
    <3>2. Line' /\ Work'
      BY <3>1 DEF OrderInv, Line, Work, apiVars
    <3>a. watch = <<>> => cache = server
      BY DEF OrderInv, Line
    <3>b. current' => server.exists /\ cache = server
      BY <2>2, <3>1, <3>a
    <3>c. cache' = cache /\ server' = server /\ (pc' = "removeFinalizer" => cache.deleting)
      BY <3>1 DEF apiVars
    <3>3. Copy'
      BY <3>1, <3>b, <3>c DEF Copy, Versions
    <3>4. pc' = "phase" => server.exists /\ server.fin
      BY <2>2, <3>1 DEF OrderInv, Line, Life, Ended, Follows
    <3>5. Life'
      BY <3>1, <3>4 DEF OrderInv, Life, FinalizerCoversWork, apiVars
    <3> QED BY <3>2, <3>3, <3>5 DEF OrderInv
  <2> QED BY <2>1, <2>2
<1>2. CASE AddFinalizer
  <2> DEFINE v == [server EXCEPT !.fin = TRUE]
  <2>1. v \in Versions
    BY DEF Versions
  <2>2. /\ v.gen = server.gen /\ v.chg = server.chg /\ v.exists = server.exists
        /\ v.deleting = server.deleting /\ v.fin
    BY DEF Versions
  <2>3. Follows(v, server)
    BY <2>2 DEF Follows, Versions
  <2>4. /\ Store(v) /\ server' = v /\ appDef' = v /\ cache' = cache /\ workload' = workload
        /\ pc = "addFinalizer" /\ pc' = "phase" /\ current /\ current' = current
    BY <1>2 DEF AddFinalizer, Store
  <2> HIDE DEF v
  <2>5. Line'
    BY <2>1, <2>3, <2>4, StoreLine DEF OrderInv
  <2>6. server.exists /\ appDef.gen = server.gen /\ appDef.chg = server.chg
        /\ appDef.gen <= cache.gen /\ appDef.chg <= cache.chg
    BY <2>4 DEF OrderInv, Copy
  <2>7. Copy' /\ Work'
    BY <2>2, <2>4, <2>6 DEF OrderInv, Copy, Work
  <2>8. Life'
    BY <2>2, <2>4, <2>6 DEF Life, FinalizerCoversWork
  <2> QED BY <2>5, <2>7, <2>8 DEF OrderInv
<1>3. CASE RemoveFinalizer
  <2> DEFINE v == [server EXCEPT !.fin = FALSE, !.exists = FALSE]
  <2>1. v \in Versions
    BY DEF Versions
  <2>2. /\ v.gen = server.gen /\ v.chg = server.chg /\ ~v.exists
        /\ v.deleting = server.deleting /\ ~v.fin
    BY DEF Versions
  <2>3. Follows(v, server)
    BY <2>2 DEF Follows, Versions
  <2>4. /\ Store(v) /\ server' = v /\ watch' = Append(watch, v)
        /\ cache' = cache /\ workload' = workload
        /\ pc = "removeFinalizer" /\ pc' = "idle"
    BY <1>3 DEF RemoveFinalizer, Store, Finish
  <2> HIDE DEF v
  <2>5. Line'
    BY <2>1, <2>3, <2>4, StoreLine DEF OrderInv
  <2>6. cache.deleting
    BY <2>4 DEF OrderInv, Copy
  <2>7. Ended(cache) /\ \A i \in 1 .. Len(watch) : Ended(watch[i])
    BY <2>6 DEF OrderInv, Line, Follows, Ended
  <2>8. Life'
    BY <2>2, <2>4, <2>7 DEF Life, FinalizerCoversWork, Ended
  <2>9. Copy' /\ Work'
    BY <2>4 DEF OrderInv, Copy, Work
  <2> QED BY <2>5, <2>8, <2>9 DEF OrderInv
<1>4. CASE SetInitialPhase
  <2>1. [appDef.status EXCEPT !.phase = "Creating"] \in Statuses
    BY DEF Versions, Statuses, Phases
  <2> QED BY <1>4, <2>1, FinishStoreOrder DEF SetInitialPhase, Finish
<1>5. CASE Conflict
  <2>1. CASE cache.exists /\ attempt + 1 < MaxAttempts
    <3>1. Reapplied.gen = cache.gen /\ Reapplied.chg = cache.chg
      BY <1>5 DEF Conflict, Updating, Reapplied, Versions
    <3>2. /\ appDef' = Reapplied /\ current' = (watch = <<>>) /\ pc' = pc /\ pc # "idle"
          /\ apiVars' = apiVars /\ workload' = workload /\ server.exists
      BY <1>5, <2>1 DEF Conflict, Refetch, Updating
    <3>3. Line' /\ Life' /\ Work'
      BY <3>1, <3>2 DEF OrderInv, Line, Life, Work, FinalizerCoversWork, apiVars
    <3>a. watch = <<>> => cache = server
      BY DEF OrderInv, Line
    <3>b. current' => cache = server
      BY <3>2, <3>a
    <3>c. cache' = cache /\ server' = server /\ (pc' = "removeFinalizer" => cache.deleting)
      BY <3>2 DEF apiVars, OrderInv, Copy
    <3>d. appDef'.gen = cache.gen /\ appDef'.chg = cache.chg
      BY <3>1, <3>2
    <3>4. Copy'
      BY <3>2, <3>b, <3>c, <3>d DEF Copy, Versions
    <3> QED BY <3>3, <3>4 DEF OrderInv
  <2>2. CASE ~(cache.exists /\ attempt + 1 < MaxAttempts)
    BY <1>5, <2>2, FinishOrder DEF Conflict, Finish
  <2> QED BY <2>1, <2>2
<1>6. CASE UpdateNotFound
  BY <1>6, FinishOrder DEF UpdateNotFound, Finish
<1>7. CASE SkipReconcile
  BY <1>7, FinishOrder DEF SkipReconcile, Finish
<1> QED BY <1>1, <1>2, <1>3, <1>4, <1>5, <1>6, <1>7

\* Building keeps generation and change id of the copy.
LEMMA BuildCopy ==
  ASSUME TypeInv, BuildFails \/ Build
  PROVE  appDef'.gen = appDef.gen /\ appDef'.chg = appDef.chg
         /\ appDef'.spec = appDef.spec /\ appDef'.status.lcid = appDef.status.lcid
<1>1. ASSUME NEW v \in Versions, NEW w, NEW p, NEW f,
             w = [v EXCEPT !.status.phase = p, !.status.susp = f]
      PROVE  w.gen = v.gen /\ w.chg = v.chg /\ w.spec = v.spec /\ w.status.lcid = v.status.lcid
  <2>1. w.gen = v.gen /\ w.chg = v.chg /\ w.spec = v.spec
    BY <1>1 DEF Versions
  <2>2. w.status = [v.status EXCEPT !.phase = p, !.susp = f]
    BY <1>1 DEF Versions, Statuses
  <2>3. v.status \in Statuses
    BY DEF Versions
  <2>4. [v.status EXCEPT !.phase = p, !.susp = f].lcid = v.status.lcid
    BY <2>3 DEF Statuses
  <2> QED BY <2>1, <2>2, <2>4
<1>2. CASE BuildFails
  BY <1>2, TypeFacts DEF BuildFails, Versions, Statuses
<1>3. CASE Build /\ appDef.spec.suspend
  <2>1. appDef' = [appDef EXCEPT !.status.phase = "Suspended",
            !.status.susp = SuspendRecord(appDef.status.susp, appDef.spec.reps)]
    BY <1>3 DEF Build, handlePauseResume
  <2> DEFINE r == SuspendRecord(appDef.status.susp, appDef.spec.reps)
  <2> HIDE DEF r
  <2>2. appDef' = [appDef EXCEPT !.status.phase = "Suspended", !.status.susp = r]
    BY <2>1 DEF r
  <2> QED BY <1>1, <2>2, TypeFacts
<1>4. CASE Build /\ ~appDef.spec.suspend
  <2> DEFINE p == IF appDef.status.phase = "Suspended" THEN "Updating" ELSE appDef.status.phase
             r == ResumeRecord(appDef.status.susp, appDef.spec.reps)
  <2>1. appDef' = [appDef EXCEPT !.status.phase = p, !.status.susp = r]
    BY <1>4 DEF Build, handlePauseResume
  <2> HIDE DEF p, r
  <2> QED BY <1>1, <2>1, TypeFacts
<1> QED BY <1>2, <1>3, <1>4

\* Building the workloads keeps the order.
LEMMA OrderBuild ==
  ASSUME TypeInv, OrderInv, BuildPanics \/ BuildFails \/ Build
  PROVE  OrderInv'
<1>1. CASE BuildPanics
  BY <1>1, FinishOrder DEF BuildPanics, Finish
<1>2. CASE BuildFails
  BY <1>2, BuildCopy, SameCopyOrder DEF BuildFails, ReachesBuild
<1>3. CASE Build
  BY <1>3, BuildCopy, SameCopyOrder DEF Build, ReachesBuild
<1> QED BY <1>1, <1>2, <1>3

\* Applying, checking and reporting keep the order.
LEMMA OrderWork ==
  ASSUME TypeInv, OrderInv,
         \/ \E c \in Components : ApplyOne(c) \/ CheckOne(c) \/ ApplyFails(c) \/ CheckFails(c)
         \/ StartHealth \/ Conclude \/ StatusUnchanged \/ UpdateStatus
  PROVE  OrderInv'
<1> USE TypeFacts
<1>1. ASSUME NEW c \in Components, ApplyOne(c) PROVE OrderInv'
  <2>1. \A d \in Components : workload'[d].tmpl \in {workload[d].tmpl, appDef.gen}
    BY <1>1 DEF ApplyOne, TypeInv, TypeOK
  <2>2. Line' /\ Copy'
    BY <1>1 DEF ApplyOne, OrderInv, Line, Copy, apiVars
  <2>3. Work'
    BY <1>1, <2>1 DEF ApplyOne, OrderInv, Work, Copy, apiVars, Versions
  <2>4. Life'
    BY <1>1 DEF ApplyOne, OrderInv, Life, FinalizerCoversWork, apiVars
  <2> QED BY <2>2, <2>3, <2>4 DEF OrderInv
<1>2. ASSUME NEW c \in Components, CheckOne(c) PROVE OrderInv'
  BY <1>2, SameCopyOrder DEF CheckOne
<1>3. ASSUME NEW c \in Components, ApplyFails(c) PROVE OrderInv'
  BY <1>3, SameCopyOrder DEF ApplyFails
<1>4. ASSUME NEW c \in Components, CheckFails(c) PROVE OrderInv'
  BY <1>4, SameCopyOrder DEF CheckFails
<1>5. CASE StartHealth
  BY <1>5, SameCopyOrder DEF StartHealth
<1>6. CASE Conclude
  <2>1. appDef'.gen = appDef.gen /\ appDef'.chg = appDef.chg
    BY <1>6 DEF Conclude, Versions
  <2> QED BY <1>6, <2>1, SameCopyOrder DEF Conclude
<1>7. CASE StatusUnchanged
  BY <1>7, FinishOrder DEF StatusUnchanged, Finish
<1>8. CASE UpdateStatus
  <2>1. appDef.status \in Statuses
    BY DEF Versions
  <2> QED BY <1>8, <2>1, FinishStoreOrder DEF UpdateStatus, Finish
<1> QED BY <1>1, <1>2, <1>3, <1>4, <1>5, <1>6, <1>7, <1>8

\* The remaining faults keep the order.
LEMMA OrderFaults ==
  ASSUME TypeInv, OrderInv, CallFails \/ Restart \/ \E c \in Components : PodsFail(c)
  PROVE  OrderInv'
<1> USE TypeFacts
<1>1. CASE CallFails
  BY <1>1, FinishOrder DEF CallFails, Finish
<1>2. CASE Restart
  <2>1. /\ cache' = server /\ server' = server /\ watch' = <<>> /\ workload' = workload
        /\ pc' = "idle"
    BY <1>2 DEF Restart
  <2>2. Line'
    BY <2>1, FollowsItself DEF Line
  <2>3. Work'
    BY <2>1 DEF OrderInv, Work, Line, Follows, Versions
  <2>5. Life'
    BY <2>1 DEF OrderInv, Life, Ended, FinalizerCoversWork
  <2> QED BY <2>1, <2>2, <2>3, <2>5 DEF OrderInv, Copy
<1>3. ASSUME NEW c \in Components, PodsFail(c) PROVE OrderInv'
  <2>1. \A d \in Components : workload'[d].tmpl = workload[d].tmpl
    BY <1>3 DEF PodsFail, TypeInv, TypeOK
  <2>2. Line' /\ Copy' /\ Work'
    BY <1>3, <2>1 DEF PodsFail, apiVars, localVars, OrderInv, Line, Copy, Work
  <2>3. workload[c] # NoWorkload
    BY <1>3 DEF PodsFail, NoWorkload
  <2>4. Life'
    BY <1>3, <2>3 DEF PodsFail, apiVars, localVars, OrderInv, Life, FinalizerCoversWork
  <2> QED BY <2>2, <2>4 DEF OrderInv
<1> QED BY <1>1, <1>2, <1>3

\* Every step keeps the order.
LEMMA OrderStep == TypeInv /\ OrderInv /\ [Next]_vars => OrderInv'
<1> SUFFICES ASSUME TypeInv, OrderInv, [Next]_vars PROVE OrderInv'
  OBVIOUS
<1>1. CASE Users
  BY <1>1, OrderUsers
<1>2. CASE Cluster
  BY <1>2, OrderCluster
<1>3. CASE Reconcile
  BY <1>3, OrderOpening, OrderBuild, OrderWork DEF Reconcile
<1>4. CASE Faults
  BY <1>4, OrderWork, OrderFaults DEF Faults
<1>5. CASE UNCHANGED vars
  BY <1>5 DEF vars, apiVars, localVars, OrderInv, Line, Copy, Life, Work,
              FinalizerCoversWork
<1> QED BY <1>1, <1>2, <1>3, <1>4, <1>5 DEF Next

\* A fresh application is in order.
LEMMA OrderInit == Init => OrderInv
<1> SUFFICES ASSUME Init PROVE OrderInv
  OBVIOUS
<1>1. NewObject \in Versions
  BY InitialTypes
<1>2. server = NewObject /\ cache = NewObject /\ watch = <<>> /\ pc = "idle"
      /\ workload = [c \in Components |-> NoWorkload]
  BY DEF Init
<1>3. Line /\ Copy
  BY <1>1, <1>2, FollowsItself DEF Line, Copy
<1>4. NewObject.exists /\ NewObject.gen = 1
  BY DEF NewObject
<1>5. Life /\ Work
  BY <1>2, <1>4 DEF Life, Work, FinalizerCoversWork, NoWorkload
<1> QED BY <1>3, <1>5 DEF OrderInv

\* The invariant of every mode: versions keep their order from the server to
\* the workloads.
THEOREM OrderCorrect == Spec => [](TypeInv /\ OrderInv)
BY TypeInit, TypeStep, OrderInit, OrderStep, PTL DEF Spec

\* Deleting the object always passes through the cleanup of handleFinalizer:
\* no workload outlives a version without the finalizer.
THEOREM FinalizerCorrect == Spec => []FinalizerCoversWork
<1>1. OrderInv => FinalizerCoversWork
  BY DEF OrderInv, Life
<1> QED BY OrderCorrect, <1>1, PTL

\* Only applyResources and the garbage collector change the generation a
\* workload was built from.
LEMMA WorkloadStep ==
  ASSUME TypeInv, Next, ~CollectGarbage, NEW c \in Components
  PROVE  \/ workload'[c].tmpl = workload[c].tmpl
         \/ pc = "apply" /\ workload'[c].tmpl = appDef.gen
<1> USE DEF TypeInv, TypeOK
<1>1. CASE Users
  BY <1>1 DEF Users, EditSpec, Restamp, DeleteObject, StoreByOther
<1>2. CASE Cluster
  <2>1. CASE Deliver
    BY <2>1 DEF Deliver
  <2>2. ASSUME NEW d \in Components, PodsReady(d) PROVE workload'[c].tmpl = workload[c].tmpl
    BY <2>2 DEF PodsReady
  <2> QED BY <1>2, <2>1, <2>2 DEF Cluster
<1>3. CASE Reconcile
  <2>1. ASSUME NEW d \in Components, ApplyOne(d)
        PROVE  \/ workload'[c].tmpl = workload[c].tmpl
               \/ pc = "apply" /\ workload'[c].tmpl = appDef.gen
    BY <2>1 DEF ApplyOne
  <2>2. ASSUME NEW d \in Components, CheckOne(d) PROVE workload' = workload
    BY <2>2 DEF CheckOne
  <2>3. CASE StartReconcile \/ AddFinalizer \/ RemoveFinalizer \/ SetInitialPhase
               \/ Conflict \/ UpdateNotFound \/ SkipReconcile
    BY <2>3 DEF StartReconcile, AddFinalizer, RemoveFinalizer, SetInitialPhase, Conflict,
                UpdateNotFound, SkipReconcile
  <2>4. CASE BuildPanics \/ BuildFails \/ Build
    BY <2>4 DEF BuildPanics, BuildFails, Build
  <2>5. CASE StartHealth \/ Conclude \/ StatusUnchanged \/ UpdateStatus
    BY <2>5 DEF StartHealth, Conclude, StatusUnchanged, UpdateStatus
  <2> QED BY <1>3, <2>1, <2>2, <2>3, <2>4, <2>5 DEF Reconcile
<1>4. CASE Faults
  <2>1. ASSUME NEW d \in Components, ApplyFails(d) \/ CheckFails(d) PROVE workload' = workload
    BY <2>1 DEF ApplyFails, CheckFails
  <2>2. ASSUME NEW d \in Components, PodsFail(d) PROVE workload'[c].tmpl = workload[c].tmpl
    BY <2>2 DEF PodsFail
  <2>3. CASE CallFails \/ Restart
    BY <2>3 DEF CallFails, Restart
  <2> QED BY <1>4, <2>1, <2>2, <2>3 DEF Faults
<1> QED BY <1>1, <1>2, <1>3, <1>4 DEF Next

\* applyResources never puts an older generation over a newer one: what it
\* applies was read after everything applied before it.
THEOREM AppliedCorrect == Spec => AppliedNeverRegresses
<1> DEFINE Kept == \A c \in Components : server.exists => workload'[c].tmpl >= workload[c].tmpl
<1>1. TypeInv /\ OrderInv /\ [Next]_vars => [Kept]_vars
  <2> SUFFICES ASSUME TypeInv, OrderInv, Next, NEW c \in Components, server.exists
               PROVE  workload'[c].tmpl >= workload[c].tmpl
    OBVIOUS
  <2>1. workload[c].tmpl \in Nat /\ appDef.gen \in Nat
    BY DEF TypeInv, TypeOK, Versions
  <2>2. ~CollectGarbage
    BY DEF CollectGarbage
  <2>3. \/ workload'[c].tmpl = workload[c].tmpl
        \/ pc = "apply" /\ workload'[c].tmpl = appDef.gen
    BY <2>2, WorkloadStep
  <2>4. pc = "apply" => workload[c].tmpl <= appDef.gen
    BY DEF OrderInv, Work
  <2> QED BY <2>1, <2>3, <2>4
<1> QED BY OrderCorrect, <1>1, PTL DEF Spec, AppliedNeverRegresses

\* No reconcile of an object that is gone creates or changes a workload.
THEOREM NoWorkAfterGoneCorrect == Spec => NoWorkAfterGone
<1> DEFINE Left == \A c \in Components :
                     ~server.exists => workload'[c].tmpl \in {workload[c].tmpl, 0}
<1>1. TypeInv /\ OrderInv /\ [Next]_vars => [Left]_vars
  <2> SUFFICES ASSUME TypeInv, OrderInv, Next, NEW c \in Components, ~server.exists
               PROVE  workload'[c].tmpl \in {workload[c].tmpl, 0}
    OBVIOUS
  <2>1. pc # "apply"
    BY DEF OrderInv, Life
  <2>2. CASE CollectGarbage
    BY <2>2 DEF CollectGarbage, NoWorkload
  <2>3. CASE ~CollectGarbage
    BY <2>1, <2>3, WorkloadStep
  <2> QED BY <2>2, <2>3
<1> QED BY OrderCorrect, <1>1, PTL DEF Spec, NoWorkAfterGone

-----------------------------------------------------------------------------
(* Soundness of the fast path, for edits that bring a change id of their   *)
(* own.  What an lcid vouches for only changes with the server's change    *)
(* id, and then no recorded lcid names the new one.                        *)

\* Nothing is recorded of a fresh application.
LEMMA RecordInit == Init => RecordInv
<1> SUFFICES ASSUME Init PROVE RecordInv
  OBVIOUS
<1>1. /\ server = NewObject /\ cache = NewObject /\ watch = <<>> /\ pc = "idle"
      /\ firstError = FALSE
  BY DEF Init
<1>2. NewObject.status.lcid = 0 /\ NewObject.chg \in Nat
  BY InitialTypes DEF NewObject, NewStatus, Versions
<1>3. Identity /\ Applied
  BY <1>1 DEF Identity, Identified, Applied
<1>4. Records
  BY <1>1, <1>2 DEF Records, Recorded, Vouched
<1> QED BY <1>3, <1>4 DEF RecordInv

\* The versions after a write are those before it, and the one written.
LEMMA StoredVersions ==
  ASSUME TypeInv, NEW v \in Versions, Store(v)
  PROVE  /\ server' = v
         /\ \A i \in 1 .. Len(watch') :
              watch'[i] = v \/ (i \in 1 .. Len(watch) /\ watch'[i] = watch[i])
<1>1. watch \in Seq(Versions) /\ Len(watch) \in Nat
  BY TypeFacts
<1> QED BY <1>1 DEF Store

\* A write that leaves change id, generation and spec alone, and records an
\* lcid known already, keeps the records of a reconcile that then ends.
LEMMA FinishStoreRecord ==
  ASSUME TypeInv, RecordInv, NEW v \in Versions, Store(v), Recorded(v.status.lcid),
         v.exists => server.exists,
         v.chg = server.chg, v.gen = server.gen, v.spec = server.spec,
         cache' = cache, workload' = workload, pc' = "idle"
  PROVE  RecordInv'
<1>1. /\ server' = v
      /\ \A i \in 1 .. Len(watch') :
           watch'[i] = v \/ (i \in 1 .. Len(watch) /\ watch'[i] = watch[i])
  BY StoredVersions
<1>2. Identity'
  BY <1>1 DEF RecordInv, Identity, Identified
<1>3. ASSUME NEW l, Recorded(l) PROVE l <= cache'.chg /\ Vouched(l)'
  BY <1>1, <1>3 DEF Recorded, Vouched
<1>4. Recorded(server.status.lcid)' /\ Recorded(cache.status.lcid)'
  BY <1>1, <1>3 DEF RecordInv, Records, Recorded, Vouched
<1>5. \A i \in 1 .. Len(watch') : Recorded(watch[i].status.lcid)'
  BY <1>1, <1>3 DEF RecordInv, Records, Recorded, Vouched
<1> QED BY <1>2, <1>4, <1>5 DEF RecordInv, Records, Applied

\* A reconcile that ends without a write keeps the records.
LEMMA FinishRecord ==
  ASSUME RecordInv, apiVars' = apiVars, workload' = workload, pc' = "idle"
  PROVE  RecordInv'
BY DEF RecordInv, Identity, Identified, Records, Recorded, Vouched, Applied, apiVars

\* So does a step that goes on with a copy of the same identity.
LEMMA SameCopyRecord ==
  ASSUME RecordInv, apiVars' = apiVars, workload' = workload, pc # "idle", Applied',
         appDef'.gen = appDef.gen, appDef'.chg = appDef.chg, appDef'.spec = appDef.spec,
         appDef'.status.lcid = appDef.status.lcid
  PROVE  RecordInv'
<1>1. Identity'
  BY DEF RecordInv, Identity, Identified, apiVars
<1>2. Records'
  BY DEF RecordInv, Records, Recorded, Vouched, apiVars
<1> QED BY <1>1, <1>2 DEF RecordInv

\* Refetching turns the copy into a cached version.
LEMMA RefetchRecord ==
  ASSUME TypeInv, RecordInv, apiVars' = apiVars, workload' = workload,
         pc' \notin {"apply", "health"},
         appDef'.gen = cache.gen, appDef'.chg = cache.chg, appDef'.spec = cache.spec,
         Recorded(appDef'.status.lcid)
  PROVE  RecordInv'
<1>1. Identity'
  BY DEF RecordInv, Identity, Identified, apiVars
<1>2. Records'
  BY DEF RecordInv, Records, Recorded, Vouched, apiVars
<1> QED BY <1>1, <1>2 DEF RecordInv, Applied

\* A write by another client brings a new change id, or there is none yet, or
\* it leaves change id, generation, spec and status alone.
LEMMA OtherRecord ==
  ASSUME TypeInv, OrderInv, RecordInv, NEW v \in Versions, StoreByOther(v),
         server.exists, v.status = server.status,
         \/ v.chg > server.chg
         \/ v.chg = 0 /\ server.chg = 0
         \/ v.chg = server.chg /\ v.gen = server.gen /\ v.spec = server.spec
  PROVE  RecordInv'
<1> USE TypeFacts
<1>1. /\ server' = v /\ cache' = cache /\ workload' = workload /\ pc' = pc
      /\ appDef' = appDef /\ todo' = todo /\ firstError' = firstError
      /\ \A i \in 1 .. Len(watch') :
           watch'[i] = v \/ (i \in 1 .. Len(watch) /\ watch'[i] = watch[i])
  BY StoredVersions DEF StoreByOther
<1>2. /\ cache.chg <= server.chg /\ \A i \in 1 .. Len(watch) : watch[i].chg <= server.chg
      /\ pc # "idle" => appDef.chg <= server.chg
  <2>1. Line /\ Copy
    BY DEF OrderInv
  <2>2. cache.chg <= server.chg
    BY <2>1 DEF Line, Follows
  <2>3. \A i \in 1 .. Len(watch) : watch[i].chg <= server.chg
    BY <2>1 DEF Line, Follows
  <2>4. pc # "idle" => appDef.chg <= cache.chg
    BY <2>1 DEF Copy
  <2>5. appDef.chg \in Nat /\ cache.chg \in Nat /\ server.chg \in Nat
    BY DEF Versions
  <2> QED BY <2>2, <2>3, <2>4, <2>5
<1>3. Identity'
  <2>1. ASSUME NEW u \in Versions, u.chg <= server.chg, Identified(u) PROVE Identified(u)'
    BY <1>1, <2>1 DEF Identified, Versions
  <2>2. Identified(cache)' /\ (pc # "idle" => Identified(appDef)')
    BY <1>1, <1>2, <2>1 DEF RecordInv, Identity, Identified, Versions
  <2>3. ASSUME NEW i \in 1 .. Len(watch') PROVE Identified(watch[i])'
    <3>1. CASE watch'[i] = v
      BY <1>1, <3>1 DEF Identified
    <3>2. CASE i \in 1 .. Len(watch) /\ watch'[i] = watch[i]
      <4>1. Identified(watch[i]) /\ watch[i].chg <= server.chg /\ watch[i] \in Versions
        BY <1>2, <3>2 DEF RecordInv, Identity
      <4> QED BY <1>1, <3>2, <4>1 DEF Identified, Versions
    <3> QED BY <1>1, <3>1, <3>2
  <2> QED BY <1>1, <2>2, <2>3 DEF Identity
<1>4. ASSUME NEW l \in Nat, Recorded(l) PROVE Recorded(l)'
  <2>1. l <= server.chg
    BY <1>2, <1>4 DEF Recorded, Versions
  <2>2. Vouched(l)'
    BY <1>1, <1>4, <2>1 DEF Recorded, Vouched, Versions
  <2> QED BY <1>1, <1>4, <2>2 DEF Recorded
<1>5. Records'
  <2>1. \A u \in Versions : u.status.lcid \in Nat
    BY DEF Versions, Statuses
  <2>2. Recorded(server.status.lcid)' /\ Recorded(cache.status.lcid)'
    BY <1>1, <1>4, <2>1 DEF RecordInv, Records, Recorded, Vouched
  <2>3. \A i \in 1 .. Len(watch') : Recorded(watch[i].status.lcid)'
    BY <1>1, <1>4, <2>1 DEF RecordInv, Records, Recorded, Vouched
  <2>4. pc # "idle" => Recorded(appDef.status.lcid)'
    BY <1>1, <1>4, <2>1 DEF RecordInv, Records, Recorded, Vouched
  <2> QED BY <1>1, <2>2, <2>3, <2>4 DEF Records
<1>6. Applied'
  BY <1>1 DEF RecordInv, Applied
<1> QED BY <1>3, <1>5, <1>6 DEF RecordInv

\* Users' edits with fresh ids, restamps and deletions.
LEMMA RecordUsers ==
  ASSUME TypeInv, OrderInv, RecordInv, Users, "kept" \notin Stamps
  PROVE  RecordInv'
<1> USE TypeFacts
<1>1. CASE EditSpec
  <2>1. PICK s \in Specs, stamp \in Stamps \cap {"fresh", "kept", "unused"} :
          /\ stamp = "unused" => server.chg = 0
          /\ StoreByOther([server EXCEPT
               !.gen = @ + 1, !.spec = s, !.chg = IF stamp = "fresh" THEN @ + 1 ELSE @])
    BY <1>1 DEF EditSpec
  <2>2. s \in SpecRecords /\ stamp \in {"fresh", "unused"} /\ server.chg \in Nat
    BY <2>1, SpecsAssumption DEF Versions
  <2> DEFINE n == server.gen + 1
             m == IF stamp = "fresh" THEN server.chg + 1 ELSE server.chg
             v == [server EXCEPT !.gen = n, !.spec = s, !.chg = m]
  <2>3. n \in Nat /\ m \in Nat /\ (m > server.chg \/ (m = 0 /\ server.chg = 0))
    BY <2>1, <2>2 DEF Versions
  <2>4. StoreByOther(v)
    BY <2>1
  <2> HIDE DEF n, m
  <2>5. v \in Versions
    BY <2>2, <2>3, EditTypes
  <2>6. v.chg = m /\ v.status = server.status
    BY DEF Versions
  <2> HIDE DEF v
  <2> QED BY <1>1, <2>3, <2>4, <2>5, <2>6, OtherRecord DEF EditSpec, MayWrite
<1>2. CASE Restamp
  <2> DEFINE m == server.chg + 1
             v == [server EXCEPT !.chg = m]
  <2>1. m \in Nat /\ m > server.chg
    BY DEF Versions
  <2>2. StoreByOther(v)
    BY <1>2 DEF Restamp
  <2> HIDE DEF m
  <2>3. v \in Versions /\ v.chg = m /\ v.status = server.status
    BY <2>1 DEF Versions
  <2> HIDE DEF v
  <2> QED BY <1>2, <2>1, <2>2, <2>3, OtherRecord DEF Restamp, MayWrite
<1>3. CASE DeleteObject
  <2> DEFINE v == [server EXCEPT !.deleting = TRUE, !.exists = @ /\ server.fin]
  <2>1. v \in Versions /\ StoreByOther(v)
    BY <1>3 DEF Versions, DeleteObject
  <2>2. v.chg = server.chg /\ v.gen = server.gen /\ v.spec = server.spec
        /\ v.status = server.status
    BY DEF Versions
  <2> HIDE DEF v
  <2> QED BY <1>3, <2>1, <2>2, OtherRecord DEF DeleteObject, MayWrite
<1> QED BY <1>1, <1>2, <1>3 DEF Users

\* Steps that change the readiness of workloads only.
LEMMA ReadinessRecord ==
  ASSUME RecordInv, apiVars' = apiVars, pc' = pc, localVars' = localVars,
         \A c \in Components : workload'[c].tmpl = workload[c].tmpl,
         server \in Versions, appDef \in Versions
  PROVE  RecordInv'
<1>1. Named(server.spec.reps) \subseteq Components /\ Named(appDef.spec.reps) \subseteq Components
  BY DEF Named
<1>2. Identity'
  BY DEF RecordInv, Identity, Identified, apiVars, localVars
<1>3. Records'
  BY <1>1 DEF RecordInv, Records, Recorded, Vouched, apiVars, localVars
<1>4. Applied'
  BY <1>1 DEF RecordInv, Applied, apiVars, localVars
<1> QED BY <1>2, <1>3, <1>4 DEF RecordInv

\* The cluster's steps keep the records.
LEMMA RecordCluster ==
  ASSUME TypeInv, OrderInv, RecordInv, Cluster
  PROVE  RecordInv'
<1> USE TypeFacts
<1>1. CASE Deliver
  <2>1. /\ Follows(cache', cache) /\ Len(watch) >= 1 /\ cache' = watch[1]
        /\ Len(watch') = Len(watch) - 1
        /\ \A i \in 1 .. Len(watch') : watch'[i] = watch[i + 1]
    BY <1>1, DeliverLine DEF OrderInv
  <2>2. /\ server' = server /\ workload' = workload /\ pc' = pc /\ localVars' = localVars
        /\ cache.chg <= cache'.chg /\ 1 \in 1 .. Len(watch)
        /\ \A i \in 1 .. Len(watch') : i + 1 \in 1 .. Len(watch)
    BY <1>1, <2>1 DEF Deliver, Follows
  <2>3. cache' \in Versions
    BY <2>1, <2>2
  <2>4. Identity'
    BY <2>1, <2>2 DEF RecordInv, Identity, Identified, localVars
  <2>5. ASSUME NEW l \in Nat, Recorded(l) PROVE Recorded(l)'
    BY <2>2, <2>3, <2>5 DEF Recorded, Vouched, Versions, localVars
  <2>6. Records'
    <3>1. \A u \in Versions : u.status.lcid \in Nat
      BY DEF Versions, Statuses
    <3>2. Recorded(server.status.lcid)' /\ Recorded(cache.status.lcid)'
      BY <2>1, <2>2, <2>3, <2>5, <3>1 DEF RecordInv, Records, Recorded, Vouched
    <3>3. \A i \in 1 .. Len(watch') : Recorded(watch[i].status.lcid)'
      BY <2>1, <2>2, <2>5, <3>1 DEF RecordInv, Records, Recorded, Vouched
    <3>4. pc # "idle" => Recorded(appDef.status.lcid)'
      BY <2>2, <2>5, <3>1 DEF RecordInv, Records, Recorded, Vouched, localVars
    <3> QED BY <2>2, <3>2, <3>3, <3>4 DEF Records
  <2>7. Applied'
    BY <2>2 DEF RecordInv, Applied, localVars
  <2> QED BY <2>4, <2>6, <2>7 DEF RecordInv
<1>2. CASE CollectGarbage
  BY <1>2 DEF CollectGarbage, apiVars, localVars, RecordInv, Identity, Identified, Records,
              Recorded, Vouched, Applied
<1>3. ASSUME NEW c \in Components, PodsReady(c) PROVE RecordInv'
  <2>1. \A d \in Components : workload'[d].tmpl = workload[d].tmpl
    BY <1>3 DEF PodsReady, TypeInv, TypeOK
  <2> QED BY <1>3, <2>1, ReadinessRecord DEF PodsReady
<1> QED BY <1>1, <1>2, <1>3 DEF Cluster

\* Reconcile up to the decision to build.
LEMMA RecordOpening ==
  ASSUME TypeInv, OrderInv, RecordInv,
         StartReconcile \/ AddFinalizer \/ RemoveFinalizer \/ SetInitialPhase
           \/ Conflict \/ UpdateNotFound \/ SkipReconcile
  PROVE  RecordInv'
<1> USE TypeFacts
<1>1. CASE StartReconcile
  <2>1. CASE ~cache.exists \/ (cache.deleting /\ ~cache.fin)
    BY <1>1, <2>1, FinishRecord DEF StartReconcile
  <2>2. CASE ~(~cache.exists \/ (cache.deleting /\ ~cache.fin))
    <3>1. /\ appDef' = cache /\ pc' \in {"removeFinalizer", "addFinalizer", "phase"}
          /\ apiVars' = apiVars /\ workload' = workload
      BY <1>1, <2>2 DEF StartReconcile, Refetch
    <3>2. Recorded(cache.status.lcid)
      BY DEF RecordInv, Records
    <3> QED BY <3>1, <3>2, RefetchRecord
  <2> QED BY <2>1, <2>2
<1>2. CASE AddFinalizer
  <2> DEFINE v == [server EXCEPT !.fin = TRUE]
  <2>1. /\ v \in Versions /\ v.gen = server.gen /\ v.chg = server.chg /\ v.spec = server.spec
        /\ v.exists = server.exists /\ v.status = server.status
    BY DEF Versions
  <2>2. /\ Store(v) /\ appDef' = v /\ cache' = cache /\ workload' = workload /\ pc' = "phase"
    BY <1>2 DEF AddFinalizer, Store
  <2> HIDE DEF v
  <2>3. /\ server' = v
        /\ \A i \in 1 .. Len(watch') :
             watch'[i] = v \/ (i \in 1 .. Len(watch) /\ watch'[i] = watch[i])
    BY <2>1, <2>2, StoredVersions
  <2>4. cache.chg <= server.chg
    BY DEF OrderInv, Line, Follows
  <2>5. Identity'
    BY <2>1, <2>2, <2>3 DEF RecordInv, Identity, Identified
  <2>6. ASSUME NEW l \in Nat, Recorded(l) PROVE Recorded(l)'
    BY <2>1, <2>2, <2>3, <2>4, <2>6 DEF Recorded, Vouched, Versions
  <2>7. Records'
    <3>1. \A u \in Versions : u.status.lcid \in Nat
      BY DEF Versions, Statuses
    <3>2. /\ Recorded(server.status.lcid)' /\ Recorded(cache.status.lcid)'
          /\ Recorded(appDef.status.lcid)'
      BY <2>1, <2>2, <2>3, <2>6, <3>1 DEF RecordInv, Records, Recorded, Vouched
    <3>3. \A i \in 1 .. Len(watch') : Recorded(watch[i].status.lcid)'
      BY <2>1, <2>2, <2>3, <2>6, <3>1 DEF RecordInv, Records, Recorded, Vouched
    <3> QED BY <3>2, <3>3 DEF Records
  <2> QED BY <2>2, <2>5, <2>7 DEF RecordInv, Applied
<1>3. CASE RemoveFinalizer
  <2> DEFINE v == [server EXCEPT !.fin = FALSE, !.exists = FALSE]
  <2>1. /\ v \in Versions /\ v.gen = server.gen /\ v.chg = server.chg /\ v.spec = server.spec
        /\ ~v.exists /\ v.status = server.status
    BY DEF Versions
  <2>2. Store(v) /\ cache' = cache /\ workload' = workload /\ pc' = "idle"
    BY <1>3 DEF RemoveFinalizer, Finish
  <2>3. Recorded(server.status.lcid)
    BY DEF RecordInv, Records
  <2> HIDE DEF v
  <2> QED BY <2>1, <2>2, <2>3, FinishStoreRecord
<1>4. CASE SetInitialPhase
  <2> DEFINE t == [appDef.status EXCEPT !.phase = "Creating"]
             v == [server EXCEPT !.status = t]
  <2>1. appDef.status \in Statuses /\ t.lcid = appDef.status.lcid /\ t \in Statuses
    BY DEF Versions, Statuses, Phases
  <2> HIDE DEF t
  <2>2. /\ v \in Versions /\ v.gen = server.gen /\ v.chg = server.chg /\ v.spec = server.spec
        /\ v.exists = server.exists /\ v.status = t
    BY <2>1 DEF Versions
  <2>3. Store(v) /\ cache' = cache /\ workload' = workload /\ pc' = "idle"
    BY <1>4 DEF SetInitialPhase, Finish, t
  <2>4. Recorded(appDef.status.lcid)
    BY <1>4 DEF RecordInv, Records, SetInitialPhase
  <2> HIDE DEF v
  <2> QED BY <2>1, <2>2, <2>3, <2>4, FinishStoreRecord
<1>5. CASE Conflict
  <2>1. CASE cache.exists /\ attempt + 1 < MaxAttempts
    <3>1. /\ appDef' = Reapplied /\ pc' = pc /\ apiVars' = apiVars /\ workload' = workload
          /\ pc \in {"addFinalizer", "removeFinalizer", "phase", "status"}
      BY <1>5, <2>1 DEF Conflict, Refetch, Updating
    <3>2. /\ Reapplied.gen = cache.gen /\ Reapplied.chg = cache.chg
          /\ Reapplied.spec = cache.spec
          /\ Reapplied.status.lcid \in {cache.status.lcid, appDef.status.lcid}
      BY <3>1 DEF Reapplied, Versions, Statuses
    <3>3. Recorded(cache.status.lcid) /\ Recorded(appDef.status.lcid)
      BY <3>1 DEF RecordInv, Records
    <3> QED BY <3>1, <3>2, <3>3, RefetchRecord
  <2>2. CASE ~(cache.exists /\ attempt + 1 < MaxAttempts)
    BY <1>5, <2>2, FinishRecord DEF Conflict, Finish
  <2> QED BY <2>1, <2>2
<1>6. CASE UpdateNotFound
  BY <1>6, FinishRecord DEF UpdateNotFound, Finish
<1>7. CASE SkipReconcile
  BY <1>7, FinishRecord DEF SkipReconcile, Finish
<1> QED BY <1>1, <1>2, <1>3, <1>4, <1>5, <1>6, <1>7

\* Building starts with every component still to apply.
LEMMA RecordBuild ==
  ASSUME TypeInv, OrderInv, RecordInv, BuildPanics \/ BuildFails \/ Build
  PROVE  RecordInv'
<1>1. CASE BuildPanics
  BY <1>1, FinishRecord DEF BuildPanics, Finish
<1>2. CASE BuildFails
  <2>1. Applied'
    BY <1>2 DEF BuildFails, Applied
  <2> QED BY <1>2, <2>1, BuildCopy, SameCopyRecord DEF BuildFails, ReachesBuild
<1>3. CASE Build
  <2>1. Applied'
    BY <1>3, BuildCopy DEF Build, Applied
  <2> QED BY <1>3, <2>1, BuildCopy, SameCopyRecord DEF Build, ReachesBuild
<1> QED BY <1>1, <1>2, <1>3

\* Applying a component brings it to the generation that was read: if that one
\* carries the server's change id, it is the server's generation.
LEMMA RecordApply ==
  ASSUME TypeInv, OrderInv, RecordInv, NEW c \in Components, ApplyOne(c)
  PROVE  RecordInv'
<1> USE TypeFacts
<1>1. /\ apiVars' = apiVars /\ pc = "apply" /\ pc' = pc /\ appDef' = appDef
      /\ firstError' = firstError /\ todo' = todo \ {c}
  BY DEF ApplyOne
<1>2. /\ workload'[c].tmpl = appDef.gen
      /\ \A d \in Components : d # c => workload'[d] = workload[d]
  BY DEF ApplyOne, TypeInv, TypeOK
<1>3. appDef.chg <= cache.chg /\ cache.chg <= server.chg
  BY <1>1 DEF OrderInv, Line, Copy, Follows
<1>4. Identified(appDef)
  BY <1>1 DEF RecordInv, Identity
<1>5. ASSUME NEW l \in Nat, Recorded(l) PROVE Recorded(l)'
  <2>1. l <= appDef.chg
    BY <1>1, <1>5 DEF Recorded
  <2>2. l # 0 /\ l = server.chg => appDef.gen = server.gen
    BY <1>3, <1>4, <2>1 DEF Identified, Versions
  <2>3. Named(server.spec.reps) \subseteq Components
    BY DEF Named
  <2>4. Vouched(l)'
    BY <1>1, <1>2, <1>5, <2>2, <2>3 DEF Recorded, Vouched, apiVars
  <2> QED BY <1>1, <1>5, <2>4 DEF Recorded, apiVars
<1>6. Identity'
  BY <1>1 DEF RecordInv, Identity, Identified, apiVars
<1>7. Records'
  <2>1. \A u \in Versions : u.status.lcid \in Nat
    BY DEF Versions, Statuses
  <2>2. /\ Recorded(server.status.lcid)' /\ Recorded(cache.status.lcid)'
        /\ Recorded(appDef.status.lcid)'
    BY <1>1, <1>5, <2>1 DEF RecordInv, Records, Recorded, Vouched, apiVars
  <2>3. \A i \in 1 .. Len(watch') : Recorded(watch[i].status.lcid)'
    BY <1>1, <1>5, <2>1 DEF RecordInv, Records, Recorded, Vouched, apiVars
  <2> QED BY <2>2, <2>3 DEF Records
<1>8. Applied'
  <2>1. Named(appDef.spec.reps) \subseteq Components
    BY DEF Named
  <2> QED BY <1>1, <1>2, <2>1 DEF RecordInv, Applied, apiVars
<1> QED BY <1>6, <1>7, <1>8 DEF RecordInv

\* Concluding records the change id of a version applied in full.
LEMMA RecordConclude ==
  ASSUME TypeInv, OrderInv, RecordInv, Conclude
  PROVE  RecordInv'
<1> USE TypeFacts
<1>1. /\ apiVars' = apiVars /\ workload' = workload /\ pc = "health" /\ pc' = "status"
      /\ appDef' = [appDef EXCEPT !.status = ConcludedStatus]
  BY DEF Conclude
<1>2. /\ appDef'.gen = appDef.gen /\ appDef'.chg = appDef.chg /\ appDef'.spec = appDef.spec
      /\ appDef'.status = ConcludedStatus
  BY <1>1 DEF Versions
<1>3. \/ ConcludedStatus.lcid = appDef.status.lcid
      \/ ~firstError /\ ConcludedStatus.lcid = appDef.chg
  BY DEF ConcludedStatus, Versions, Statuses
<1>4. ~firstError => Vouched(appDef.chg)
  BY <1>1 DEF RecordInv, Identity, Identified, Applied, Vouched
<1>5. Vouched(ConcludedStatus.lcid) /\ ConcludedStatus.lcid <= appDef.chg
      /\ ConcludedStatus.lcid <= cache.chg
  <2>1. Vouched(appDef.status.lcid) /\ appDef.status.lcid <= appDef.chg
        /\ appDef.status.lcid <= cache.chg
    BY <1>1 DEF RecordInv, Records, Recorded
  <2>2. appDef.chg <= cache.chg /\ appDef.chg <= appDef.chg
    BY <1>1 DEF OrderInv, Copy, Versions
  <2> QED BY <1>3, <1>4, <2>1, <2>2
<1>6. Identity'
  BY <1>1, <1>2 DEF RecordInv, Identity, Identified, apiVars
<1>7. Records'
  BY <1>1, <1>2, <1>5 DEF RecordInv, Records, Recorded, Vouched, apiVars
<1>8. Applied'
  BY <1>1 DEF Applied
<1> QED BY <1>6, <1>7, <1>8 DEF RecordInv

\* Applying, checking and reporting keep the records.
LEMMA RecordWork ==
  ASSUME TypeInv, OrderInv, RecordInv,
         \/ \E c \in Components : ApplyOne(c) \/ CheckOne(c) \/ ApplyFails(c) \/ CheckFails(c)
         \/ StartHealth \/ Conclude \/ StatusUnchanged \/ UpdateStatus
  PROVE  RecordInv'
<1> USE TypeFacts
<1>1. ASSUME NEW c \in Components, CheckOne(c) PROVE RecordInv'
  <2>1. Applied'
    BY <1>1 DEF CheckOne, RecordInv, Applied, apiVars
  <2> QED BY <1>1, <2>1, SameCopyRecord DEF CheckOne
<1>2. ASSUME NEW c \in Components, ApplyFails(c) PROVE RecordInv'
  <2>1. Applied'
    BY <1>2 DEF ApplyFails, Applied
  <2> QED BY <1>2, <2>1, SameCopyRecord DEF ApplyFails
<1>3. ASSUME NEW c \in Components, CheckFails(c) PROVE RecordInv'
  <2>1. Applied'
    BY <1>3 DEF CheckFails, Applied
  <2> QED BY <1>3, <2>1, SameCopyRecord DEF CheckFails
<1>4. CASE StartHealth
  <2>1. Applied'
    BY <1>4 DEF StartHealth, RecordInv, Applied, apiVars
  <2> QED BY <1>4, <2>1, SameCopyRecord DEF StartHealth
<1>5. CASE StatusUnchanged
  BY <1>5, FinishRecord DEF StatusUnchanged, Finish
<1>6. CASE UpdateStatus
  <2> DEFINE v == [server EXCEPT !.status = appDef.status]
  <2>1. /\ v \in Versions /\ v.gen = server.gen /\ v.chg = server.chg /\ v.spec = server.spec
        /\ v.exists = server.exists /\ v.status = appDef.status
    BY DEF Versions
  <2>2. Store(v) /\ cache' = cache /\ workload' = workload /\ pc' = "idle"
    BY <1>6 DEF UpdateStatus, Finish
  <2>3. Recorded(appDef.status.lcid)
    BY <1>6 DEF RecordInv, Records, UpdateStatus
  <2> HIDE DEF v
  <2> QED BY <2>1, <2>2, <2>3, FinishStoreRecord
<1> QED BY <1>1, <1>2, <1>3, <1>4, <1>5, <1>6, RecordApply, RecordConclude

\* The remaining faults keep the records.
LEMMA RecordFaults ==
  ASSUME TypeInv, OrderInv, RecordInv, CallFails \/ Restart \/ \E c \in Components : PodsFail(c)
  PROVE  RecordInv'
<1> USE TypeFacts
<1>1. CASE CallFails
  BY <1>1, FinishRecord DEF CallFails, Finish
<1>2. CASE Restart
  <2>1. /\ server' = server /\ cache' = server /\ watch' = <<>> /\ workload' = workload
        /\ pc' = "idle" /\ cache.chg <= server.chg
    BY <1>2 DEF Restart, OrderInv, Line, Follows
  <2>2. Identity' /\ Applied'
    BY <2>1 DEF Identity, Identified, Applied
  <2>3. server.status.lcid \in Nat
    BY DEF Versions, Statuses
  <2>4. Recorded(server.status.lcid)
    BY DEF RecordInv, Records
  <2>5. Records'
    BY <2>1, <2>3, <2>4 DEF Records, Recorded, Vouched, Versions
  <2> QED BY <2>2, <2>5 DEF RecordInv
<1>3. ASSUME NEW c \in Components, PodsFail(c) PROVE RecordInv'
  <2>1. \A d \in Components : workload'[d].tmpl = workload[d].tmpl
    BY <1>3 DEF PodsFail, TypeInv, TypeOK
  <2> QED BY <1>3, <2>1, ReadinessRecord DEF PodsFail
<1> QED BY <1>1, <1>2, <1>3

\* Every step keeps the records, if every edit has a change id of its own.
LEMMA RecordStep ==
  ASSUME "kept" \notin Stamps
  PROVE  TypeInv /\ OrderInv /\ RecordInv /\ [Next]_vars => RecordInv'
<1> SUFFICES ASSUME TypeInv, OrderInv, RecordInv, [Next]_vars PROVE RecordInv'
  OBVIOUS
<1>1. CASE Users
  BY <1>1, RecordUsers
<1>2. CASE Cluster
  BY <1>2, RecordCluster
<1>3. CASE Reconcile
  BY <1>3, RecordOpening, RecordBuild, RecordWork DEF Reconcile
<1>4. CASE Faults
  BY <1>4, RecordWork, RecordFaults DEF Faults
<1>5. CASE UNCHANGED vars
  BY <1>5, ReadinessRecord, TypeFacts DEF vars
<1> QED BY <1>1, <1>2, <1>3, <1>4, <1>5 DEF Next

\* When every edit of the spec brings a change id of its own, a recorded id
\* vouches for the spec that carries it: in the store, in every version still
\* to be read and in the copy Reconcile works on.
THEOREM RecordCorrect ==
  ASSUME "kept" \notin Stamps
  PROVE  Spec => [](TypeInv /\ OrderInv /\ RecordInv)
BY TypeInit, TypeStep, OrderInit, OrderStep, RecordInit, RecordStep, PTL DEF Spec

\* When every edit of the spec brings a change id of its own, the fast path
\* skips a version only after all of it has been applied, whatever the age of
\* the reads and wherever calls fail, conflict or the operator dies.
THEOREM FastPathCorrect ==
  ASSUME "kept" \notin Stamps
  PROVE  Spec => []FastPathSound
<1>1. RecordInv => FastPathSound
  BY DEF RecordInv, Records, Recorded, Vouched, FastPathSound, FastPath
<1> QED BY <1>1, RecordCorrect, PTL

=============================================================================
