-------------------------- MODULE AppContractProofs --------------------------
(***************************************************************************)
(* The reconcile loop implements AppContract, and what the webhook is told *)
(* of an application is true; for all components, specs and bounds, when   *)
(* every edit brings a change id of its own.                               *)
(*                                                                         *)
(* A step that leaves the server's object and the generations of the       *)
(* workloads alone is a stutter of the contract; what the others do        *)
(* follows from the order of the versions and from what recorded change    *)
(* ids vouch for.  An id whose success was reported vouches for its spec   *)
(* exactly as a recorded one does, although it may never be saved.         *)
(***************************************************************************)
EXTENDS AppRefinement, AppReports, AppReconcileProofs

(* The contract. *)

\* The contract's variables under the refinement mapping.
Built == [c \in Components |-> workload[c].tmpl]
Done  == server.exists /\ FastPath(server)

\* Nothing the contract speaks of changes.
LEMMA Stutters ==
  ASSUME server' = server \/ (/\ server'.exists = server.exists /\ server'.gen = server.gen
                              /\ server'.spec = server.spec /\ Done' = Done),
         Built' = Built
  PROVE  UNCHANGED Contract!vars
BY DEF Contract!vars, Built, Done, FastPath

\* The generations of the workloads stand when each of them does.
LEMMA BuiltKept ==
  ASSUME \A c \in Components : workload'[c].tmpl = workload[c].tmpl
  PROVE  Built' = Built
BY DEF Built

\* A recorded id is no newer than the server's.
LEMMA RecordedIsOld ==
  ASSUME TypeInv, OrderInv, RecordInv
  PROVE  server.status.lcid <= server.chg
<1>1. server.status.lcid <= cache.chg /\ cache.chg <= server.chg
  BY DEF RecordInv, Records, Recorded, OrderInv, Line, Follows
<1> QED BY <1>1, TypeFacts DEF Versions, Statuses

\* A fresh application fulfils the contract.
LEMMA ContractInit == Init => Contract!Init
<1> SUFFICES ASSUME Init PROVE Contract!Init
  OBVIOUS
<1>1. server = NewObject /\ workload = [c \in Components |-> NoWorkload]
  BY DEF Init
<1>2. /\ NewObject.exists = TRUE /\ NewObject.gen = 1
      /\ NewObject.status.phase = ""
  BY DEF NewObject, NewStatus
<1>3. Named(server.spec.reps) \subseteq Components
  BY DEF Named
<1>4. [c \in Components |-> workload[c].tmpl] = [c \in Components |-> 0]
  BY <1>1 DEF NoWorkload
<1>5. (server.exists /\ FastPath(server)) = FALSE
  BY <1>1, <1>2 DEF FastPath
<1> QED BY <1>1, <1>2, <1>3, <1>4, <1>5 DEF Contract!Init

\* An edit is a request; a restamp makes the operator look again; a deletion
\* removes the application if it has no finalizer.
LEMMA ContractUsers ==
  ASSUME TypeInv, OrderInv, RecordInv, Users, "kept" \notin Stamps
  PROVE  [Contract!Next]_(Contract!vars)
<1> server \in Versions /\ server.chg \in Nat /\ server.gen \in Nat
     /\ server.status.lcid \in Nat /\ server.status.lcid <= server.chg
  BY TypeFacts, RecordedIsOld DEF Versions, Statuses
<1>1. CASE EditSpec
  <2>1. PICK s \in Specs, stamp \in Stamps \cap {"fresh", "kept", "unused"} :
          /\ stamp = "unused" => server.chg = 0
          /\ StoreByOther([server EXCEPT
               !.gen = @ + 1, !.spec = s, !.chg = IF stamp = "fresh" THEN @ + 1 ELSE @])
    BY <1>1 DEF EditSpec
  <2>2. stamp \in {"fresh", "unused"} /\ workload' = workload
    BY <2>1 DEF StoreByOther
  <2>3. /\ server'.gen = server.gen + 1 /\ server'.exists = server.exists
        /\ server'.status = server.status
        /\ server'.chg = server.chg + 1 \/ (server'.chg = 0 /\ server.chg = 0)
    BY <2>1, <2>2 DEF StoreByOther, Store, Versions
  <2>4. ~FastPath(server')
    BY <2>3 DEF FastPath
  <2>5. Named(server'.spec.reps) \in SUBSET Components
    BY DEF Named
  <2>6. server.exists
    BY <1>1 DEF EditSpec, MayWrite
  <2>7. Contract!Request
    BY <2>2, <2>3, <2>4, <2>5, <2>6 DEF Contract!Request
  <2> QED BY <2>7 DEF Contract!Next
<1>2. CASE Restamp
  <2>1. /\ server' = [server EXCEPT !.chg = @ + 1] /\ workload' = workload
    BY <1>2 DEF Restamp, StoreByOther, Store
  <2>2. /\ server'.gen = server.gen /\ server'.exists = server.exists
        /\ server'.status = server.status /\ server'.spec = server.spec
        /\ server'.chg = server.chg + 1
    BY <2>1 DEF Versions
  <2>3. ~FastPath(server')
    BY <2>2 DEF FastPath
  <2>4. Contract!Reconsider
    BY <2>1, <2>2, <2>3 DEF Contract!Reconsider
  <2> QED BY <2>4 DEF Contract!Next
<1>3. CASE DeleteObject
  <2>1. /\ server' = [server EXCEPT !.deleting = TRUE, !.exists = @ /\ server.fin]
        /\ workload' = workload /\ server.exists
    BY <1>3 DEF DeleteObject, MayWrite, StoreByOther, Store
  <2>2. /\ server'.gen = server.gen /\ server'.exists = (server.exists /\ server.fin)
        /\ server'.status = server.status /\ server'.spec = server.spec
        /\ server'.chg = server.chg
    BY <2>1 DEF Versions
  <2>3. CASE server.fin
    BY <2>1, <2>2, <2>3, Stutters DEF Built, Done, FastPath, Versions
  <2>4. CASE ~server.fin
    <3>1. Contract!Remove
      BY <2>1, <2>2, <2>4 DEF Contract!Remove, Versions
    <3> QED BY <3>1 DEF Contract!Next
  <2> QED BY <2>3, <2>4
<1> QED BY <1>1, <1>2, <1>3 DEF Users

\* Writing the status declares the application done only when every component
\* stands at the server's generation.
LEMMA ContractStatus ==
  ASSUME TypeInv, FastPathSound', NEW t, Store([server EXCEPT !.status = t]),
         server.exists, workload' = workload
  PROVE  [Contract!Next]_(Contract!vars)
<1>1. /\ server'.gen = server.gen /\ server'.exists = server.exists
      /\ server'.spec = server.spec
  BY TypeFacts DEF Store, Versions
<1>2. CASE Done' = Done
  BY <1>1, <1>2, Stutters DEF Built
<1>3. CASE ~Done'
  <2>1. Contract!Reconsider
    BY <1>1, <1>3 DEF Contract!Reconsider, Done
  <2> QED BY <2>1 DEF Contract!Next
<1>4. CASE Done'
  <2>1. \A c \in Named(server.spec.reps) : c \in Components /\ workload[c].tmpl = server.gen
    BY <1>1, <1>4 DEF FastPathSound, Done, Named
  <2>2. Contract!Declare
    BY <1>1, <1>4, <2>1 DEF Contract!Declare, Done
  <2> QED BY <2>2 DEF Contract!Next
<1> QED BY <1>2, <1>3, <1>4

\* Reconcile up to the decision to build: the finalizer's end removes the
\* application, the first phase is a write of the status.
LEMMA ContractOpening ==
  ASSUME TypeInv, OrderInv, FastPathSound',
         StartReconcile \/ AddFinalizer \/ RemoveFinalizer \/ SetInitialPhase
           \/ Conflict \/ UpdateNotFound \/ SkipReconcile
  PROVE  [Contract!Next]_(Contract!vars)
<1> server \in Versions
  BY TypeFacts
<1>1. CASE StartReconcile \/ Conflict \/ UpdateNotFound \/ SkipReconcile
  <2>1. server' = server /\ workload' = workload
    BY <1>1 DEF StartReconcile, Conflict, UpdateNotFound, SkipReconcile, apiVars
  <2> QED BY <2>1, Stutters DEF Built
<1>2. CASE AddFinalizer
  <2>1. server' = [server EXCEPT !.fin = TRUE] /\ workload' = workload
    BY <1>2 DEF AddFinalizer, Store
  <2> QED BY <2>1, Stutters DEF Built, Done, FastPath, Versions
<1>3. CASE RemoveFinalizer
  <2>1. /\ server' = [server EXCEPT !.fin = FALSE, !.exists = FALSE] /\ workload' = workload
        /\ server.exists
    BY <1>3 DEF RemoveFinalizer, Store, OrderInv, Copy
  <2>2. Contract!Remove
    BY <2>1 DEF Contract!Remove, Versions
  <2> QED BY <2>2 DEF Contract!Next
<1>4. CASE SetInitialPhase
  <2>1. server.exists
    BY <1>4 DEF SetInitialPhase, OrderInv, Copy
  <2> QED BY <1>4, <2>1, ContractStatus DEF SetInitialPhase
<1> QED BY <1>1, <1>2, <1>3, <1>4

\* Applying a component brings it up to a requested version, and to the
\* latest one if the operator declared itself done.
LEMMA ContractApply ==
  ASSUME TypeInv, OrderInv, FastPathSound', NEW c \in Components, ApplyOne(c)
  PROVE  [Contract!Next]_(Contract!vars)
<1>1. /\ server' = server /\ server.exists
      /\ workload[c].tmpl <= appDef.gen /\ appDef.gen <= cache.gen /\ cache.gen <= server.gen
  BY DEF ApplyOne, apiVars, OrderInv, Life, Work, Copy, Line, Follows
<1>2. /\ workload[c].tmpl \in Nat /\ appDef.gen \in Nat /\ cache.gen \in Nat
      /\ server.gen \in Nat
  BY TypeFacts DEF Versions
<1>3. appDef.gen \in workload[c].tmpl .. server.gen
  BY <1>1, <1>2
<1>4. \A d \in Components : workload'[d].tmpl = IF d = c THEN appDef.gen ELSE workload[d].tmpl
  BY DEF ApplyOne, TypeInv, TypeOK
<1>5. Built' = [Built EXCEPT ![c] = appDef.gen] /\ Built[c] = workload[c].tmpl
  BY <1>4 DEF Built
<1>6. Done => (c \in Named(server.spec.reps) => Built'[c] = server.gen)
  BY <1>1 DEF FastPathSound, Done, Built
<1>7. Contract!BringUp(c)
  BY <1>1, <1>3, <1>5, <1>6 DEF Contract!BringUp, Built, Done
<1> QED BY <1>7 DEF Contract!Next

\* The rest of a cycle only speaks to the contract when it saves the status.
LEMMA ContractWork ==
  ASSUME TypeInv, OrderInv, FastPathSound',
         \/ BuildPanics \/ BuildFails \/ Build
         \/ \E c \in Components : ApplyOne(c) \/ CheckOne(c) \/ ApplyFails(c) \/ CheckFails(c)
         \/ StartHealth \/ Conclude \/ StatusUnchanged \/ UpdateStatus
  PROVE  [Contract!Next]_(Contract!vars)
<1>1. CASE BuildPanics \/ BuildFails \/ Build \/ StartHealth \/ Conclude \/ StatusUnchanged
  <2>1. server' = server /\ workload' = workload
    BY <1>1 DEF BuildPanics, BuildFails, Build, StartHealth, Conclude, StatusUnchanged, apiVars
  <2> QED BY <2>1, Stutters DEF Built
<1>2. ASSUME NEW c \in Components, CheckOne(c) \/ ApplyFails(c) \/ CheckFails(c)
      PROVE  [Contract!Next]_(Contract!vars)
  <2>1. server' = server /\ workload' = workload
    BY <1>2 DEF CheckOne, ApplyFails, CheckFails, apiVars
  <2> QED BY <2>1, Stutters DEF Built
<1>3. CASE UpdateStatus
  <2>1. server.exists
    BY <1>3 DEF UpdateStatus, OrderInv, Copy
  <2> QED BY <1>3, <2>1, ContractStatus DEF UpdateStatus
<1> QED BY <1>1, <1>2, <1>3, ContractApply

\* The cluster and the faults: pods come and go within their version, and the
\* workloads of a removed application are collected.
LEMMA ContractCluster ==
  ASSUME TypeInv, Cluster \/ CallFails \/ Restart \/ \E c \in Components : PodsFail(c)
  PROVE  [Contract!Next]_(Contract!vars)
<1>1. CASE Deliver \/ CallFails \/ Restart
  <2>1. server' = server /\ workload' = workload
    BY <1>1 DEF Deliver, CallFails, Restart, apiVars
  <2> QED BY <2>1, Stutters DEF Built
<1>2. ASSUME NEW c \in Components, PodsReady(c) \/ PodsFail(c)
      PROVE  [Contract!Next]_(Contract!vars)
  <2>1. server' = server
    BY <1>2 DEF PodsReady, PodsFail, apiVars
  <2>2. PICK b \in BOOLEAN : workload' = [workload EXCEPT ![c].ready = b]
    BY <1>2 DEF PodsReady, PodsFail
  <2>3. \A d \in Components : workload'[d].tmpl = workload[d].tmpl
    BY <2>2 DEF TypeInv, TypeOK
  <2> QED BY <2>1, <2>3, BuiltKept, Stutters
<1>3. CASE CollectGarbage
  <2>1. server' = server /\ ~server.exists /\ workload' = [c \in Components |-> NoWorkload]
    BY <1>3 DEF CollectGarbage, apiVars
  <2>2. Built' = [c \in Components |-> 0]
    BY <2>1 DEF Built, NoWorkload
  <2>3. Contract!Collect
    BY <2>1, <2>2 DEF Contract!Collect, Built
  <2> QED BY <2>3 DEF Contract!Next
<1> QED BY <1>1, <1>2, <1>3 DEF Cluster

\* Every step of the loop and its surroundings is a step of the contract, or a
\* stutter.
LEMMA ContractStep ==
  ASSUME "kept" \notin Stamps
  PROVE  TypeInv /\ OrderInv /\ RecordInv /\ TypeInv' /\ RecordInv' /\ [Next]_vars
           => [Contract!Next]_(Contract!vars)
<1> SUFFICES ASSUME TypeInv, OrderInv, RecordInv, TypeInv', RecordInv', [Next]_vars
             PROVE  [Contract!Next]_(Contract!vars)
  OBVIOUS
<1>1. FastPathSound'
  BY DEF RecordInv, Records, Recorded, Vouched, FastPathSound, FastPath
<1>2. CASE Users
  BY <1>2, ContractUsers
<1>3. CASE Cluster
  BY <1>3, ContractCluster
<1>4. CASE Reconcile
  BY <1>1, <1>4, ContractOpening, ContractWork DEF Reconcile
<1>5. CASE Faults
  BY <1>1, <1>5, ContractWork, ContractCluster DEF Faults
<1>6. CASE UNCHANGED vars
  BY <1>6, Stutters DEF vars, apiVars, Built
<1> QED BY <1>2, <1>3, <1>4, <1>5, <1>6 DEF Next

\* The loop keeps the contract: with reads that lag, conflicts, failed calls,
\* restarts and deletions, components go from requested version to requested
\* version, and the fast path of Reconcile is only entered with every one of
\* them at the latest.
THEOREM ContractCorrect ==
  ASSUME "kept" \notin Stamps
  PROVE  Spec => ImplementsContract
<1>1. TypeInv /\ OrderInv /\ RecordInv /\ TypeInv' /\ RecordInv' /\ [Next]_vars
        => [Contract!Next]_(Contract!vars)
  BY ContractStep
<1>2. Spec => [](TypeInv /\ OrderInv /\ RecordInv)
  BY RecordCorrect
<1> QED BY ContractInit, <1>1, <1>2, PTL DEF Spec, ImplementsContract, Contract!Spec

-----------------------------------------------------------------------------
(* The reports. *)

\* A reported id is known to every version Reconcile may still work on, and
\* vouches for what it names.
ToldInv == \A id \in told : id \in Nat \ {0} /\ Recorded(id)

ReportsInv == TypeInv /\ OrderInv /\ RecordInv /\ ToldInv

-----------------------------------------------------------------------------
(* Steps of AppReconcile keep what an id vouches for.                      *)

\* When the server's object keeps its identity, the workloads their
\* generations, and copy and cache only move on, an id stays as good as it was.
LEMMA RecordedKept ==
  ASSUME TypeInv, TypeInv', NEW l \in Nat, Recorded(l),
         server'.chg = server.chg, server'.gen = server.gen, server'.spec = server.spec,
         server'.exists => server.exists,
         \A c \in Components : workload'[c].tmpl = workload[c].tmpl,
         cache.chg <= cache'.chg,
         pc' # "idle" => \/ pc # "idle" /\ appDef'.chg = appDef.chg
                         \/ cache.chg <= appDef'.chg
  PROVE  Recorded(l)'
<1>1. /\ cache.chg \in Nat /\ appDef.chg \in Nat /\ cache'.chg \in Nat /\ appDef'.chg \in Nat
  BY DEF TypeInv, TypeOK, Versions
<1>2. l <= cache'.chg /\ (pc' # "idle" => l <= appDef'.chg)
  BY <1>1 DEF Recorded
<1>3. Named(server.spec.reps) \subseteq Components
  BY DEF Named
<1>4. Vouched(l)'
  BY <1>3 DEF Recorded, Vouched
<1> QED BY <1>2, <1>4 DEF Recorded

\* Once another id is on the server, an older one says nothing of its spec.
LEMMA RecordedSuperseded ==
  ASSUME TypeInv, OrderInv, NEW l \in Nat, Recorded(l),
         server'.chg = server.chg + 1 \/ server'.chg = 0,
         cache' = cache, pc' = pc, appDef' = appDef
  PROVE  Recorded(l)'
<1>1. l <= cache.chg /\ cache.chg <= server.chg
  BY DEF Recorded, OrderInv, Line, Follows
<1>2. l = server'.chg => l = 0
  BY <1>1, TypeFacts DEF Versions
<1> QED BY <1>2 DEF Recorded, Vouched

\* The users' steps.
LEMMA RecordedUsers ==
  ASSUME TypeInv, TypeInv', OrderInv, NEW l \in Nat, Recorded(l), Users, "kept" \notin Stamps
  PROVE  Recorded(l)'
<1> server \in Versions /\ cache \in Versions /\ cache.chg \in Nat
  BY TypeFacts DEF Versions
<1>1. CASE EditSpec
  <2>1. PICK s \in Specs, stamp \in Stamps \cap {"fresh", "kept", "unused"} :
          /\ stamp = "unused" => server.chg = 0
          /\ StoreByOther([server EXCEPT
               !.gen = @ + 1, !.spec = s, !.chg = IF stamp = "fresh" THEN @ + 1 ELSE @])
    BY <1>1 DEF EditSpec
  <2>2. stamp \in {"fresh", "unused"}
    OBVIOUS
  <2>3. server'.chg = server.chg + 1 \/ server'.chg = 0
    BY <2>1, <2>2 DEF StoreByOther, Store, Versions
  <2> QED BY <2>1, <2>3, RecordedSuperseded DEF StoreByOther
<1>2. CASE Restamp
  <2>1. server'.chg = server.chg + 1
    BY <1>2 DEF Restamp, StoreByOther, Store, Versions
  <2> QED BY <1>2, <2>1, RecordedSuperseded DEF Restamp, StoreByOther
<1>3. CASE DeleteObject
  <2>1. /\ server'.chg = server.chg /\ server'.gen = server.gen
        /\ server'.spec = server.spec /\ (server'.exists => server.exists)
    BY <1>3 DEF DeleteObject, StoreByOther, Store, Versions
  <2>2. cache' = cache /\ workload' = workload /\ pc' = pc /\ appDef' = appDef
    BY <1>3 DEF DeleteObject, StoreByOther
  <2>3. cache.chg <= cache'.chg
    BY <2>2
  <2> QED BY <2>1, <2>2, <2>3, RecordedKept
<1> QED BY <1>1, <1>2, <1>3 DEF Users

\* The cluster's steps.
LEMMA RecordedCluster ==
  ASSUME TypeInv, TypeInv', OrderInv, NEW l \in Nat, Recorded(l), Cluster
  PROVE  Recorded(l)'
<1> cache.chg \in Nat /\ cache.chg <= cache.chg
  BY TypeFacts DEF Versions
<1>1. CASE Deliver
  <2>1. cache.chg <= cache'.chg
    BY <1>1, DeliverLine DEF OrderInv, Follows
  <2> QED BY <1>1, <2>1, RecordedKept DEF Deliver, localVars
<1>2. CASE CollectGarbage
  BY <1>2 DEF CollectGarbage, apiVars, localVars, Recorded, Vouched
<1>3. ASSUME NEW c \in Components, PodsReady(c) PROVE Recorded(l)'
  <2>1. \A d \in Components : workload'[d].tmpl = workload[d].tmpl
    BY <1>3 DEF PodsReady, TypeInv, TypeOK
  <2> QED BY <1>3, <2>1, RecordedKept DEF PodsReady, apiVars, localVars
<1> QED BY <1>1, <1>2, <1>3 DEF Cluster

\* Reconcile up to the end of the build.
LEMMA RecordedOpening ==
  ASSUME TypeInv, TypeInv', OrderInv, NEW l \in Nat, Recorded(l),
         \/ StartReconcile \/ AddFinalizer \/ RemoveFinalizer \/ SetInitialPhase
         \/ Conflict \/ UpdateNotFound \/ SkipReconcile
         \/ BuildPanics \/ BuildFails \/ Build
  PROVE  Recorded(l)'
<1> server \in Versions /\ cache \in Versions /\ appDef \in Versions
     /\ cache.chg \in Nat /\ cache.chg <= cache.chg
  BY TypeFacts DEF Versions
<1>1. CASE StartReconcile
  <2>1. apiVars' = apiVars /\ workload' = workload
        /\ (appDef' = cache \/ (pc' = pc /\ appDef' = appDef))
    BY <1>1 DEF StartReconcile, Refetch, localVars
  <2> QED BY <2>1, RecordedKept DEF apiVars
<1>2. CASE AddFinalizer
  <2>1. server' = [server EXCEPT !.fin = TRUE] /\ appDef' = server'
        /\ cache' = cache /\ workload' = workload
    BY <1>2 DEF AddFinalizer, Store
  <2>2. /\ server'.chg = server.chg /\ server'.gen = server.gen
        /\ server'.spec = server.spec /\ server'.exists = server.exists
    BY <2>1 DEF Versions
  <2>3. cache.chg <= appDef'.chg
    BY <2>1, <2>2 DEF OrderInv, Line, Follows
  <2>4. cache.chg <= cache'.chg
    BY <2>1
  <2> QED BY <2>1, <2>2, <2>3, <2>4, RecordedKept
<1>3. CASE RemoveFinalizer \/ SetInitialPhase
  <2>1. /\ server'.chg = server.chg /\ server'.gen = server.gen
        /\ server'.spec = server.spec /\ (server'.exists => server.exists)
    BY <1>3 DEF RemoveFinalizer, SetInitialPhase, Store, Versions
  <2>2. cache' = cache /\ workload' = workload /\ pc' = "idle"
    BY <1>3 DEF RemoveFinalizer, SetInitialPhase, Finish
  <2>3. cache.chg <= cache'.chg
    BY <2>2
  <2> QED BY <2>1, <2>2, <2>3, RecordedKept
<1>4. CASE Conflict
  <2>1. apiVars' = apiVars /\ workload' = workload
    BY <1>4 DEF Conflict
  <2>2. pc' = "idle" \/ appDef'.chg = cache.chg
    BY <1>4 DEF Conflict, Updating, Refetch, Reapplied, Finish, Versions
  <2> QED BY <2>1, <2>2, RecordedKept DEF apiVars
<1>5. CASE UpdateNotFound \/ SkipReconcile \/ BuildPanics
  <2>1. apiVars' = apiVars /\ workload' = workload /\ pc' = "idle"
    BY <1>5 DEF UpdateNotFound, SkipReconcile, BuildPanics, Finish
  <2> QED BY <2>1, RecordedKept DEF apiVars
<1>6. CASE BuildFails \/ Build
  <2>1. apiVars' = apiVars /\ workload' = workload /\ pc = "phase"
    BY <1>6 DEF BuildFails, Build, ReachesBuild
  <2> QED BY <1>6, <2>1, BuildCopy, RecordedKept DEF apiVars
<1> QED BY <1>1, <1>2, <1>3, <1>4, <1>5, <1>6

\* Applying a component of the version with the server's id brings it to the
\* server's generation.
LEMMA RecordedApply ==
  ASSUME TypeInv, OrderInv, RecordInv, NEW l \in Nat, Recorded(l),
         NEW c \in Components, ApplyOne(c)
  PROVE  Recorded(l)'
<1>1. apiVars' = apiVars /\ pc = "apply" /\ pc' = pc /\ appDef' = appDef
  BY DEF ApplyOne
<1>2. /\ workload'[c].tmpl = appDef.gen
      /\ \A d \in Components : d # c => workload'[d] = workload[d]
  BY DEF ApplyOne, TypeInv, TypeOK
<1>3. l <= appDef.chg /\ appDef.chg <= cache.chg /\ cache.chg <= server.chg
  BY <1>1 DEF Recorded, OrderInv, Line, Copy, Follows
<1>4. l # 0 /\ l = server.chg => appDef.gen = server.gen
  BY <1>1, <1>3, TypeFacts DEF RecordInv, Identity, Identified, Versions
<1>5. Named(server.spec.reps) \subseteq Components
  BY DEF Named
<1>6. Vouched(l)'
  BY <1>1, <1>2, <1>4, <1>5 DEF Recorded, Vouched, apiVars
<1> QED BY <1>1, <1>6 DEF Recorded, apiVars

\* The rest of a cycle, and the faults.
LEMMA RecordedWork ==
  ASSUME TypeInv, TypeInv', OrderInv, RecordInv, NEW l \in Nat, Recorded(l),
         \/ \E c \in Components : ApplyOne(c) \/ CheckOne(c)
         \/ StartHealth \/ Conclude \/ StatusUnchanged \/ UpdateStatus
         \/ Faults
  PROVE  Recorded(l)'
<1> server \in Versions /\ appDef \in Versions /\ cache.chg \in Nat /\ cache.chg <= cache.chg
  BY TypeFacts DEF Versions
<1>1. ASSUME NEW c \in Components, CheckOne(c) \/ ApplyFails(c) \/ CheckFails(c)
      PROVE  Recorded(l)'
  <2>1. apiVars' = apiVars /\ workload' = workload /\ pc' = pc /\ appDef' = appDef
    BY <1>1 DEF CheckOne, ApplyFails, CheckFails
  <2> QED BY <2>1, RecordedKept DEF apiVars
<1>2. CASE StartHealth \/ Conclude
  <2>1. apiVars' = apiVars /\ workload' = workload /\ pc # "idle" /\ appDef'.chg = appDef.chg
    BY <1>2 DEF StartHealth, Conclude, Versions
  <2> QED BY <2>1, RecordedKept DEF apiVars
<1>3. CASE StatusUnchanged \/ CallFails
  <2>1. apiVars' = apiVars /\ workload' = workload /\ pc' = "idle"
    BY <1>3 DEF StatusUnchanged, CallFails, Finish
  <2> QED BY <2>1, RecordedKept DEF apiVars
<1>4. CASE UpdateStatus
  <2>1. /\ server'.chg = server.chg /\ server'.gen = server.gen
        /\ server'.spec = server.spec /\ server'.exists = server.exists
    BY <1>4 DEF UpdateStatus, Store, Versions
  <2>2. cache' = cache /\ workload' = workload /\ pc' = "idle"
    BY <1>4 DEF UpdateStatus, Finish
  <2>3. cache.chg <= cache'.chg
    BY <2>2
  <2> QED BY <2>1, <2>2, <2>3, RecordedKept
<1>5. CASE Restart
  <2>1. server' = server /\ cache' = server /\ workload' = workload /\ pc' = "idle"
    BY <1>5 DEF Restart
  <2>2. cache.chg <= cache'.chg
    BY <2>1 DEF OrderInv, Line, Follows
  <2> QED BY <2>1, <2>2, RecordedKept
<1>6. ASSUME NEW c \in Components, PodsFail(c) PROVE Recorded(l)'
  <2>1. \A d \in Components : workload'[d].tmpl = workload[d].tmpl
    BY <1>6 DEF PodsFail, TypeInv, TypeOK
  <2> QED BY <1>6, <2>1, RecordedKept DEF PodsFail, apiVars, localVars
<1> QED BY <1>1, <1>2, <1>3, <1>4, <1>5, <1>6, RecordedApply DEF Faults

\* No step takes away what an id vouches for.
LEMMA RecordedStep ==
  ASSUME "kept" \notin Stamps, TypeInv, TypeInv', OrderInv, RecordInv, Next,
         NEW l \in Nat, Recorded(l)
  PROVE  Recorded(l)'
<1>1. CASE Reconcile
  BY <1>1, RecordedOpening, RecordedWork DEF Reconcile
<1>2. CASE Faults
  BY <1>2, RecordedWork
<1> QED BY <1>1, <1>2, RecordedUsers, RecordedCluster DEF Next

-----------------------------------------------------------------------------
(* The reports.                                                            *)

\* The id whose success is reported has been applied from the copy's version.
LEMMA SuccessVouches ==
  ASSUME TypeInv, OrderInv, RecordInv, Next, Succeeds
  PROVE  Recorded(appDef.chg)
<1>1. pc = "health" /\ ~firstError
  BY DEF Succeeds
<1>2. Vouched(appDef.chg)
  BY <1>1 DEF RecordInv, Identity, Identified, Applied, Vouched
<1>3. appDef.chg <= cache.chg /\ appDef.chg <= appDef.chg
  BY <1>1, TypeFacts DEF OrderInv, Copy, Versions
<1> QED BY <1>2, <1>3 DEF Recorded

\* Nothing is reported of a fresh application.
LEMMA ReportsInitial == ReportsInit => ReportsInv
BY TypeInit, OrderInit, RecordInit DEF ReportsInit, ReportsInv, ToldInv

\* Every step keeps the reports true.
LEMMA ReportsStep ==
  ASSUME "kept" \notin Stamps
  PROVE  ReportsInv /\ [ReportsNext]_reportVars => ReportsInv'
<1> SUFFICES ASSUME ReportsInv, [ReportsNext]_reportVars PROVE ReportsInv'
  OBVIOUS
<1>1. TypeInv /\ OrderInv /\ RecordInv /\ ToldInv /\ [Next]_vars
  BY DEF ReportsInv, ReportsNext, reportVars
<1>2. TypeInv' /\ OrderInv' /\ RecordInv'
  BY <1>1, TypeStep, OrderStep, RecordStep
<1>3. CASE ReportsNext
  <2>1. Next
    BY <1>3 DEF ReportsNext
  <2>2. \/ told' = told
        \/ Succeeds /\ appDef.chg # 0 /\ told' = told \cup {appDef.chg}
    BY <1>3 DEF ReportsNext, recordEvent
  <2>3. ASSUME NEW id \in told' PROVE id \in Nat \ {0} /\ Recorded(id)
    <3>1. CASE id \in told
      BY <1>1, <3>1 DEF ToldInv
    <3>2. CASE Succeeds /\ appDef.chg # 0 /\ id = appDef.chg
      BY <1>1, <2>1, <3>2, SuccessVouches, TypeFacts DEF Versions
    <3> QED BY <2>2, <3>1, <3>2
  <2>4. ToldInv'
    BY <1>1, <1>2, <2>1, <2>3, RecordedStep DEF ToldInv
  <2> QED BY <1>2, <2>4 DEF ReportsInv
<1>4. CASE UNCHANGED reportVars
  <2>1. ToldInv'
    BY <1>1, <1>4 DEF reportVars, vars, apiVars, localVars, ToldInv, Recorded, Vouched
  <2> QED BY <1>2, <2>1 DEF ReportsInv
<1> QED BY <1>3, <1>4

\* The receiver is told of the success of a change only when every component of
\* the spec with that id stands at its generation, and it stays so while the
\* id is the server's: with stale copies, retries, failed saves and restarts.
THEOREM SuccessCorrect ==
  ASSUME "kept" \notin Stamps
  PROVE  ReportsInit /\ [][ReportsNext]_reportVars => []SuccessWasApplied
<1>1. ReportsInv => SuccessWasApplied
  BY DEF ReportsInv, ToldInv, Recorded, Vouched, SuccessWasApplied
<1>2. ReportsInv /\ [ReportsNext]_reportVars => ReportsInv'
  BY ReportsStep
<1> QED BY ReportsInitial, <1>1, <1>2, PTL
=============================================================================
