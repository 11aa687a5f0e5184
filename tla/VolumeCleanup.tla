---------------------------- MODULE VolumeCleanup ----------------------------
(***************************************************************************)
(* What becomes of the volume claims when an application is deleted.       *)
(* handleFinalizer lists the claims that carry the name of the application, *)
(* deletes them one by one and takes the finalizer away; the StatefulSet   *)
(* is only collected after that, so its controller still makes pods and    *)
(* claims while the claims are being deleted.  A claim in use by a pod is  *)
(* marked and goes when the pod has gone.                                  *)
(*                                                                         *)
(* One component.  An application may be created again under its name: a   *)
(* life is one of its incarnations, and claims outlive lives, since they   *)
(* belong to nobody.                                                       *)
(***************************************************************************)
EXTENDS Integers, FiniteSets

CONSTANTS
  MaxSize,       \* bound: replicas
  MaxLives,      \* bound: times the application is created
  MaxMishaps     \* bound: edits, pods deleted by others, failed calls, restarts

ASSUME CleanupAssumption ==
  MaxSize \in Nat \ {0} /\ MaxLives \in Nat \ {0} /\ MaxMishaps \in Nat

Sizes == 1 .. MaxSize
Ordinals == 1 .. MaxSize
Lives == 1 .. MaxLives

VARIABLES
  app,         \* the stored application, or NoApp
  appCache,    \* the version Client.Get returns
  cacheFresh,  \* it has the resourceVersion of the stored one
  copy,        \* state.appDef
  copyFresh,   \* likewise
  queued,      \* the key is in the work queue
  pc,          \* the next call of Reconcile
  attempt,     \* conflicts met by the update of the finalizer
  toDelete,    \* the rest of pvcList
  sts,         \* the StatefulSet: the life that owns it, its size
  pods,        \* per ordinal: running, left by a StatefulSet that is gone, none
  claims,      \* per ordinal [state, life]: of the last life to use it
  claimCache,  \* what List returns per ordinal: none, this claim, another that is gone
  listed,      \* history: stored claims that a listing saw before the finalizer went
  lives, mishaps

appVars == <<app, appCache, cacheFresh>>
workerVars == <<copy, copyFresh, pc, attempt, toDelete>>
clusterVars == <<sts, pods, claims>>
countVars == <<lives, mishaps>>
cleanupVars == <<appVars, workerVars, queued, clusterVars, claimCache, listed, countVars>>

Versions == [life : Lives, deleting : BOOLEAN, fin : BOOLEAN, size : Sizes]
NoApp == [life |-> 0, deleting |-> FALSE, fin |-> FALSE, size |-> 1]
NoSts == [owner |-> 0, size |-> 1]
NoClaim == [state |-> "absent", life |-> 0]

Exists == app # NoApp
Live == Exists /\ ~app.deleting

\* A claim that exists and is not marked for deletion.
Bound(o) == claims[o].state = "bound"

\* What a listing of the stored claims returns; marked claims are in it.
StoredClaims == [o \in Ordinals |-> IF claims[o].state = "absent" THEN "none" ELSE "this"]

\* The first life runs one replica, under its finalizer.
CleanupInit ==
  /\ app = [life |-> 1, deleting |-> FALSE, fin |-> TRUE, size |-> 1]
  /\ appCache = app /\ cacheFresh = TRUE
  /\ copy = NoApp /\ copyFresh = FALSE
  /\ queued = FALSE /\ pc = "idle" /\ attempt = 0 /\ toDelete = {}
  /\ sts = [owner |-> 1, size |-> 1]
  /\ pods = [o \in Ordinals |-> IF o = 1 THEN "run" ELSE "none"]
  /\ claims = [o \in Ordinals |-> IF o = 1 THEN [state |-> "bound", life |-> 1] ELSE NoClaim]
  /\ claimCache = StoredClaims
  /\ listed = {}
  /\ lives = 1 /\ mishaps = 0

-----------------------------------------------------------------------------
(* Users. *)

\* The stored application changes: no copy of it can be written any more.
StoreApp(version) ==
  /\ app' = version /\ cacheFresh' = FALSE /\ UNCHANGED appCache

\* What a user does leaves the operator and the cluster alone.
UserActs ==
  /\ copyFresh' = FALSE
  /\ UNCHANGED <<copy, pc, attempt, toDelete, queued, clusterVars, claimCache, listed>>

\* What users, the network or the cluster do a bounded number of times.
Mishap == mishaps < MaxMishaps /\ mishaps' = mishaps + 1 /\ UNCHANGED lives

\* An edit, by a user or another controller; also of an application that is
\* being deleted.
Edit(n) ==
  /\ Exists /\ Mishap
  /\ StoreApp([app EXCEPT !.size = n])
  /\ UserActs

\* The API server marks an object that has a finalizer and removes another.
DeleteApp ==
  /\ Live
  /\ StoreApp(IF app.fin THEN [app EXCEPT !.deleting = TRUE] ELSE NoApp)
  /\ UserActs /\ UNCHANGED countVars

\* The application is created again under the same name.
CreateApp(n) ==
  /\ ~Exists /\ lives < MaxLives /\ lives' = lives + 1
  /\ StoreApp([life |-> lives + 1, deleting |-> FALSE, fin |-> FALSE, size |-> n])
  /\ UserActs /\ UNCHANGED mishaps

-----------------------------------------------------------------------------
(* The informers. *)

\* The watch catches up with the store, and its event queues the key.
AppCatchesUp ==
  /\ ~cacheFresh
  /\ appCache' = app /\ cacheFresh' = TRUE /\ queued' = TRUE
  /\ UNCHANGED <<app, workerVars, clusterVars, claimCache, listed, countVars>>

\* Claims have no owner, so their events queue nothing.
ClaimsCatchUp ==
  /\ claimCache # StoredClaims /\ claimCache' = StoredClaims
  /\ UNCHANGED <<appVars, workerVars, queued, clusterVars, listed, countVars>>

-----------------------------------------------------------------------------
(* Reconcile. *)

\* Reconcile returns.
Return(requeue) ==
  /\ pc' = "idle" /\ copy' = NoApp /\ copyFresh' = FALSE
  /\ attempt' = 0 /\ toDelete' = {} /\ queued' = (queued \/ requeue)

\* handleFinalizer, and the cycle of a live application, up to the first call.
FirstCall(version) ==
  CASE ~version.deleting /\ ~version.fin /\ version # NoApp -> "add"
    [] ~version.deleting /\ version.fin -> "apply"
    [] version.deleting /\ version.fin -> "list"
    [] OTHER -> "idle"

StartReconcile ==
  /\ pc = "idle" /\ queued /\ queued' = FALSE
  /\ pc' = FirstCall(appCache)
  /\ IF pc' = "idle" THEN UNCHANGED <<copy, copyFresh>>
     ELSE copy' = appCache /\ copyFresh' = cacheFresh
  /\ UNCHANGED <<appVars, attempt, toDelete, clusterVars, claimCache, listed, countVars>>

\* The update that adds the finalizer is accepted.
AddFinalizer ==
  /\ pc = "add" /\ copyFresh /\ pc' = "apply" /\ attempt' = 0
  /\ IF app.fin THEN UNCHANGED appVars ELSE StoreApp([app EXCEPT !.fin = TRUE])
  /\ UNCHANGED <<copy, copyFresh, toDelete, queued, clusterVars, claimCache, listed, countVars>>

\* Mutant: the claims above the number of replicas are cleaned up as well.
ApplyStatefulSetPrunes ==
  /\ pc = "apply"
  /\ sts' = [owner |-> copy.life, size |-> copy.size]
  /\ claims' = [o \in Ordinals |-> IF o > copy.size /\ Bound(o) THEN [claims[o] EXCEPT !.state = "going"]
                                   ELSE claims[o]]
  /\ Return(FALSE)
  /\ UNCHANGED <<appVars, pods, claimCache, listed, countVars>>

\* The StatefulSet is applied for the copy, and belongs to its life.
ApplyStatefulSet ==
  /\ pc = "apply"
  /\ sts' = [owner |-> copy.life, size |-> copy.size]
  /\ Return(FALSE)
  /\ UNCHANGED <<appVars, pods, claims, claimCache, listed, countVars>>

\* The cleanup goes on with the claims given, or is done and takes the
\* finalizer out of the copy.
GoOnDeleting(rest) ==
  /\ toDelete' = rest
  /\ pc' = IF rest = {} THEN "remove" ELSE "delete"
  /\ copy' = [copy EXCEPT !.fin = (rest # {})]
  /\ UNCHANGED <<copyFresh, attempt, queued>>

\* List reads the cache.
ListClaims ==
  /\ pc = "list"
  /\ GoOnDeleting({o \in Ordinals : claimCache[o] # "none"})
  /\ listed' = IF app.life = copy.life
                 THEN listed \cup {o \in Ordinals : claimCache[o] = "this"} ELSE listed
  /\ UNCHANGED <<appVars, clusterVars, claimCache, countVars>>

\* Delete goes by name: it marks whatever claim has the name now, and one that
\* is gone, or marked already, is no error.
DeleteClaim ==
  /\ pc = "delete"
  /\ \E o \in toDelete :
       /\ GoOnDeleting(toDelete \ {o})
       /\ claims' = IF Bound(o) THEN [claims EXCEPT ![o].state = "going"] ELSE claims
  /\ UNCHANGED <<appVars, sts, pods, claimCache, listed, countVars>>

\* The update is accepted.  A marked application without a finalizer is gone;
\* an update that changes nothing stores nothing.
RemoveFinalizer ==
  /\ pc = "remove" /\ copyFresh
  /\ IF app.deleting THEN StoreApp(NoApp)
     ELSE IF app.fin THEN StoreApp([app EXCEPT !.fin = FALSE]) ELSE UNCHANGED appVars
  /\ Return(FALSE)
  /\ UNCHANGED <<clusterVars, claimCache, listed, countVars>>

MaxAttempts == 3

\* A conflict and the refetch, from the cache.  The claims are not listed
\* again.  Without a version in the cache the refetch fails.  The third
\* conflict is an error for the one who adds and none for the one who removes.
Conflict ==
  /\ pc \in {"add", "remove"} /\ Exists /\ ~copyFresh
  /\ \/ /\ appCache # NoApp /\ attempt + 1 < MaxAttempts
        /\ attempt' = attempt + 1
        /\ copy' = [appCache EXCEPT !.fin = (pc = "add")] /\ copyFresh' = cacheFresh
        /\ UNCHANGED <<pc, toDelete, queued>>
     \/ appCache # NoApp /\ attempt + 1 = MaxAttempts /\ Return(pc = "add")
     \/ appCache = NoApp /\ Return(TRUE)
  /\ UNCHANGED <<appVars, clusterVars, claimCache, listed, countVars>>

\* The update finds no object: an error.
UpdateNotFound ==
  /\ pc \in {"add", "remove"} /\ ~Exists /\ Return(TRUE)
  /\ UNCHANGED <<appVars, clusterVars, claimCache, listed, countVars>>

Failing ==
  /\ pc # "idle" /\ Mishap
  /\ UNCHANGED <<appVars, clusterVars, claimCache, listed>>

\* Mutant: claims that cannot be deleted are logged and skipped.
CallFailsLogged ==
  /\ Failing
  /\ IF pc = "delete" THEN GoOnDeleting({}) ELSE Return(TRUE)

\* Mutant: the error of a call is not returned.
CallFailsSilently == Failing /\ Return(FALSE)

\* A call fails: its error is returned and puts the key back.
CallFails == Failing /\ Return(TRUE)

\* The operator restarts; its informers list everything before it works.
Restart ==
  /\ Mishap
  /\ appCache' = app /\ cacheFresh' = TRUE /\ claimCache' = StoredClaims
  /\ Return(Exists)
  /\ UNCHANGED <<app, clusterVars, listed>>

-----------------------------------------------------------------------------
(* The cluster. *)

\* Pods are made in order.
NextPod == {o \in 1 .. sts.size : pods[o] = "none" /\ \A q \in 1 .. o - 1 : pods[q] = "run"}

\* A pod gets its claim first.
CreateClaim(o) ==
  /\ sts # NoSts /\ o \in NextPod /\ claims[o].state = "absent"
  /\ claims' = [claims EXCEPT ![o] = [state |-> "bound", life |-> sts.owner]]
  /\ UNCHANGED <<appVars, workerVars, queued, sts, pods, claimCache, listed, countVars>>

\* A claim that is left from another life is used again; one that is marked
\* makes the pod wait.
CreatePod(o) ==
  /\ sts # NoSts /\ o \in NextPod /\ Bound(o)
  /\ pods' = [pods EXCEPT ![o] = "run"]
  /\ claims' = [claims EXCEPT ![o].life = sts.owner]
  /\ queued' = TRUE
  /\ UNCHANGED <<appVars, workerVars, sts, claimCache, listed, countVars>>

\* Scaling down removes the last pod and keeps its claim.
ScaleDown(o) ==
  /\ sts # NoSts /\ o > sts.size /\ pods[o] = "run"
  /\ \A q \in Ordinals : q > o => pods[q] = "none"
  /\ pods' = [pods EXCEPT ![o] = "none"] /\ queued' = TRUE
  /\ UNCHANGED <<appVars, workerVars, sts, claims, claimCache, listed, countVars>>

\* A pod is deleted by others; the StatefulSet controller makes it again.
Evict(o) ==
  /\ pods[o] = "run" /\ Mishap
  /\ pods' = [pods EXCEPT ![o] = "none"] /\ queued' = TRUE
  /\ UNCHANGED <<appVars, workerVars, sts, claims, claimCache, listed>>

\* A marked claim goes when no pod uses it.
RemoveClaim(o) ==
  /\ claims[o].state = "going" /\ pods[o] = "none"
  /\ claims' = [claims EXCEPT ![o] = NoClaim] /\ listed' = listed \ {o}
  /\ claimCache' = [claimCache EXCEPT ![o] = IF @ = "this" THEN "other" ELSE @]
  /\ UNCHANGED <<appVars, workerVars, queued, sts, pods, countVars>>

\* The garbage collector removes a StatefulSet whose owner is gone.
CollectStatefulSet ==
  /\ sts # NoSts /\ app.life # sts.owner
  /\ sts' = NoSts /\ queued' = TRUE
  /\ pods' = [o \in Ordinals |-> IF pods[o] = "run" THEN "orphan" ELSE pods[o]]
  /\ UNCHANGED <<appVars, workerVars, claims, claimCache, listed, countVars>>

\* And then the pods of that StatefulSet.
CollectPod(o) ==
  /\ pods[o] = "orphan" /\ pods' = [pods EXCEPT ![o] = "none"]
  /\ UNCHANGED <<appVars, workerVars, queued, sts, claims, claimCache, listed, countVars>>

-----------------------------------------------------------------------------
Users == DeleteApp \/ \E n \in Sizes : Edit(n) \/ CreateApp(n)

Worker ==
  \/ StartReconcile \/ AddFinalizer \/ ApplyStatefulSet
  \/ ListClaims \/ DeleteClaim \/ RemoveFinalizer
  \/ Conflict \/ UpdateNotFound

PodsAndClaims(o) == CreateClaim(o) \/ CreatePod(o) \/ ScaleDown(o) \/ RemoveClaim(o) \/ CollectPod(o)

CleanupNext ==
  \/ Users \/ AppCatchesUp \/ ClaimsCatchUp \/ Worker
  \/ CallFails \/ Restart \/ CollectStatefulSet
  \/ \E o \in Ordinals : PodsAndClaims(o) \/ Evict(o)

\* The informers, the worker and the controllers of the cluster go on.
CleanupSpec ==
  /\ CleanupInit /\ [][CleanupNext]_cleanupVars
  /\ WF_cleanupVars(AppCatchesUp) /\ WF_cleanupVars(ClaimsCatchUp) /\ WF_cleanupVars(Worker)
  /\ WF_cleanupVars(CollectStatefulSet)
  /\ \A o \in Ordinals : WF_cleanupVars(PodsAndClaims(o))

-----------------------------------------------------------------------------
\* Types; a copy is only kept during a cycle, and a cache that is fresh holds
\* the stored version.
CleanupTypeOK ==
  /\ {app, appCache, copy} \subseteq Versions \cup {NoApp}
  /\ cacheFresh => appCache = app
  /\ pc \in {"idle", "add", "apply", "list", "delete", "remove"}
  /\ pc = "idle" <=> copy = NoApp
  /\ attempt \in 0 .. MaxAttempts - 1 /\ toDelete \subseteq Ordinals
  /\ sts \in [owner : Lives, size : Sizes] \cup {NoSts}
  /\ pods \in [Ordinals -> {"run", "orphan", "none"}]
  /\ claims \in [Ordinals -> [state : {"bound", "going", "absent"}, life : Lives \cup {0}]]
  /\ claimCache \in [Ordinals -> {"none", "this", "other"}]
  /\ \A o \in listed : claims[o].state # "absent"

\* "Performing cleanup before finalizer removal": when an application is gone,
\* each claim that a listing of its cleanup saw is deleted or marked, whichever
\* call failed, conflicted or was repeated after a restart in between.
ListedClaimsGo ==
  ~app.deleting => \A o \in listed : ~Bound(o)

\* A cleanup works on a copy that may be older than the store, by name and
\* label only: it never marks a claim that serves an application that is not
\* deleted, in particular none of one created again under the name.
LiveClaimsStay ==
  Live => \A o \in Ordinals : claims[o].life = app.life => claims[o].state # "going"

\* An application that is being deleted goes, with its StatefulSet and with
\* the claims its cleanup saw, whatever fails or conflicts on the way: unless
\* it was created again so soon that the StatefulSet, and pods that hold their
\* claims, were taken over by the next life.
CleanupCompletes ==
  \A l \in Lives :
    app.life = l /\ app.deleting ~>
      /\ app.life # l /\ sts.owner # l
      /\ \A o \in listed : sts.owner > l /\ pods[o] = "run"

\* Not kept in that case: the pods of a live application hold claims that stay.
LivePodsKeepClaims ==
  Live /\ sts.owner = app.life =>
    \A o \in Ordinals : pods[o] = "run" => claims[o].state # "going"

\* The comment in handleFinalizer: "Clean up all PVCs associated with this
\* appdef".  Once an application and its StatefulSet are gone for good, no
\* unmarked claim is left of them.
NoClaimLeft == ~Exists /\ sts = NoSts /\ pc = "idle" => \A o \in Ordinals : ~Bound(o)
=============================================================================
