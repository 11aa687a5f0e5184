------------------------ MODULE VolumeCleanupProofs ------------------------
(***************************************************************************)
(* What the cleanup of volume claims does and leaves alone, for any number *)
(* of replicas, lives and mishaps.                                         *)
(*                                                                         *)
(* Neither property is inductive.  A claim that a listing saw must still   *)
(* be seen by every later listing of the cleanup, which otherwise takes    *)
(* the finalizer away past it; and a cleanup that works on an old copy     *)
(* must not meet claims of a later life, although nothing in the code      *)
(* compares lives: no StatefulSet of a life exists before the cache has    *)
(* shown that life, and the cache never goes back.                         *)
(***************************************************************************)
EXTENDS VolumeCleanup, TLAPS

\* Lives are counted: the stored application is of the last one, and what the
\* cleanup works with is not ahead of the versions it is compared with.
InOrder(version) ==
  version # NoApp => /\ version.life <= lives
                     /\ sts.owner <= version.life
                     /\ \A o \in Ordinals : claims[o].life <= version.life

LivesInv ==
  /\ lives \in Lives /\ mishaps \in Nat
  /\ app # NoApp => app.life = lives
  /\ sts.owner <= lives /\ \A o \in Ordinals : claims[o].life <= lives
  /\ InOrder(appCache) /\ InOrder(copy)
  /\ copy # NoApp /\ appCache # NoApp => copy.life <= appCache.life

\* A version marked for deletion is older than, or of, a marked application.
Marked(version) == version.deleting /\ version.life = app.life => app.deleting

\* What the worker's copy is good for: one that carries the resourceVersion is
\* of the stored application, and claims are deleted for a marked one.
CopyInv ==
  /\ Marked(appCache) /\ Marked(copy)
  /\ copyFresh => copy # NoApp /\ copy.life = app.life
  /\ pc \in {"list", "delete"} => copy.deleting

\* A listed claim stays in sight of the next listing, and until it is marked it
\* is still to be deleted or the application still waits for a cleanup.
ListedInv ==
  /\ \A o \in Ordinals : claimCache[o] = "this" => claims[o].state # "absent"
  /\ \A o \in listed : o \in Ordinals /\ claimCache[o] = "this"
  /\ pc = "delete" => \A o \in listed : Bound(o) => o \in toDelete
  /\ pc = "remove" => \A o \in listed : ~Bound(o)

CleanupInv ==
  /\ CleanupTypeOK /\ LivesInv /\ CopyInv /\ ListedInv
  /\ ListedClaimsGo /\ LiveClaimsStay

-----------------------------------------------------------------------------
(* Types.                                                                  *)

\* Lives are counted from one, and NoApp is of none.
LEMMA LifeFacts ==
  /\ NoApp.life = 0 /\ ~NoApp.deleting /\ ~NoApp.fin /\ NoApp.size \in Sizes
  /\ \A v \in Versions : v # NoApp /\ v.life \in Lives
  /\ \A l \in Lives : l \in Nat /\ l >= 1
  /\ NoSts \in [owner : {0}, size : Sizes] /\ NoClaim.state = "absent" /\ NoClaim.life = 0
BY CleanupAssumption DEF NoApp, NoSts, NoClaim, Versions, Lives, Sizes

\* Changing some fields of a version leaves the others.
LEMMA VersionFields ==
  ASSUME NEW v \in Versions, NEW b \in BOOLEAN, NEW n \in Sizes
  PROVE  /\ [v EXCEPT !.size = n] \in Versions /\ [v EXCEPT !.deleting = b] \in Versions
         /\ [v EXCEPT !.fin = b] \in Versions
         /\ [v EXCEPT !.size = n].life = v.life /\ [v EXCEPT !.size = n].deleting = v.deleting
         /\ [v EXCEPT !.deleting = b].life = v.life /\ [v EXCEPT !.deleting = b].deleting = b
         /\ [v EXCEPT !.fin = b].life = v.life /\ [v EXCEPT !.fin = b].deleting = v.deleting
BY DEF Versions

\* A first life is well typed and in order.
LEMMA CleanupInitial == CleanupInit => CleanupInv
<1> SUFFICES ASSUME CleanupInit PROVE CleanupInv
  OBVIOUS
<1>1. 1 \in Lives /\ 1 \in Sizes
  BY CleanupAssumption DEF Lives, Sizes
<1>2. CleanupTypeOK
  BY <1>1, LifeFacts DEF CleanupInit, CleanupTypeOK, Versions, StoredClaims, NoClaim, MaxAttempts
<1>3. LivesInv
  BY <1>1, LifeFacts DEF CleanupInit, LivesInv, InOrder, NoClaim, NoApp
<1>4. CopyInv /\ ListedInv /\ ListedClaimsGo /\ LiveClaimsStay
  BY LifeFacts DEF CleanupInit, CopyInv, Marked, ListedInv, ListedClaimsGo, LiveClaimsStay,
                   Live, Exists, NoClaim, StoredClaims
<1> QED BY <1>2, <1>3, <1>4 DEF CleanupInv

-----------------------------------------------------------------------------
(* One lemma per group of steps.                                           *)

\* What a user stores is in order when it is the last life, does not take a
\* mark back, and spares the claims of an application that is live.
LEMMA UserKeeps ==
  ASSUME CleanupInv, NEW v \in Versions \cup {NoApp}, StoreApp(v), UserActs,
         lives' \in Lives, lives <= lives', mishaps' \in Nat,
         v # NoApp => v.life = lives',
         \A u \in {appCache, copy} : u.deleting /\ u.life = v.life => v.deleting,
         ~v.deleting => ~app.deleting,
         v # NoApp /\ ~v.deleting =>
           \A o \in Ordinals : claims[o].life = v.life => claims[o].state # "going"
  PROVE  CleanupInv'
<1> USE DEF CleanupInv
<1>1. /\ app' = v /\ cacheFresh' = FALSE /\ appCache' = appCache /\ copyFresh' = FALSE
      /\ copy' = copy /\ pc' = pc /\ attempt' = attempt /\ toDelete' = toDelete
      /\ sts' = sts /\ pods' = pods /\ claims' = claims
      /\ claimCache' = claimCache /\ listed' = listed
  BY DEF StoreApp, UserActs, clusterVars
<1>2. CleanupTypeOK'
  BY <1>1 DEF CleanupTypeOK
<1>3. LivesInv'
  <2>1. sts.owner \in Nat /\ lives \in Nat /\ lives' \in Nat
        /\ \A o \in Ordinals : claims[o].life \in Nat
    BY LifeFacts DEF CleanupTypeOK, LivesInv
  <2>2. ASSUME NEW u \in {appCache, copy}, u # NoApp PROVE u.life \in Nat /\ u.life <= lives'
    <3>1. u \in Versions
      BY <2>2 DEF CleanupTypeOK
    <3>2. u.life \in Nat
      BY <3>1, LifeFacts
    <3>3. u.life <= lives
      BY <2>2 DEF LivesInv, InOrder
    <3> QED BY <2>1, <3>2, <3>3
  <2> QED BY <1>1, <2>1, <2>2 DEF LivesInv, InOrder
<1>4. CopyInv'
  BY <1>1 DEF CopyInv, Marked
<1>5. ListedInv' /\ ListedClaimsGo' /\ LiveClaimsStay'
  BY <1>1 DEF ListedInv, ListedClaimsGo, LiveClaimsStay, Live, Exists, Bound
<1> QED BY <1>2, <1>3, <1>4, <1>5

\* Users edit, delete and create again.
LEMMA CleanupUsers ==
  ASSUME CleanupInv, Users
  PROVE  CleanupInv'
<1>1. app \in Versions \cup {NoApp} /\ {appCache, copy} \subseteq Versions \cup {NoApp}
  BY DEF CleanupInv, CleanupTypeOK
<1>2. lives \in Lives /\ lives \in Nat /\ mishaps \in Nat /\ (app # NoApp => app.life = lives)
  BY LifeFacts DEF CleanupInv, LivesInv
<1>3. ASSUME NEW n \in Sizes, Edit(n) PROVE CleanupInv'
  <2> DEFINE v == [app EXCEPT !.size = n]
  <2>1. app \in Versions /\ app # NoApp
    BY <1>1, <1>3 DEF Edit, Exists
  <2>2. v \in Versions /\ v.life = app.life /\ v.deleting = app.deleting
    <3>1. TRUE \in BOOLEAN
      OBVIOUS
    <3> QED BY <2>1, <3>1, VersionFields
  <2>3. StoreApp(v) /\ UserActs /\ lives' = lives /\ mishaps' \in Nat
    BY <1>2, <1>3 DEF Edit, Mishap
  <2>4. \A u \in {appCache, copy} : u.deleting /\ u.life = v.life => v.deleting
    BY <2>2 DEF CleanupInv, CopyInv, Marked
  <2>5. ~v.deleting => \A o \in Ordinals : claims[o].life = v.life => claims[o].state # "going"
    <3> HIDE DEF v
    <3> QED BY <2>1, <2>2 DEF CleanupInv, LiveClaimsStay, Live, Exists
  <2> HIDE DEF v
  <2> QED BY <1>2, <2>1, <2>2, <2>3, <2>4, <2>5, UserKeeps
<1>4. CASE DeleteApp
  <2> DEFINE v == IF app.fin THEN [app EXCEPT !.deleting = TRUE] ELSE NoApp
  <2>1. app \in Versions /\ app # NoApp /\ ~app.deleting
    BY <1>1, <1>4 DEF DeleteApp, Live, Exists
  <2>2. /\ v \in Versions \cup {NoApp}
        /\ v # NoApp => v.life = app.life /\ v.deleting
    <3>1. TRUE \in BOOLEAN /\ 1 \in Sizes
      BY CleanupAssumption DEF Sizes
    <3> QED BY <2>1, <3>1, VersionFields
  <2>3. StoreApp(v) /\ UserActs /\ lives' = lives /\ mishaps' = mishaps
    BY <1>4 DEF DeleteApp, countVars
  <2>4. \A u \in {appCache, copy} : u.deleting /\ u.life = v.life => v.deleting
    BY <1>1, <2>2, LifeFacts
  <2> HIDE DEF v
  <2> QED BY <1>2, <2>1, <2>2, <2>3, <2>4, UserKeeps
<1>5. ASSUME NEW n \in Sizes, CreateApp(n) PROVE CleanupInv'
  <2> DEFINE v == [life |-> lives + 1, deleting |-> FALSE, fin |-> FALSE, size |-> n]
  <2>1. app = NoApp /\ lives' = lives + 1 /\ lives' \in Lives /\ mishaps' = mishaps
    BY <1>2, <1>5, CleanupAssumption DEF CreateApp, Exists, Lives
  <2>2. v \in Versions /\ v.life = lives + 1 /\ ~v.deleting
    BY <2>1 DEF Versions
  <2>3. StoreApp(v) /\ UserActs
    BY <1>5 DEF CreateApp
  <2>4. \A u \in {appCache, copy} : u.life <= lives
    BY <1>1, <1>2, LifeFacts DEF CleanupInv, LivesInv, InOrder
  <2>5. \A o \in Ordinals : claims[o].life <= lives /\ claims[o].life \in Nat
    BY LifeFacts DEF CleanupInv, LivesInv, CleanupTypeOK
  <2>6. \A u \in {appCache, copy} : u.life \in Nat
    BY <1>1, LifeFacts
  <2>7. ~app.deleting
    BY <2>1, LifeFacts
  <2>8. \A u \in {appCache, copy} : u.life # v.life
    BY <1>2, <2>2, <2>4, <2>6
  <2>9. \A o \in Ordinals : claims[o].life # v.life
    BY <1>2, <2>2, <2>5
  <2> HIDE DEF v
  <2> QED BY <1>2, <2>1, <2>2, <2>3, <2>7, <2>8, <2>9, UserKeeps
<1> QED BY <1>3, <1>4, <1>5 DEF Users

\* The informers catch up.
LEMMA CleanupInformers ==
  ASSUME CleanupInv, AppCatchesUp \/ ClaimsCatchUp
  PROVE  CleanupInv'
<1> USE DEF CleanupInv
<1>1. CASE AppCatchesUp
  <2>1. /\ appCache' = app /\ cacheFresh' = TRUE /\ app' = app
        /\ workerVars' = workerVars /\ clusterVars' = clusterVars
        /\ claimCache' = claimCache /\ listed' = listed /\ countVars' = countVars
    BY <1>1 DEF AppCatchesUp
  <2>2. CleanupTypeOK'
    BY <2>1 DEF CleanupTypeOK, workerVars, clusterVars
  <2>3. LivesInv'
    <3>1. copy # NoApp => copy.life <= lives
      BY DEF LivesInv, InOrder
    <3>2. InOrder(app)
      BY LifeFacts DEF LivesInv, InOrder
    <3> QED BY <2>1, <3>1, <3>2 DEF LivesInv, InOrder, workerVars, clusterVars, countVars
  <2>4. CopyInv'
    BY <2>1 DEF CopyInv, Marked, workerVars
  <2>5. ListedInv' /\ ListedClaimsGo' /\ LiveClaimsStay'
    BY <2>1 DEF ListedInv, ListedClaimsGo, LiveClaimsStay, Live, Exists, Bound, workerVars,
                clusterVars
  <2> QED BY <2>2, <2>3, <2>4, <2>5
<1>2. CASE ClaimsCatchUp
  <2>1. /\ claimCache' = StoredClaims /\ appVars' = appVars /\ workerVars' = workerVars
        /\ clusterVars' = clusterVars /\ listed' = listed /\ countVars' = countVars
    BY <1>2 DEF ClaimsCatchUp
  <2>2. CleanupTypeOK'
    BY <2>1 DEF CleanupTypeOK, StoredClaims, appVars, workerVars, clusterVars
  <2>3. LivesInv' /\ CopyInv'
    BY <2>1 DEF LivesInv, InOrder, CopyInv, Marked, appVars, workerVars, clusterVars, countVars
  <2>4. \A o \in listed : o \in Ordinals /\ claims[o].state # "absent"
    BY DEF ListedInv, CleanupTypeOK
  <2>5. ListedInv' /\ ListedClaimsGo' /\ LiveClaimsStay'
    BY <2>1, <2>4 DEF ListedInv, ListedClaimsGo, LiveClaimsStay, Live, Exists, Bound,
                      StoredClaims, appVars, workerVars, clusterVars
  <2> QED BY <2>2, <2>3, <2>5
<1> QED BY <1>1, <1>2

\* A return forgets the copy and leaves the store and the cluster alone.
LEMMA ReturnKeeps ==
  ASSUME CleanupInv, NEW r, Return(r),
         UNCHANGED <<appVars, clusterVars, claimCache, listed>>,
         lives' = lives, mishaps' \in Nat
  PROVE  CleanupInv'
<1> USE DEF CleanupInv
<1>1. /\ pc' = "idle" /\ copy' = NoApp /\ copyFresh' = FALSE /\ attempt' = 0 /\ toDelete' = {}
      /\ app' = app /\ appCache' = appCache /\ cacheFresh' = cacheFresh
      /\ sts' = sts /\ pods' = pods /\ claims' = claims
      /\ claimCache' = claimCache /\ listed' = listed /\ lives' = lives
  BY DEF Return, appVars, clusterVars
<1>2. CleanupTypeOK'
  BY <1>1 DEF CleanupTypeOK, MaxAttempts
<1>3. LivesInv'
  BY <1>1 DEF LivesInv, InOrder
<1>4. CopyInv'
  BY <1>1, LifeFacts DEF CopyInv, Marked
<1>5. ListedInv' /\ ListedClaimsGo' /\ LiveClaimsStay'
  BY <1>1 DEF ListedInv, ListedClaimsGo, LiveClaimsStay, Live, Exists, Bound
<1> QED BY <1>2, <1>3, <1>4, <1>5

\* A cycle starts with the cached version, or does nothing.
LEMMA CleanupStarts ==
  ASSUME CleanupInv, StartReconcile
  PROVE  CleanupInv'
<1> USE DEF CleanupInv
<1>1. /\ app' = app /\ appCache' = appCache /\ cacheFresh' = cacheFresh /\ pc = "idle"
      /\ attempt' = attempt /\ toDelete' = toDelete /\ sts' = sts /\ pods' = pods
      /\ claims' = claims /\ claimCache' = claimCache /\ listed' = listed
      /\ lives' = lives /\ mishaps' = mishaps /\ pc' = FirstCall(appCache)
  BY DEF StartReconcile, appVars, clusterVars, countVars
<1>2. \/ pc' = "idle" /\ copy' = NoApp /\ copyFresh' = copyFresh /\ ~copyFresh
      \/ /\ pc' \in {"add", "apply", "list"} /\ (pc' = "list" => appCache.deleting)
         /\ copy' = appCache /\ copyFresh' = cacheFresh /\ appCache \in Versions /\ appCache # NoApp
  <2>1. appCache # NoApp => appCache \in Versions
    BY DEF CleanupTypeOK
  <2>2. copy = NoApp /\ ~copyFresh
    BY <1>1 DEF CleanupTypeOK, CopyInv
  <2>3. FirstCall(NoApp) = "idle"
    BY LifeFacts DEF FirstCall
  <2>4. FirstCall(appCache) \in {"add", "apply", "list", "idle"}
        /\ (FirstCall(appCache) = "list" => appCache.deleting)
    BY DEF FirstCall
  <2>5. IF pc' = "idle" THEN UNCHANGED <<copy, copyFresh>>
        ELSE copy' = appCache /\ copyFresh' = cacheFresh
    BY DEF StartReconcile
  <2> QED BY <1>1, <2>1, <2>2, <2>3, <2>4, <2>5
<1>3. CleanupTypeOK'
  BY <1>1, <1>2 DEF CleanupTypeOK
<1>4. LivesInv'
  <2>1. appCache # NoApp => appCache.life \in Nat
    BY LifeFacts DEF CleanupTypeOK
  <2> QED BY <1>1, <1>2, <2>1 DEF LivesInv, InOrder
<1>5. CopyInv'
  BY <1>1, <1>2, LifeFacts DEF CopyInv, Marked, CleanupTypeOK
<1>6. ListedInv' /\ ListedClaimsGo' /\ LiveClaimsStay'
  BY <1>1, <1>2 DEF ListedInv, ListedClaimsGo, LiveClaimsStay, Live, Exists, Bound
<1> QED BY <1>3, <1>4, <1>5, <1>6

\* A live application gets its finalizer and its StatefulSet.
LEMMA CleanupApplies ==
  ASSUME CleanupInv, AddFinalizer \/ ApplyStatefulSet
  PROVE  CleanupInv'
<1> USE DEF CleanupInv
<1>1. CASE AddFinalizer
  <2>1. /\ pc = "add" /\ copyFresh /\ pc' = "apply" /\ attempt' = 0 /\ copy' = copy
        /\ copyFresh' = copyFresh /\ toDelete' = toDelete /\ sts' = sts /\ pods' = pods
        /\ claims' = claims /\ claimCache' = claimCache /\ listed' = listed
        /\ lives' = lives /\ mishaps' = mishaps /\ appCache' = appCache
    BY <1>1 DEF AddFinalizer, StoreApp, appVars, clusterVars, countVars
  <2>2. copy # NoApp /\ copy.life = app.life /\ copy \in Versions
    BY <2>1 DEF CopyInv, CleanupTypeOK
  <2>3. app \in Versions /\ app # NoApp
    BY <2>2, LifeFacts DEF CleanupTypeOK
  <2>4. /\ app' \in Versions /\ app' # NoApp /\ app'.life = app.life /\ app'.deleting = app.deleting
        /\ cacheFresh' => app' = app /\ cacheFresh
    <3>1. TRUE \in BOOLEAN /\ 1 \in Sizes
      BY CleanupAssumption DEF Sizes
    <3>2. CASE app.fin
      BY <1>1, <2>3, <3>2 DEF AddFinalizer, appVars
    <3>3. CASE ~app.fin
      <4>1. app' = [app EXCEPT !.fin = TRUE] /\ cacheFresh' = FALSE
        BY <1>1, <3>3 DEF AddFinalizer, StoreApp
      <4>2. [app EXCEPT !.fin = TRUE] \in Versions
            /\ [app EXCEPT !.fin = TRUE].life = app.life
            /\ [app EXCEPT !.fin = TRUE].deleting = app.deleting
        BY <2>3, <3>1, VersionFields
      <4> QED BY <4>1, <4>2, LifeFacts
    <3> QED BY <3>2, <3>3
  <2>5. CleanupTypeOK'
    BY <2>1, <2>2, <2>4 DEF CleanupTypeOK, MaxAttempts
  <2>6. LivesInv' /\ CopyInv'
    BY <2>1, <2>2, <2>3, <2>4 DEF LivesInv, InOrder, CopyInv, Marked
  <2>7. ListedInv' /\ ListedClaimsGo' /\ LiveClaimsStay'
    BY <2>1, <2>3, <2>4 DEF ListedInv, ListedClaimsGo, LiveClaimsStay, Live, Exists, Bound
  <2> QED BY <2>5, <2>6, <2>7
<1>2. CASE ApplyStatefulSet
  <2>1. /\ pc = "apply" /\ sts' = [owner |-> copy.life, size |-> copy.size]
        /\ pc' = "idle" /\ copy' = NoApp /\ copyFresh' = FALSE /\ attempt' = 0 /\ toDelete' = {}
        /\ app' = app /\ appCache' = appCache /\ cacheFresh' = cacheFresh /\ pods' = pods
        /\ claims' = claims /\ claimCache' = claimCache /\ listed' = listed
        /\ lives' = lives /\ mishaps' = mishaps
    BY <1>2 DEF ApplyStatefulSet, Return, appVars, countVars
  <2>2. copy \in Versions /\ copy # NoApp /\ copy.life <= lives /\ copy.life \in Lives
        /\ copy.size \in Sizes
    BY <2>1 DEF CleanupTypeOK, LivesInv, InOrder, Versions
  <2>3. CleanupTypeOK'
    BY <2>1, <2>2 DEF CleanupTypeOK, MaxAttempts
  <2>4. LivesInv'
    BY <2>1, <2>2 DEF LivesInv, InOrder
  <2>5. CopyInv'
    BY <2>1, LifeFacts DEF CopyInv, Marked
  <2>6. ListedInv' /\ ListedClaimsGo' /\ LiveClaimsStay'
    BY <2>1 DEF ListedInv, ListedClaimsGo, LiveClaimsStay, Live, Exists, Bound
  <2> QED BY <2>3, <2>4, <2>5, <2>6
<1> QED BY <1>1, <1>2

\* The step from one claim to the next changes the copy's finalizer only, and
\* says by pc whether claims are left.
LEMMA GoesOn ==
  ASSUME CleanupInv, pc \in {"list", "delete"}, NEW rest \in SUBSET Ordinals, GoOnDeleting(rest)
  PROVE  /\ copy \in Versions /\ copy # NoApp /\ copy.deleting
         /\ copy' \in Versions /\ copy' # NoApp /\ copy'.life = copy.life /\ copy'.deleting
         /\ toDelete' = rest /\ pc' = (IF rest = {} THEN "remove" ELSE "delete")
         /\ copyFresh' = copyFresh /\ attempt' = attempt
<1>1. copy \in Versions /\ copy # NoApp /\ copy.deleting
  BY DEF CleanupInv, CleanupTypeOK, CopyInv
<1>2. copy' = [copy EXCEPT !.fin = TRUE] \/ copy' = [copy EXCEPT !.fin = FALSE]
  <2>1. (rest # {}) = TRUE \/ (rest # {}) = FALSE
    OBVIOUS
  <2>2. copy' = [copy EXCEPT !.fin = (rest # {})]
    BY DEF GoOnDeleting
  <2> QED BY ONLY <2>1, <2>2, Zenon
<1>3. copy' \in Versions /\ copy'.life = copy.life /\ copy'.deleting = copy.deleting
  <2>1. /\ copy' \in Versions
        /\ copy'.life = copy.life
    BY <1>1, <1>2 DEF Versions
  <2>2. copy'.deleting = copy.deleting
    BY <1>1, <1>2 DEF Versions
  <2> QED BY <2>1, <2>2
<1> QED BY <1>1, <1>3, LifeFacts DEF GoOnDeleting

\* What the copy's next version has to meet is met by the one before.
LEMMA SameLife ==
  ASSUME CleanupInv, copy # NoApp, copy' # NoApp, copy'.life = copy.life,
         copy'.deleting = copy.deleting, copyFresh' = copyFresh,
         UNCHANGED <<appVars, sts, lives, mishaps>>,
         \A o \in Ordinals : claims'[o].life = claims[o].life,
         pc' \in {"list", "delete"} => copy.deleting
  PROVE  LivesInv' /\ CopyInv'
BY DEF CleanupInv, LivesInv, InOrder, CopyInv, Marked, appVars

\* The claims are listed.
LEMMA CleanupLists ==
  ASSUME CleanupInv, ListClaims
  PROVE  CleanupInv'
<1> USE DEF CleanupInv
<1> DEFINE rest == {o \in Ordinals : claimCache[o] # "none"}
<1>1. /\ pc = "list" /\ rest \in SUBSET Ordinals /\ GoOnDeleting(rest)
      /\ UNCHANGED <<appVars, clusterVars, claimCache, countVars>>
  BY DEF ListClaims
<1>2. /\ copy \in Versions /\ copy # NoApp /\ copy.deleting
      /\ copy' \in Versions /\ copy' # NoApp /\ copy'.life = copy.life /\ copy'.deleting
      /\ toDelete' = rest /\ pc' = (IF rest = {} THEN "remove" ELSE "delete")
      /\ copyFresh' = copyFresh /\ attempt' = attempt
  BY <1>1, GoesOn
<1>3. /\ app' = app /\ appCache' = appCache /\ cacheFresh' = cacheFresh /\ sts' = sts
      /\ pods' = pods /\ claims' = claims /\ claimCache' = claimCache
      /\ lives' = lives /\ mishaps' = mishaps
  BY <1>1 DEF appVars, clusterVars, countVars
<1>4. /\ \A o \in listed' : o \in Ordinals /\ claimCache[o] = "this"
      /\ ~app.deleting => listed' = listed
  <2>1. app.life = copy.life => app.deleting
    BY <1>2 DEF CopyInv, Marked
  <2>2. listed' = IF app.life = copy.life
                    THEN listed \cup {o \in Ordinals : claimCache[o] = "this"} ELSE listed
    BY DEF ListClaims
  <2> QED BY <2>1, <2>2 DEF ListedInv
<1>5. \A o \in listed' : o \in rest /\ claims[o].state # "absent"
  BY <1>4 DEF ListedInv
<1> HIDE DEF rest
<1>6. CleanupTypeOK'
  BY <1>1, <1>2, <1>3, <1>5 DEF CleanupTypeOK
<1>7. LivesInv' /\ CopyInv'
  BY <1>2, <1>3, SameLife DEF appVars
<1>8. ListedInv' /\ ListedClaimsGo' /\ LiveClaimsStay'
  BY <1>2, <1>3, <1>4, <1>5 DEF ListedInv, ListedClaimsGo, LiveClaimsStay, Live, Exists, Bound
<1> QED BY <1>6, <1>7, <1>8

\* A claim is deleted.  It is of the copy's life or an older one, and that is
\* not the life of an application that is not being deleted.
LEMMA CleanupDeletes ==
  ASSUME CleanupInv, DeleteClaim
  PROVE  CleanupInv'
<1> USE DEF CleanupInv
<1>1. PICK o \in toDelete :
        /\ GoOnDeleting(toDelete \ {o})
        /\ claims' = IF Bound(o) THEN [claims EXCEPT ![o].state = "going"] ELSE claims
  BY DEF DeleteClaim
<1> DEFINE rest == toDelete \ {o}
<1>2. pc = "delete" /\ o \in Ordinals /\ rest \in SUBSET Ordinals /\ GoOnDeleting(rest)
  BY <1>1 DEF DeleteClaim, CleanupTypeOK
<1>3. /\ copy \in Versions /\ copy # NoApp /\ copy.deleting
      /\ copy' \in Versions /\ copy' # NoApp /\ copy'.life = copy.life /\ copy'.deleting
      /\ toDelete' = rest /\ pc' = (IF rest = {} THEN "remove" ELSE "delete")
      /\ copyFresh' = copyFresh /\ attempt' = attempt
  BY <1>2, GoesOn
<1>4. /\ app' = app /\ appCache' = appCache /\ cacheFresh' = cacheFresh /\ sts' = sts
      /\ pods' = pods /\ claimCache' = claimCache /\ listed' = listed
      /\ lives' = lives /\ mishaps' = mishaps
  BY DEF DeleteClaim, appVars, countVars
<1>5. /\ claims' \in [Ordinals -> [state : {"bound", "going", "absent"}, life : Lives \cup {0}]]
      /\ \A q \in Ordinals : /\ claims'[q].life = claims[q].life
                             /\ q # o => claims'[q].state = claims[q].state
      /\ claims'[o].state = IF Bound(o) THEN "going" ELSE claims[o].state
  <2>1. claims \in [Ordinals -> [state : {"bound", "going", "absent"}, life : Lives \cup {0}]]
    BY DEF CleanupTypeOK
  <2>2. CASE Bound(o)
    BY <1>1, <1>2, <2>1, <2>2
  <2>3. CASE ~Bound(o)
    BY <1>1, <1>2, <2>1, <2>3
  <2> QED BY <2>2, <2>3
<1>6. \A q \in Ordinals : claims[q].state # "absent" => claims'[q].state # "absent"
  BY <1>5
<1>7. ~Bound(o)' /\ \A q \in Ordinals : Bound(q)' => Bound(q)
  BY <1>2, <1>5 DEF Bound
<1>8. Live => claims[o].life # app.life
  <2>1. Live => copy.life # app.life /\ app.life = lives
    BY <1>3 DEF CopyInv, Marked, Live, Exists, LivesInv
  <2>2. copy.life <= lives /\ claims[o].life <= copy.life
    BY <1>2, <1>3 DEF LivesInv, InOrder
  <2>3. copy.life \in Nat /\ lives \in Nat /\ claims[o].life \in Nat
    BY <1>2, <1>3, LifeFacts DEF CleanupTypeOK, LivesInv
  <2> QED BY <2>1, <2>2, <2>3
<1> HIDE DEF rest
<1>9. CleanupTypeOK'
  <2>1. \A q \in listed : q \in Ordinals
    BY DEF ListedInv
  <2> QED BY <1>2, <1>3, <1>4, <1>5, <1>6, <2>1 DEF CleanupTypeOK
<1>10. LivesInv' /\ CopyInv'
  BY <1>3, <1>4, <1>5, SameLife DEF appVars
<1>11. ListedInv'
  <2>1. \A q \in listed : Bound(q)' => q \in rest
    BY <1>2, <1>7 DEF ListedInv, rest
  <2> QED BY <1>3, <1>4, <1>6, <2>1 DEF ListedInv
<1>12. ListedClaimsGo' /\ LiveClaimsStay'
  <2>1. ListedClaimsGo'
    BY <1>4, <1>7 DEF ListedInv, ListedClaimsGo
  <2>2. LiveClaimsStay'
    BY <1>4, <1>5, <1>8 DEF LiveClaimsStay, Live, Exists
  <2> QED BY <2>1, <2>2
<1> QED BY <1>9, <1>10, <1>11, <1>12

\* The finalizer is taken out of the stored application, which had been marked
\* or is a later version that is live.
LEMMA CleanupRemoves ==
  ASSUME CleanupInv, RemoveFinalizer
  PROVE  CleanupInv'
<1> USE DEF CleanupInv
<1>1. /\ pc = "remove" /\ copyFresh
      /\ pc' = "idle" /\ copy' = NoApp /\ copyFresh' = FALSE /\ attempt' = 0 /\ toDelete' = {}
      /\ sts' = sts /\ pods' = pods /\ claims' = claims /\ claimCache' = claimCache
      /\ listed' = listed /\ lives' = lives /\ mishaps' = mishaps /\ appCache' = appCache
  BY DEF RemoveFinalizer, Return, StoreApp, clusterVars, countVars, appVars
<1>2. app \in Versions /\ app # NoApp
  <2>1. copy # NoApp /\ copy.life = app.life /\ copy \in Versions
    BY <1>1 DEF CopyInv, CleanupTypeOK
  <2> QED BY <2>1, LifeFacts DEF CleanupTypeOK
<1>3. \/ app.deleting /\ app' = NoApp /\ cacheFresh' = FALSE
      \/ /\ ~app.deleting /\ app' \in Versions /\ app' # NoApp /\ app'.life = app.life
         /\ ~app'.deleting /\ (cacheFresh' => app' = app /\ cacheFresh)
  <2>1. CASE app.deleting
    BY <2>1 DEF RemoveFinalizer, StoreApp
  <2>2. CASE ~app.deleting /\ app.fin
    <3>1. app' = [app EXCEPT !.fin = FALSE] /\ cacheFresh' = FALSE
      BY <2>2 DEF RemoveFinalizer, StoreApp
    <3>2. app' \in Versions /\ app'.life = app.life /\ app'.deleting = app.deleting
      BY <1>2, <3>1 DEF Versions
    <3> QED BY <2>2, <3>1, <3>2, LifeFacts
  <2>3. CASE ~app.deleting /\ ~app.fin
    BY <1>2, <2>3 DEF RemoveFinalizer, appVars
  <2> QED BY <2>1, <2>2, <2>3
<1>4. CleanupTypeOK'
  BY <1>1, <1>3 DEF CleanupTypeOK, MaxAttempts
<1>5. LivesInv'
  BY <1>1, <1>2, <1>3 DEF LivesInv, InOrder
<1>6. CopyInv'
  <2>1. appCache.deleting => appCache.life \in Lives
    BY LifeFacts DEF CleanupTypeOK
  <2> QED BY <1>1, <1>3, <2>1, LifeFacts DEF CopyInv, Marked
<1>7. ListedInv' /\ ListedClaimsGo'
  BY <1>1, LifeFacts DEF ListedInv, ListedClaimsGo, Bound
<1>8. LiveClaimsStay'
  BY <1>1, <1>2, <1>3 DEF LiveClaimsStay, Live, Exists
<1> QED BY <1>4, <1>5, <1>6, <1>7, <1>8

\* A write conflicts, or finds no object, or a call fails.
LEMMA CleanupConflicts ==
  ASSUME CleanupInv, Conflict \/ UpdateNotFound \/ CallFails
  PROVE  CleanupInv'
<1>1. lives \in Lives /\ mishaps \in Nat
  BY DEF CleanupInv, LivesInv
<1>2. CASE CallFails
  <2>1. Return(TRUE) /\ Mishap /\ UNCHANGED <<appVars, clusterVars, claimCache, listed>>
    BY ONLY <1>2 DEF CallFails, Failing
  <2>2. lives' = lives /\ mishaps' \in Nat
    BY <1>1, <2>1 DEF Mishap
  <2> QED BY <2>1, <2>2, ReturnKeeps
<1>3. CASE UpdateNotFound
  BY <1>1, <1>3, ReturnKeeps DEF UpdateNotFound, countVars
<1>4. CASE Conflict
  <2>1. CASE \E r \in {TRUE, pc = "add"} : Return(r)
    BY <1>1, <1>4, <2>1, ReturnKeeps DEF Conflict, countVars
  <2>2. CASE /\ appCache # NoApp /\ attempt + 1 < MaxAttempts
             /\ attempt' = attempt + 1
             /\ copy' = [appCache EXCEPT !.fin = (pc = "add")] /\ copyFresh' = cacheFresh
             /\ UNCHANGED <<pc, toDelete, queued>>
    <3> USE DEF CleanupInv
    <3>1. /\ app' = app /\ appCache' = appCache /\ cacheFresh' = cacheFresh /\ sts' = sts
          /\ pods' = pods /\ claims' = claims /\ claimCache' = claimCache /\ listed' = listed
          /\ lives' = lives /\ mishaps' = mishaps /\ pc' = pc /\ toDelete' = toDelete
          /\ pc \in {"add", "remove"}
      BY <1>4, <2>2 DEF Conflict, appVars, clusterVars, countVars
    <3>2. appCache \in Versions
      BY <2>2 DEF CleanupTypeOK
    <3>3. copy' = [appCache EXCEPT !.fin = TRUE] \/ copy' = [appCache EXCEPT !.fin = FALSE]
      BY <2>2, <3>1
    <3>4. /\ copy' \in Versions /\ copy'.life = appCache.life
          /\ copy'.deleting = appCache.deleting
      BY <3>2, <3>3 DEF Versions
    <3>5. copy' # NoApp
      BY <3>4, LifeFacts
    <3>6. CleanupTypeOK'
      BY <2>2, <3>1, <3>4, <3>5 DEF CleanupTypeOK, MaxAttempts
    <3>7. LivesInv' /\ CopyInv'
      <4>1. appCache.life \in Nat
        BY <3>2, LifeFacts
      <4> QED BY <2>2, <3>1, <3>4, <3>5, <4>1 DEF LivesInv, InOrder, CopyInv, Marked, CleanupTypeOK
    <3>8. ListedInv' /\ ListedClaimsGo' /\ LiveClaimsStay'
      BY <3>1 DEF ListedInv, ListedClaimsGo, LiveClaimsStay, Live, Exists, Bound
    <3> QED BY <3>6, <3>7, <3>8
  <2> QED BY <1>4, <2>1, <2>2 DEF Conflict
<1> QED BY <1>2, <1>3, <1>4

\* The operator restarts with what is stored.
LEMMA CleanupRestarts ==
  ASSUME CleanupInv, Restart
  PROVE  CleanupInv'
<1> USE DEF CleanupInv
<1>1. /\ pc' = "idle" /\ copy' = NoApp /\ copyFresh' = FALSE /\ attempt' = 0 /\ toDelete' = {}
      /\ app' = app /\ appCache' = app /\ claimCache' = StoredClaims
      /\ sts' = sts /\ pods' = pods /\ claims' = claims /\ listed' = listed /\ lives' = lives
  BY DEF Restart, Return, clusterVars, Mishap
<1>2. mishaps' \in Nat
  BY DEF Restart, Mishap, LivesInv
<1>3. CleanupTypeOK'
  BY <1>1 DEF CleanupTypeOK, MaxAttempts, StoredClaims
<1>4. LivesInv' /\ CopyInv'
  <2>1. lives \in Nat /\ InOrder(app)
    BY LifeFacts DEF LivesInv, InOrder
  <2> QED BY <1>1, <1>2, <2>1, LifeFacts DEF LivesInv, InOrder, CopyInv, Marked
<1>5. ListedInv' /\ ListedClaimsGo' /\ LiveClaimsStay'
  <2>1. \A o \in listed : o \in Ordinals /\ claims[o].state # "absent"
    BY DEF ListedInv, CleanupTypeOK
  <2> QED BY <1>1, <2>1 DEF ListedInv, ListedClaimsGo, LiveClaimsStay, Live, Exists, Bound,
                            StoredClaims
<1> QED BY <1>3, <1>4, <1>5

\* Pods come and go without touching what the cleanup looks at.
LEMMA PodsKeep ==
  ASSUME CleanupInv, pods' \in [Ordinals -> {"run", "orphan", "none"}],
         UNCHANGED <<appVars, workerVars, sts, claims, claimCache, listed>>,
         lives' = lives, mishaps' \in Nat
  PROVE  CleanupInv'
<1> USE DEF CleanupInv
<1>1. /\ app' = app /\ appCache' = appCache /\ cacheFresh' = cacheFresh /\ sts' = sts
      /\ copy' = copy /\ copyFresh' = copyFresh /\ pc' = pc /\ attempt' = attempt
      /\ toDelete' = toDelete /\ claims' = claims /\ claimCache' = claimCache
      /\ listed' = listed
  BY DEF appVars, workerVars
<1>2. CleanupTypeOK'
  BY <1>1 DEF CleanupTypeOK
<1>3. LivesInv' /\ CopyInv'
  BY <1>1 DEF LivesInv, InOrder, CopyInv, Marked
<1>4. ListedInv' /\ ListedClaimsGo' /\ LiveClaimsStay'
  BY <1>1 DEF ListedInv, ListedClaimsGo, LiveClaimsStay, Live, Exists, Bound
<1> QED BY <1>2, <1>3, <1>4

\* A claim that is not marked changes hands, or is made: it then belongs to the
\* life of the StatefulSet, and no version the worker knows is older.
LEMMA ClaimTaken ==
  ASSUME CleanupInv, NEW o \in Ordinals, claims[o].state \in {"absent", "bound"},
         sts # NoSts, pods' \in [Ordinals -> {"run", "orphan", "none"}],
         claims' = [claims EXCEPT ![o] = [state |-> "bound", life |-> sts.owner]],
         UNCHANGED <<appVars, workerVars, sts, claimCache, listed, countVars>>
  PROVE  CleanupInv'
<1> USE DEF CleanupInv
<1>1. /\ app' = app /\ appCache' = appCache /\ cacheFresh' = cacheFresh /\ sts' = sts
      /\ copy' = copy /\ copyFresh' = copyFresh /\ pc' = pc /\ attempt' = attempt
      /\ toDelete' = toDelete /\ claimCache' = claimCache /\ listed' = listed
      /\ lives' = lives /\ mishaps' = mishaps
  BY DEF appVars, workerVars, countVars
<1>2. /\ claims' \in [Ordinals -> [state : {"bound", "going", "absent"}, life : Lives \cup {0}]]
      /\ claims'[o] = [state |-> "bound", life |-> sts.owner]
      /\ \A q \in Ordinals : q # o => claims'[q] = claims[q]
  <2>1. claims \in [Ordinals -> [state : {"bound", "going", "absent"}, life : Lives \cup {0}]]
    BY DEF CleanupTypeOK
  <2>2. sts.owner \in Lives
    BY DEF CleanupTypeOK
  <2> QED BY <2>1, <2>2
<1>3. CleanupTypeOK'
  BY <1>1, <1>2 DEF CleanupTypeOK
<1>4. LivesInv' /\ CopyInv'
  BY <1>1, <1>2 DEF LivesInv, InOrder, CopyInv, Marked
<1>5. \A q \in Ordinals :
        (claims[q].state # "absent" => (Bound(q)' <=> Bound(q)))
        /\ (claims'[q].state = "going" => q # o)
  BY <1>2 DEF Bound
<1>6. ListedInv'
  BY <1>1, <1>2, <1>5 DEF ListedInv, CleanupTypeOK
<1>7. ListedClaimsGo' /\ LiveClaimsStay'
  BY <1>1, <1>2, <1>5 DEF ListedInv, ListedClaimsGo, LiveClaimsStay, Live, Exists, CleanupTypeOK
<1> QED BY <1>3, <1>4, <1>6, <1>7

\* A marked claim is removed, and every listing forgets it.
LEMMA ClaimRemoved ==
  ASSUME CleanupInv, NEW o \in Ordinals, RemoveClaim(o)
  PROVE  CleanupInv'
<1> USE DEF CleanupInv
<1>1. /\ app' = app /\ appCache' = appCache /\ cacheFresh' = cacheFresh /\ sts' = sts
      /\ copy' = copy /\ copyFresh' = copyFresh /\ pc' = pc /\ attempt' = attempt
      /\ toDelete' = toDelete /\ pods' = pods /\ lives' = lives /\ mishaps' = mishaps
  BY DEF RemoveClaim, appVars, workerVars, countVars
<1>2. /\ claims' \in [Ordinals -> [state : {"bound", "going", "absent"}, life : Lives \cup {0}]]
      /\ claims'[o] = NoClaim
      /\ \A q \in Ordinals : q # o => claims'[q] = claims[q]
  <2>1. NoClaim \in [state : {"bound", "going", "absent"}, life : Lives \cup {0}]
    BY DEF NoClaim
  <2> QED BY <2>1 DEF RemoveClaim, CleanupTypeOK
<1>3. /\ claimCache' \in [Ordinals -> {"none", "this", "other"}] /\ claimCache'[o] # "this"
      /\ \A q \in Ordinals : q # o => claimCache'[q] = claimCache[q]
  <2>1. claimCache \in [Ordinals -> {"none", "this", "other"}]
    BY DEF CleanupTypeOK
  <2>2. claimCache' = [claimCache EXCEPT ![o] =
                         IF claimCache[o] = "this" THEN "other" ELSE claimCache[o]]
    BY DEF RemoveClaim
  <2> QED BY <2>1, <2>2
<1>4. listed' = listed \ {o} /\ \A q \in listed' : q \in listed /\ q # o /\ q \in Ordinals
  BY DEF RemoveClaim, ListedInv
<1>5. CleanupTypeOK'
  BY <1>1, <1>2, <1>3, <1>4 DEF CleanupTypeOK
<1>6. LivesInv' /\ CopyInv'
  <2>1. \A v \in {appCache, copy} : v # NoApp => v.life \in Nat
    BY LifeFacts DEF CleanupTypeOK
  <2>2. lives \in Nat
    BY LifeFacts DEF LivesInv
  <2> QED BY <1>1, <1>2, <2>1, <2>2, LifeFacts DEF LivesInv, InOrder, CopyInv, Marked
<1>7. ListedInv'
  BY <1>1, <1>2, <1>3, <1>4 DEF ListedInv, Bound
<1>8. ListedClaimsGo' /\ LiveClaimsStay'
  BY <1>1, <1>2, <1>4, LifeFacts DEF ListedClaimsGo, LiveClaimsStay, Live, Exists, Bound
<1> QED BY <1>5, <1>6, <1>7, <1>8

\* The garbage collector removes the StatefulSet.
LEMMA StatefulSetCollected ==
  ASSUME CleanupInv, CollectStatefulSet
  PROVE  CleanupInv'
<1> USE DEF CleanupInv
<1>1. /\ app' = app /\ appCache' = appCache /\ cacheFresh' = cacheFresh /\ sts' = NoSts
      /\ copy' = copy /\ copyFresh' = copyFresh /\ pc' = pc /\ attempt' = attempt
      /\ toDelete' = toDelete /\ claims' = claims /\ claimCache' = claimCache
      /\ listed' = listed /\ lives' = lives /\ mishaps' = mishaps
  BY DEF CollectStatefulSet, appVars, workerVars, countVars
<1>2. CleanupTypeOK'
  BY <1>1 DEF CleanupTypeOK, CollectStatefulSet
<1>3. LivesInv' /\ CopyInv'
  <2>1. \A v \in {appCache, copy} : v # NoApp => v.life \in Nat
    BY LifeFacts DEF CleanupTypeOK
  <2>2. lives \in Nat /\ sts'.owner = 0
    BY <1>1, LifeFacts DEF LivesInv, NoSts
  <2> QED BY <1>1, <2>1, <2>2 DEF LivesInv, InOrder, CopyInv, Marked
<1>4. ListedInv' /\ ListedClaimsGo' /\ LiveClaimsStay'
  BY <1>1 DEF ListedInv, ListedClaimsGo, LiveClaimsStay, Live, Exists, Bound
<1> QED BY <1>2, <1>3, <1>4

\* The controllers of the cluster, per ordinal.
LEMMA CleanupCluster ==
  ASSUME CleanupInv, NEW o \in Ordinals, PodsAndClaims(o) \/ Evict(o)
  PROVE  CleanupInv'
<1>1. /\ pods \in [Ordinals -> {"run", "orphan", "none"}]
      /\ claims \in [Ordinals -> [state : {"bound", "going", "absent"}, life : Lives \cup {0}]]
  BY DEF CleanupInv, CleanupTypeOK
<1>2. \A x \in {"run", "none"} : [pods EXCEPT ![o] = x] \in [Ordinals -> {"run", "orphan", "none"}]
  BY <1>1
<1>3. mishaps \in Nat
  BY DEF CleanupInv, LivesInv
<1>4. CASE CreateClaim(o)
  BY <1>1, <1>4, ClaimTaken DEF CreateClaim
<1>5. CASE CreatePod(o)
  <2>1. claims[o].state = "bound" /\ claims' = [claims EXCEPT ![o].life = sts.owner]
    BY <1>5 DEF CreatePod, Bound
  <2>2. claims' = [claims EXCEPT ![o] = [state |-> "bound", life |-> sts.owner]]
    <3>1. claims[o] \in [state : {"bound", "going", "absent"}, life : Lives \cup {0}]
      BY <1>1
    <3>2. [claims[o] EXCEPT !.life = sts.owner] = [state |-> "bound", life |-> sts.owner]
      BY <2>1, <3>1
    <3>3. claims' = [claims EXCEPT ![o] = [claims[o] EXCEPT !.life = sts.owner]]
      BY <1>1, <2>1
    <3> QED BY <3>2, <3>3
  <2>3. sts # NoSts /\ pods' \in [Ordinals -> {"run", "orphan", "none"}]
    BY <1>2, <1>5 DEF CreatePod
  <2>4. UNCHANGED <<appVars, workerVars, sts, claimCache, listed, countVars>>
    BY <1>5 DEF CreatePod
  <2> QED BY <2>1, <2>2, <2>3, <2>4, ClaimTaken
<1>6. CASE ScaleDown(o)
  BY <1>2, <1>3, <1>6, PodsKeep DEF ScaleDown, countVars
<1>7. CASE RemoveClaim(o)
  BY <1>7, ClaimRemoved
<1>8. CASE CollectPod(o)
  BY <1>2, <1>3, <1>8, PodsKeep DEF CollectPod, countVars
<1>9. CASE Evict(o)
  BY <1>2, <1>3, <1>9, PodsKeep DEF Evict, Mishap
<1> QED BY <1>4, <1>5, <1>6, <1>7, <1>8, <1>9 DEF PodsAndClaims

\* Every step of the cleanup keeps the invariant.
LEMMA CleanupStep == CleanupInv /\ [CleanupNext]_cleanupVars => CleanupInv'
<1> SUFFICES ASSUME CleanupInv, [CleanupNext]_cleanupVars PROVE CleanupInv'
  OBVIOUS
<1>1. CASE UNCHANGED cleanupVars
  <2>1. UNCHANGED <<appVars, workerVars, sts, claims, claimCache, listed>>
        /\ lives' = lives /\ mishaps' = mishaps /\ pods' = pods
    BY <1>1 DEF cleanupVars, clusterVars, countVars
  <2> QED BY <2>1, PodsKeep DEF CleanupInv, CleanupTypeOK, LivesInv
<1>2. CASE Worker
  BY <1>2, CleanupStarts, CleanupApplies, CleanupLists, CleanupDeletes, CleanupRemoves,
     CleanupConflicts DEF Worker
<1>3. CASE CleanupNext /\ ~Worker
  BY <1>3, CleanupUsers, CleanupInformers, CleanupConflicts, CleanupRestarts,
     StatefulSetCollected, CleanupCluster DEF CleanupNext
<1> QED BY <1>1, <1>2, <1>3

-----------------------------------------------------------------------------
(* The theorems.                                                           *)

\* Whatever fails, conflicts or is repeated, in any number of lives.
LEMMA CleanupAlways == CleanupSpec => []CleanupInv
BY CleanupInitial, CleanupStep, PTL DEF CleanupSpec

\* handleFinalizer: the finalizer only goes when every claim that a listing of
\* the cleanup returned is deleted or marked.
THEOREM CleanupIsDone == CleanupSpec => []ListedClaimsGo
<1>1. CleanupInv => ListedClaimsGo
  BY DEF CleanupInv
<1> QED BY <1>1, CleanupAlways, PTL

\* handleFinalizer deletes by label and name from a copy that may be old, and
\* still marks no claim that an application in use has taken.
THEOREM CleanupIsHarmless == CleanupSpec => []LiveClaimsStay
<1>1. CleanupInv => LiveClaimsStay
  BY DEF CleanupInv
<1> QED BY <1>1, CleanupAlways, PTL
=============================================================================
