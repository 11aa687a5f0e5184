----------------------------- MODULE RolloutProofs -----------------------------
(***************************************************************************)
(* How what a spec wants reaches the cluster: one object through           *)
(* ApplyObjectV2 (ObjectApply), and an edited config through the stamped   *)
(* pod template (ConfigRollout); for any contents, pods and bounds.        *)
(*                                                                         *)
(* Both say that nothing is left undone with nobody to come back: a key    *)
(* that is not queued, or a hash that is saved, stands for work done.      *)
(***************************************************************************)
EXTENDS ObjectApply, ConfigRollout, FiniteSetTheorems, TLAPS

(* The object. *)

\* A call begins with its first try; only ApplyObject patches, and only the
\* cycle around ApplyObjectV2 has something to save.
CallOK ==
  /\ call = "create" => tries = 0
  /\ call = "patch" => variant = "ApplyObject"
  /\ call = "conclude" => variant = "ApplyObjectV2"

\* No cycle is under way while the fast path is open; one that an edit overtook,
\* or whose call failed, is followed by another.
InCycle ==
  /\ call # "none" => ~FastPath /\ (stale => pending)
  /\ call = "conclude" /\ result = "error" => pending

\* A cycle that no edit has overtaken works on what the spec wants.
WorksOnWanted ==
  variant = "ApplyObjectV2" /\ call # "none" /\ ~stale => obj = wanted

\* The call ended well, on what the spec wants: the object is in place, unless
\* another client or an old cache was in between; the cache will tell.
EndsWell ==
  call = "conclude" /\ result # "error" /\ ~stale =>
    /\ ~unseen => InPlace
    /\ ~pending /\ seen = stored => InPlace

\* A recorded change id stands for an object in place, as far as was seen.
RecordedStands == variant = "ApplyObjectV2" /\ FastPath /\ ~unseen => InPlace

\* What is left of a cycle for the time after it.
CycleInv == CallOK /\ InCycle /\ WorksOnWanted /\ EndsWell /\ RecordedStands

ApplyInv == ApplyTypeOK /\ CycleInv /\ RestsOnlyWhenApplied

\* The version of the cache is one that was stored.
LEMMA Versions ==
  ASSUME ApplyTypeOK
  PROVE  /\ stored.ver \in Nat /\ seen.ver \in Nat /\ seen.ver <= stored.ver
         /\ stored.content \in Contents /\ seen.content \in Contents
         /\ stored.exists \in BOOLEAN /\ seen.exists \in BOOLEAN
<1>1. stored \in [exists : BOOLEAN, content : Contents, ver : Nat]
  BY DEF ApplyTypeOK
<1>2. seen \in [exists : BOOLEAN, content : Contents, ver : 0 .. stored.ver]
  BY DEF ApplyTypeOK
<1>3. stored.ver \in Nat /\ seen.ver \in 0 .. stored.ver
  BY <1>1, <1>2
<1> QED BY <1>1, <1>2, <1>3

\* The key is queued, nothing is called and nothing saved.
LEMMA ApplyInitial == ApplyInit => ApplyInv
<1> SUFFICES ASSUME ApplyInit PROVE ApplyInv
  OBVIOUS
<1>1. PICK c \in Contents : stored = [exists |-> FALSE, content |-> c, ver |-> 0]
  BY DEF ApplyInit
<1>2. /\ stored \in [exists : BOOLEAN, content : Contents, ver : Nat]
      /\ seen \in [exists : BOOLEAN, content : Contents, ver : 0 .. stored.ver]
  BY <1>1 DEF ApplyInit
<1>3. ApplyTypeOK
  BY <1>2 DEF ApplyInit, ApplyTypeOK, maxRetries
<1>4. call = "none" /\ pending /\ phase = "other"
  BY DEF ApplyInit
<1>5. CycleInv /\ RestsOnlyWhenApplied
  BY <1>4 DEF CycleInv, CallOK, InCycle, WorksOnWanted, EndsWell, RecordedStands, FastPath,
              RestsOnlyWhenApplied
<1> QED BY <1>3, <1>5 DEF ApplyInv

\* An object is written, by whomever: its version is newer than the cached one
\* or it stays, and with it what the cache can be.
LEMMA WriteTyped ==
  ASSUME ApplyTypeOK, NEW there \in BOOLEAN, NEW content \in Contents,
         NEW ver \in {stored.ver, stored.ver + 1},
         stored' = [exists |-> there, content |-> content, ver |-> ver], UNCHANGED seen
  PROVE  /\ stored' \in [exists : BOOLEAN, content : Contents, ver : Nat]
         /\ seen' \in [exists : BOOLEAN, content : Contents, ver : 0 .. stored'.ver]
<1>1. ver \in Nat /\ 0 .. stored.ver \subseteq 0 .. ver
  BY Versions
<1>2. seen \in [exists : BOOLEAN, content : Contents, ver : 0 .. stored.ver]
  BY DEF ApplyTypeOK
<1>3. stored'.ver = ver
  OBVIOUS
<1> QED BY <1>1, <1>2, <1>3

\* A user edits the spec: the key is queued, a cycle under way is stale, and the
\* saved id is not the spec's.
LEMMA EditWantedKeeps ==
  ASSUME ApplyInv, EditWanted
  PROVE  ApplyInv'
<1>1. /\ wanted' \in Contents /\ recorded' = FALSE /\ stale' = TRUE /\ pending' = TRUE
      /\ UNCHANGED <<variant, stored, seen, phase, call, obj, tries, result, unseen>>
  BY DEF EditWanted
<1>2. ApplyTypeOK'
  BY <1>1 DEF ApplyInv, ApplyTypeOK
<1>3. CycleInv' /\ RestsOnlyWhenApplied'
  BY <1>1 DEF ApplyInv, CycleInv, CallOK, InCycle, WorksOnWanted, EndsWell, RecordedStands,
              FastPath, RestsOnlyWhenApplied
<1> QED BY <1>2, <1>3 DEF ApplyInv

\* Another client writes: the cache is behind, until its event queues the key.
LEMMA WriteByOtherKeeps ==
  ASSUME ApplyInv, WriteByOther
  PROVE  ApplyInv'
<1>1. /\ UNCHANGED <<variant, wanted, suspend, seen, pending, phase, recorded, stale, call, obj,
                     tries, result>>
      /\ unseen' = TRUE
  BY DEF WriteByOther, ownerVars, statusVars, cycleCopy
<1>2. ApplyTypeOK
  BY DEF ApplyInv
<1>3. PICK there \in BOOLEAN, content \in Contents :
        stored' = [exists |-> there, content |-> content, ver |-> stored.ver + 1]
  <2>1. stored \in [exists : BOOLEAN, content : Contents, ver : Nat]
    BY <1>2 DEF ApplyTypeOK
  <2>2. CASE \E c \in Contents : Write([stored EXCEPT !.content = c, !.ver = @ + 1])
    <3>1. PICK c \in Contents : stored' = [stored EXCEPT !.content = c, !.ver = @ + 1]
      BY <2>2 DEF Write
    <3>2. stored' = [exists |-> stored.exists, content |-> c, ver |-> stored.ver + 1]
      BY <2>1, <3>1
    <3> QED BY <1>2, <3>2, Versions
  <2>3. CASE Write([stored EXCEPT !.exists = FALSE, !.ver = @ + 1])
    <3>1. stored' = [exists |-> FALSE, content |-> stored.content, ver |-> stored.ver + 1]
      BY <2>1, <2>3 DEF Write
    <3> QED BY <1>2, <3>1, Versions
  <2> QED BY <2>2, <2>3 DEF WriteByOther
<1>4. /\ stored' \in [exists : BOOLEAN, content : Contents, ver : Nat]
      /\ seen' \in [exists : BOOLEAN, content : Contents, ver : 0 .. stored'.ver]
  BY <1>1, <1>2, <1>3, WriteTyped
<1>5. seen' # stored'
  BY <1>1, <1>2, <1>3, Versions
<1>6. ApplyTypeOK'
  BY <1>1, <1>4 DEF ApplyInv, ApplyTypeOK
<1>7. CycleInv' /\ RestsOnlyWhenApplied'
  BY <1>1, <1>5 DEF ApplyInv, CycleInv, CallOK, InCycle, WorksOnWanted, EndsWell, RecordedStands,
                    FastPath, RestsOnlyWhenApplied
<1> QED BY <1>6, <1>7 DEF ApplyInv

\* The cache catches up, and the key is queued.
LEMMA SyncKeeps ==
  ASSUME ApplyInv, CacheSync
  PROVE  ApplyInv'
<1>1. /\ seen' = stored /\ pending' = TRUE
      /\ UNCHANGED <<variant, wanted, suspend, stored, phase, recorded, stale, call, obj, tries,
                     result, unseen>>
  BY DEF CacheSync, ownerVars, statusVars, cycleCopy
<1>2. stored \in [exists : BOOLEAN, content : Contents, ver : Nat]
  BY DEF ApplyInv, ApplyTypeOK
<1>3. seen' \in [exists : BOOLEAN, content : Contents, ver : 0 .. stored'.ver]
  BY <1>1, <1>2
<1>4. ApplyTypeOK'
  BY <1>1, <1>3 DEF ApplyInv, ApplyTypeOK
<1>5. CycleInv' /\ RestsOnlyWhenApplied'
  BY <1>1 DEF ApplyInv, CycleInv, CallOK, InCycle, WorksOnWanted, EndsWell, RecordedStands,
              FastPath, InPlace, RestsOnlyWhenApplied
<1> QED BY <1>4, <1>5 DEF ApplyInv

\* A cycle leaves at once: then the object is left alone, or in place.
LEMMA ExitKeeps ==
  ASSUME ApplyInv, StartApply, AlreadySuspended \/ FastPath
  PROVE  ApplyInv'
<1>1. /\ call = "none" /\ pending' = FALSE
      /\ UNCHANGED <<variant, wanted, suspend, stored, seen, phase, recorded, stale, call, obj,
                     tries, result, unseen>>
  BY DEF StartApply, ownerVars, statusVars, cycleCopy
<1>2. ApplyTypeOK'
  BY <1>1 DEF ApplyInv, ApplyTypeOK
<1>3. CycleInv'
  BY <1>1 DEF ApplyInv, CycleInv, CallOK, InCycle, WorksOnWanted, EndsWell, RecordedStands,
              FastPath, InPlace
<1>4. RestsOnlyWhenApplied'
  BY <1>1 DEF ApplyInv, CycleInv, RecordedStands, FastPath, AlreadySuspended, LeftAlone, InPlace,
              RestsOnlyWhenApplied
<1> QED BY <1>2, <1>3, <1>4 DEF ApplyInv

\* A cycle starts, or finds the object in the cache.
LEMMA StartKeeps ==
  ASSUME ApplyInv, (StartApply /\ ~(AlreadySuspended \/ FastPath)) \/ Exists
  PROVE  ApplyInv'
<1>1. ApplyTypeOK
  BY DEF ApplyInv
<1>2. CASE StartApply /\ ~(AlreadySuspended \/ FastPath)
  <2>1. /\ call' = "create" /\ obj' = wanted /\ tries' = 0 /\ stale' = FALSE
        /\ UNCHANGED <<variant, wanted, suspend, stored, seen, phase, recorded, result, unseen>>
        /\ ~FastPath
    BY <1>2 DEF StartApply, ownerVars, statusVars
  <2>2. ApplyTypeOK'
    BY <1>1, <2>1 DEF ApplyTypeOK, maxRetries
  <2>3. CycleInv' /\ RestsOnlyWhenApplied'
    BY <2>1 DEF CycleInv, CallOK, InCycle, WorksOnWanted, EndsWell, RecordedStands, FastPath,
                RestsOnlyWhenApplied
  <2> QED BY <2>2, <2>3 DEF ApplyInv
<1>3. CASE Exists
  <2>1. /\ call = "create" /\ tries = 0
        /\ UNCHANGED <<variant, wanted, suspend, stored, seen, pending, phase, recorded, stale,
                       tries, result, unseen>>
    BY <1>3 DEF Exists, ApplyInv, CycleInv, CallOK, ownerVars, statusVars, cycleCopy
  <2>2. CASE variant = "ApplyObjectV2"
    <3>1. call' = "reconcile" /\ obj' = obj
      BY <1>3, <2>2 DEF Exists
    <3>2. ApplyTypeOK'
      BY <1>1, <2>1, <3>1 DEF ApplyTypeOK, maxRetries
    <3>3. CycleInv' /\ RestsOnlyWhenApplied'
      BY <2>1, <3>1 DEF ApplyInv, CycleInv, CallOK, InCycle, WorksOnWanted, EndsWell,
                        RecordedStands, FastPath, InPlace, RestsOnlyWhenApplied
    <3> QED BY <3>2, <3>3 DEF ApplyInv
  <2>3. CASE variant # "ApplyObjectV2"
    <3>1. variant = "ApplyObject"
      BY <1>1, <2>3, ApplyAssumption DEF ApplyTypeOK
    <3>2. call' = "patch" /\ obj' = seen.content
      BY <1>3, <2>3 DEF Exists
    <3>3. obj' \in Contents
      BY <1>1, <3>2, Versions
    <3>4. ApplyTypeOK'
      BY <1>1, <2>1, <3>2, <3>3 DEF ApplyTypeOK
    <3>5. CycleInv' /\ RestsOnlyWhenApplied'
      BY <2>1, <2>3, <3>1, <3>2 DEF ApplyInv, CycleInv, CallOK, InCycle, WorksOnWanted, EndsWell,
                                    RecordedStands, FastPath, RestsOnlyWhenApplied
    <3> QED BY <3>4, <3>5 DEF ApplyInv
  <2> QED BY <2>2, <2>3
<1> QED BY <1>2, <1>3

\* A call returns: what it says stands for the stored object, or an error puts
\* the key back.
LEMMA ReturnKeeps ==
  ASSUME ApplyInv, call # "none",
         NEW outcome \in {"created", "unchanged", "error"}, Returns(outcome),
         UNCHANGED <<variant, ownerVars, seen, statusVars, cycleCopy, obj>>,
         tries' \in 0 .. maxRetries,
         stored' \in [exists : BOOLEAN, content : Contents, ver : Nat],
         seen' \in [exists : BOOLEAN, content : Contents, ver : 0 .. stored'.ver],
         \/ outcome = "error" /\ UNCHANGED stored
         \/ variant = "ApplyObject"
         \/ seen' = stored' => stored'.exists /\ stored'.content = obj
  PROVE  ApplyInv'
<1>1. /\ call' = IF variant = "ApplyObjectV2" THEN "conclude" ELSE "none"
      /\ result' = outcome /\ (pending' <=> pending \/ outcome = "error")
      /\ outcome # "error" => (~unseen' => stored'.exists /\ stored'.content = obj)
      /\ outcome = "error" => unseen' = unseen
  BY DEF Returns
<1>2. /\ UNCHANGED <<variant, wanted, suspend, seen, phase, recorded, stale, obj>>
      /\ variant # "ApplyObjectV2" => variant' # "ApplyObjectV2"
      /\ ~FastPath /\ (stale => pending)
  BY DEF ownerVars, statusVars, cycleCopy, ApplyInv, CycleInv, InCycle
<1>3. ApplyTypeOK'
  BY <1>1, <1>2 DEF ApplyInv, ApplyTypeOK
<1>4. ~FastPath'
  BY <1>2 DEF FastPath
<1>5. CallOK'
  BY <1>1, <1>2 DEF CallOK
<1>6. InCycle'
  BY <1>1, <1>2, <1>4 DEF InCycle
<1>7. WorksOnWanted'
  BY <1>1, <1>2 DEF ApplyInv, CycleInv, WorksOnWanted
<1>8. EndsWell'
  <2> SUFFICES ASSUME call' = "conclude", outcome # "error", ~stale
               PROVE  /\ ~unseen' => InPlace'
                      /\ ~pending' /\ seen' = stored' => InPlace'
    BY <1>1, <1>2 DEF EndsWell
  <2>1. variant = "ApplyObjectV2" /\ variant # "ApplyObject"
    BY <1>1
  <2>2. obj = wanted
    BY <2>1 DEF ApplyInv, CycleInv, WorksOnWanted
  <2> QED BY <1>1, <1>2, <2>1, <2>2 DEF InPlace
<1>9. RecordedStands'
  BY <1>4 DEF RecordedStands
<1>10. RestsOnlyWhenApplied'
  BY <1>1, <1>2 DEF RestsOnlyWhenApplied
<1> QED BY <1>3, <1>5, <1>6, <1>7, <1>8, <1>9, <1>10 DEF ApplyInv, CycleInv

\* Create, with a cache that has no such object.
LEMMA CreateKeeps ==
  ASSUME ApplyInv, Create
  PROVE  ApplyInv'
<1>1. /\ call # "none" /\ UNCHANGED <<variant, ownerVars, seen, statusVars, cycleCopy, obj>>
      /\ tries' \in 0 .. maxRetries /\ ApplyTypeOK
  BY DEF Create, ApplyInv, ApplyTypeOK
<1>2. CASE stored.exists
  <2>1. Returns("error") /\ UNCHANGED stored
    BY <1>2 DEF Create
  <2> QED BY <1>1, <2>1, ReturnKeeps DEF ApplyTypeOK
<1>3. CASE ~stored.exists
  <2>1. /\ stored' = [exists |-> TRUE, content |-> obj, ver |-> stored.ver + 1]
        /\ Returns("created")
    BY <1>3 DEF Create, Write
  <2>2. obj \in Contents /\ TRUE \in BOOLEAN
    BY <1>1 DEF ApplyTypeOK
  <2>3. /\ stored' \in [exists : BOOLEAN, content : Contents, ver : Nat]
        /\ seen' \in [exists : BOOLEAN, content : Contents, ver : 0 .. stored'.ver]
    BY <1>1, <2>1, <2>2, WriteTyped
  <2>4. stored'.exists /\ stored'.content = obj
    BY <2>1
  <2> QED BY <1>1, <2>1, <2>3, <2>4, ReturnKeeps
<1> QED BY <1>2, <1>3

\* ReconcileResource, at most maxRetries times.
LEMMA ReconcileKeeps ==
  ASSUME ApplyInv, ReconcileResource
  PROVE  ApplyInv'
<1>1. /\ call = "reconcile" /\ tries' = tries + 1 /\ ApplyTypeOK
      /\ UNCHANGED <<variant, ownerVars, seen, statusVars, cycleCopy, obj>>
  BY DEF ReconcileResource, ApplyInv
<1>2. tries' \in 0 .. maxRetries /\ tries \in Nat
  BY <1>1 DEF ApplyTypeOK, maxRetries
<1>3. ASSUME UNCHANGED stored
      PROVE  /\ stored' \in [exists : BOOLEAN, content : Contents, ver : Nat]
             /\ seen' \in [exists : BOOLEAN, content : Contents, ver : 0 .. stored'.ver]
  BY <1>1, <1>3 DEF ApplyTypeOK
<1>4. CASE seen.exists /\ seen.content = obj /\ Returns("unchanged") /\ UNCHANGED stored
  BY <1>1, <1>2, <1>3, <1>4, ReturnKeeps
<1>5. CASE /\ seen.exists /\ seen.content # obj /\ ~Conflicts
           /\ Write([stored EXCEPT !.content = obj, !.ver = @ + 1])
           /\ Returns("unchanged")
  <2>1. stored \in [exists : BOOLEAN, content : Contents, ver : Nat]
    BY <1>1 DEF ApplyTypeOK
  <2>2. stored' = [exists |-> stored.exists, content |-> obj, ver |-> stored.ver + 1]
    BY <1>5, <2>1 DEF Write
  <2>3. obj \in Contents /\ stored.exists \in BOOLEAN /\ stored.exists
    BY <1>1, <1>5, Versions DEF ApplyTypeOK, Conflicts
  <2>4. /\ stored' \in [exists : BOOLEAN, content : Contents, ver : Nat]
        /\ seen' \in [exists : BOOLEAN, content : Contents, ver : 0 .. stored'.ver]
    BY <1>1, <2>2, <2>3, WriteTyped
  <2>5. stored'.exists /\ stored'.content = obj
    BY <2>2, <2>3
  <2> QED BY <1>1, <1>2, <1>5, <2>4, <2>5, ReturnKeeps
<1>6. CASE ConflictRetries /\ UNCHANGED stored
  <2>1. CASE tries + 1 < maxRetries
    <3>1. /\ UNCHANGED <<call, pending, result, unseen, stored>> /\ tries' < maxRetries
          /\ UNCHANGED <<variant, wanted, suspend, seen, phase, recorded, stale, obj>>
      BY <1>1, <1>6, <2>1 DEF ConflictRetries, ownerVars, statusVars, cycleCopy
    <3>2. ApplyTypeOK'
      BY <1>1, <1>2, <3>1 DEF ApplyTypeOK
    <3>3. CycleInv' /\ RestsOnlyWhenApplied'
      BY <1>1, <3>1 DEF ApplyInv, CycleInv, CallOK, InCycle, WorksOnWanted, EndsWell,
                        RecordedStands, FastPath, InPlace, RestsOnlyWhenApplied
    <3> QED BY <3>2, <3>3 DEF ApplyInv
  <2>2. CASE ~(tries + 1 < maxRetries)
    <3>1. Returns("error")
      BY <1>6, <2>2 DEF ConflictRetries
    <3> QED BY <1>1, <1>2, <1>3, <1>6, <3>1, ReturnKeeps
  <2> QED BY <2>1, <2>2
<1>7. CASE /\ Write([exists |-> TRUE, content |-> obj, ver |-> stored.ver + 1])
           /\ Returns("unchanged")
  <2>1. stored' = [exists |-> TRUE, content |-> obj, ver |-> stored.ver + 1]
    BY <1>7 DEF Write
  <2>2. obj \in Contents /\ TRUE \in BOOLEAN
    BY <1>1 DEF ApplyTypeOK
  <2>3. /\ stored' \in [exists : BOOLEAN, content : Contents, ver : Nat]
        /\ seen' \in [exists : BOOLEAN, content : Contents, ver : 0 .. stored'.ver]
    BY <1>1, <2>1, <2>2, WriteTyped
  <2>4. stored'.exists /\ stored'.content = obj
    BY <2>1
  <2> QED BY <1>1, <1>2, <1>7, <2>3, <2>4, ReturnKeeps
<1>8. CASE Returns("error") /\ UNCHANGED stored
  BY <1>1, <1>2, <1>3, <1>8, ReturnKeeps
<1> QED BY <1>4, <1>5, <1>6, <1>7, <1>8 DEF ReconcileResource

\* The patch of ApplyObject, and a request that fails.
LEMMA PatchKeeps ==
  ASSUME ApplyInv, Patch \/ CallFails
  PROVE  ApplyInv'
<1>1. /\ call # "none" /\ UNCHANGED tries /\ ApplyTypeOK
      /\ UNCHANGED <<variant, ownerVars, seen, statusVars, cycleCopy, obj>>
  BY DEF Patch, CallFails, ApplyInv
<1>2. tries' \in 0 .. maxRetries /\ obj \in Contents
  BY <1>1 DEF ApplyTypeOK
<1>3. CASE Returns("error") /\ UNCHANGED stored
  BY <1>1, <1>2, <1>3, ReturnKeeps DEF ApplyTypeOK
<1>4. CASE Patch /\ Write([stored EXCEPT !.content = obj]) /\ Returns("unchanged")
  <2>1. stored \in [exists : BOOLEAN, content : Contents, ver : Nat]
    BY <1>1 DEF ApplyTypeOK
  <2>2. stored' = [exists |-> stored.exists, content |-> obj, ver |-> stored.ver]
    BY <1>4, <2>1 DEF Write
  <2>3. stored.exists \in BOOLEAN
    BY <1>1, Versions
  <2>4. /\ stored' \in [exists : BOOLEAN, content : Contents, ver : Nat]
        /\ seen' \in [exists : BOOLEAN, content : Contents, ver : 0 .. stored'.ver]
    BY <1>1, <1>2, <2>2, <2>3, WriteTyped
  <2>5. variant = "ApplyObject"
    BY <1>4 DEF Patch, ApplyInv, CycleInv, CallOK
  <2> QED BY <1>1, <1>2, <1>4, <2>4, <2>5, ReturnKeeps
<1> QED BY <1>3, <1>4 DEF Patch, CallFails

\* The cycle ends: it records its id only for work that stands, and comes back,
\* or rests on an object in place.
LEMMA ConcludeKeeps ==
  ASSUME ApplyInv, Conclude
  PROVE  ApplyInv'
<1>1. /\ call = "conclude" /\ call' = "none"
      /\ UNCHANGED <<variant, wanted, suspend, stored, seen, stale, obj, tries, result, unseen>>
  BY DEF Conclude, ownerVars, cycleCopy
<1>2. PICK allReady \in BOOLEAN, needsRequeue \in BOOLEAN :
        /\ allReady => result # "error" /\ ~needsRequeue
        /\ phase' = IF pausing THEN "Suspended" ELSE IF allReady THEN "Running" ELSE "other"
        /\ recorded' = IF allReady THEN stamps /\ ~stale ELSE recorded
        /\ pending' = (pending \/ needsRequeue)
  BY DEF Conclude
<1>3. ApplyTypeOK'
  <2>1. phase' \in {"Running", "Suspended", "other"}
    BY <1>2
  <2> QED BY <1>1, <2>1 DEF ApplyInv, ApplyTypeOK
<1>4. EndsWell /\ (result = "error" => pending) /\ (stale => pending)
  BY <1>1 DEF ApplyInv, CycleInv, InCycle
<1>5. RecordedStands'
  <2> SUFFICES ASSUME phase' = "Running", recorded', ~unseen PROVE InPlace'
    BY <1>1 DEF RecordedStands, FastPath
  <2>1. allReady
    BY <1>2
  <2>2. result # "error" /\ ~stale
    BY <1>2, <2>1
  <2> QED BY <1>1, <1>4, <2>2 DEF EndsWell, InPlace
<1>6. RestsOnlyWhenApplied'
  <2> SUFFICES ASSUME ~pending', seen = stored PROVE InPlace'
    BY <1>1 DEF RestsOnlyWhenApplied
  <2>1. ~pending
    BY <1>2
  <2> QED BY <1>1, <1>4, <2>1 DEF EndsWell, InPlace
<1>7. CycleInv'
  BY <1>1, <1>5 DEF CycleInv, CallOK, InCycle, WorksOnWanted, EndsWell
<1> QED BY <1>3, <1>6, <1>7 DEF ApplyInv

\* The save is lost: the status stays, and the key comes back.
LEMMA SaveLostKeeps ==
  ASSUME ApplyInv, SaveLost
  PROVE  ApplyInv'
<1>1. /\ call = "conclude" /\ call' = "none" /\ pending' = TRUE
      /\ UNCHANGED <<variant, wanted, suspend, stored, seen, phase, recorded, stale, obj, tries,
                     result, unseen>>
  BY DEF SaveLost, ownerVars, statusVars, cycleCopy
<1>2. ApplyTypeOK'
  BY <1>1 DEF ApplyInv, ApplyTypeOK
<1>3. CycleInv' /\ RestsOnlyWhenApplied'
  BY <1>1 DEF ApplyInv, CycleInv, CallOK, InCycle, WorksOnWanted, EndsWell, RecordedStands,
              FastPath, InPlace, RestsOnlyWhenApplied
<1> QED BY <1>2, <1>3 DEF ApplyInv

\* Every step keeps the invariant.
LEMMA ApplyStep == ApplyInv /\ [ApplyNext]_applyVars => ApplyInv'
<1> SUFFICES ASSUME ApplyInv, [ApplyNext]_applyVars PROVE ApplyInv'
  OBVIOUS
<1>1. CASE UNCHANGED applyVars
  <2>1. UNCHANGED <<variant, wanted, suspend, stored, seen, pending, phase, recorded, stale, call,
                    obj, tries, result, unseen>>
    BY <1>1 DEF applyVars, ownerVars, statusVars, cycleCopy
  <2>2. ApplyTypeOK'
    BY <2>1 DEF ApplyInv, ApplyTypeOK
  <2>3. CycleInv'
    BY <2>1 DEF ApplyInv, CycleInv, CallOK, InCycle, WorksOnWanted, EndsWell, RecordedStands,
                FastPath, InPlace
  <2>4. RestsOnlyWhenApplied'
    BY <2>1 DEF ApplyInv, RestsOnlyWhenApplied, LeftAlone, AlreadySuspended, FastPath, InPlace
  <2> QED BY <2>2, <2>3, <2>4 DEF ApplyInv
<1>2. CASE ApplyNext
  <2>1. CASE StartApply
    BY <2>1, ExitKeeps, StartKeeps
  <2> QED BY <1>2, <2>1, EditWantedKeeps, WriteByOtherKeeps, SyncKeeps, StartKeeps, CreateKeeps,
             ReconcileKeeps, PatchKeeps, ConcludeKeeps, SaveLostKeeps DEF ApplyNext, Apply
<1> QED BY <1>1, <1>2

\* The invariant holds for ever.
LEMMA ApplyAlways == ApplySpec => []ApplyInv
BY ApplyInitial, ApplyStep, PTL DEF ApplySpec

\* Types: the cache holds no version that was not stored, and ApplyObjectV2
\* tries maxRetries times at the most.
THEOREM ApplyTypeCorrect == ApplySpec => []ApplyTypeOK
<1>1. ApplyInv => ApplyTypeOK
  BY DEF ApplyInv
<1> QED BY <1>1, ApplyAlways, PTL

\* Reconcile with ApplyObjectV2: with nothing queued and an up-to-date cache the
\* object is as the spec wants it, unless the application is suspended, or its
\* change id recorded and the object written by others, or by an old cache, since.
THEOREM RestCorrect == ApplySpec => []RestsOnlyWhenApplied
<1>1. ApplyInv => RestsOnlyWhenApplied
  BY DEF ApplyInv
<1> QED BY <1>1, ApplyAlways, PTL

-----------------------------------------------------------------------------
(* The config. *)

\* The hash in memory is of the config that is built.
HashOfBuilt == built.hash = built.config

\* Without a failed apply the hash of the status, and the one the cycle is about
\* to save, is of a config a stamped template was applied for; a template
\* without a stamp is only built for such a hash.
StampsFirst ==
  applyFailures = 0 =>
    /\ step \in {"applyConfigMap", "applyWorkload"} /\ built.stamp = NoStamp => built.hash \in stamped
    /\ step = "save" => built.hash \in stamped

RolloutInv == RolloutTypeOK /\ HashOfBuilt /\ StampsFirst /\ SavedHashWasStamped

\* There are more times than a template and the pods carry.
LEMMA NowIsATime ==
  ASSUME RolloutTypeOK
  PROVE  Now \in Times
<1> DEFINE podStamps == {pods[p].stamp : p \in Pods}
           stampOf == [p \in Pods |-> pods[p].stamp]
           used == podStamps \cup {template}
<1>1. IsFiniteSet(Pods) /\ Cardinality(Pods) \in Nat
  BY RolloutAssumption, FS_CardinalityType
<1>2. IsFiniteSet(podStamps) /\ Cardinality(podStamps) <= Cardinality(Pods)
  <2>1. stampOf \in Surjection(Pods, podStamps)
    BY DEF Surjection
  <2> HIDE DEF stampOf, podStamps
  <2> QED BY <1>1, <2>1, FS_Surjection
<1>3. /\ IsFiniteSet(used) /\ Cardinality(used) \in Nat
      /\ Cardinality(used) <= Cardinality(Pods) + 1
  <2> HIDE DEF podStamps
  <2>1. Cardinality(podStamps) \in Nat
    BY <1>2, FS_CardinalityType
  <2>2. /\ IsFiniteSet(used)
        /\ Cardinality(used) = IF template \in podStamps THEN Cardinality(podStamps)
                                                      ELSE Cardinality(podStamps) + 1
    BY <1>2, FS_AddElement
  <2> QED BY <1>1, <1>2, <2>1, <2>2
<1>4. Cardinality(Times) = Cardinality(Pods) + 2
  <2>1. 1 \in Int /\ Cardinality(Pods) + 2 \in Int /\ ~(1 > Cardinality(Pods) + 2)
    BY <1>1
  <2>2. Cardinality(Times) = (Cardinality(Pods) + 2) - 1 + 1
    BY <2>1, FS_Interval DEF Times
  <2> QED BY <1>1, <2>2
<1>5. \E t \in Times : t \notin used
  <2> HIDE DEF used
  <2> SUFFICES ASSUME Times \in SUBSET used PROVE FALSE
    OBVIOUS
  <2>1. Cardinality(Times) <= Cardinality(used)
    BY <1>3, FS_Subset
  <2> QED BY <1>1, <1>3, <1>4, <2>1
<1>6. \E t \in Times : t # template /\ \A p \in Pods : pods[p].stamp # t
  BY <1>5
<1> QED BY <1>6 DEF Now

\* A time is a stamp.
LEMMA TimesStamp == NoStamp \notin Times
BY RolloutAssumption, FS_CardinalityType DEF NoStamp, Times

\* Configs are not the config of nothing.
LEMMA ConfigsNotZero == 1 \in Configs /\ 0 \notin Configs /\ Configs \subseteq Nat
BY RolloutAssumption DEF Configs

\* The first config runs everywhere.
LEMMA RolloutInitial == RolloutInit => RolloutInv
<1> SUFFICES ASSUME RolloutInit PROVE RolloutInv
  OBVIOUS
<1>1. RolloutTypeOK
  BY ConfigsNotZero DEF RolloutInit, RolloutTypeOK
<1> QED BY <1>1 DEF RolloutInit, RolloutInv, HashOfBuilt, StampsFirst, SavedHashWasStamped,
                    NothingBuilt

\* An edit of the config.
LEMMA EditConfigKeeps ==
  ASSUME RolloutInv, EditConfig
  PROVE  RolloutInv'
<1>1. /\ config' = config + 1 /\ config < MaxConfig /\ config \in Configs
      /\ UNCHANGED <<status, configMap, template, pods, stamped, step, built, failed,
                     applyFailures, saveFailures>>
  BY DEF EditConfig, clusterVars, cycleVars, countVars, RolloutInv, RolloutTypeOK
<1>2. config' \in Configs
  BY <1>1, RolloutAssumption DEF Configs
<1> QED BY <1>1, <1>2 DEF RolloutInv, RolloutTypeOK, HashOfBuilt, StampsFirst, SavedHashWasStamped

\* A pod is replaced.
LEMMA ReplacePodKeeps ==
  ASSUME RolloutInv, NEW p \in Pods, ReplacePod(p)
  PROVE  RolloutInv'
<1>1. /\ pods' = [pods EXCEPT ![p] = [stamp |-> template, config |-> configMap]]
      /\ UNCHANGED <<config, status, configMap, template, stamped, step, built, failed,
                     applyFailures, saveFailures>>
  BY DEF ReplacePod, cycleVars, countVars
<1>2. pods' \in [Pods -> [stamp : Times \cup {NoStamp}, config : Configs]]
  <2>1. [stamp |-> template, config |-> configMap] \in [stamp : Times \cup {NoStamp}, config : Configs]
    BY DEF RolloutInv, RolloutTypeOK
  <2> QED BY <1>1, <2>1 DEF RolloutInv, RolloutTypeOK
<1> QED BY <1>1, <1>2 DEF RolloutInv, RolloutTypeOK, HashOfBuilt, StampsFirst, SavedHashWasStamped

\* The objects are built: with a stamp when the hash is not the saved one.
LEMMA BuildKeeps ==
  ASSUME RolloutInv, BuildObjects
  PROVE  RolloutInv'
<1>1. /\ step = "idle" /\ step' = "applyConfigMap"
      /\ UNCHANGED <<config, status, configMap, template, pods, stamped, applyFailures>>
      /\ RolloutTypeOK /\ config \in Configs
  BY DEF BuildObjects, clusterVars, countVars, RolloutInv, RolloutTypeOK
<1>2. PICK stamp \in Times \cup {NoStamp} :
        /\ built' = [config |-> config, hash |-> config, stamp |-> stamp]
        /\ stamp = NoStamp => status.hash = config
  <2>1. Now \in Times /\ NoStamp \notin Times
    BY <1>1, NowIsATime, TimesStamp
  <2>2. CASE status.hash # config
    <3>1. built' = [config |-> config, hash |-> config, stamp |-> Now]
      BY <2>2 DEF BuildObjects
    <3> QED BY <2>1, <3>1
  <2>3. CASE status.hash = config
    <3>1. built' = [config |-> config, hash |-> config, stamp |-> NoStamp]
      BY <2>3 DEF BuildObjects
    <3> QED BY <2>3, <3>1
  <2> QED BY <2>2, <2>3
<1>3. built' # NothingBuilt
  BY <1>1, <1>2, ConfigsNotZero DEF NothingBuilt
<1>4. built'.config = config /\ built'.hash = config /\ built'.stamp = stamp
  BY <1>2
<1>5. RolloutTypeOK'
  <2>1. built' \in [config : Configs, hash : Configs, stamp : Times \cup {NoStamp}]
    BY <1>1, <1>2
  <2> QED BY <1>1, <1>3, <2>1 DEF RolloutTypeOK
<1>6. StampsFirst'
  <2> SUFFICES ASSUME applyFailures = 0, stamp = NoStamp PROVE config \in stamped
    BY <1>1, <1>4 DEF StampsFirst
  <2> QED BY <1>2 DEF RolloutInv, SavedHashWasStamped
<1>7. SavedHashWasStamped'
  BY <1>1 DEF RolloutInv, SavedHashWasStamped
<1> QED BY <1>4, <1>5, <1>6, <1>7 DEF RolloutInv, HashOfBuilt

\* The objects are applied, or one of them cannot be.
LEMMA ApplyConfigKeeps ==
  ASSUME RolloutInv, ApplyConfigMap \/ ApplyWorkload \/ ApplyFails
  PROVE  RolloutInv'
<1>1. RolloutTypeOK /\ step # "idle"
  BY DEF RolloutInv, ApplyConfigMap, ApplyWorkload, ApplyFails
<1>2. built # NothingBuilt
  BY <1>1 DEF RolloutTypeOK
<1>3. CASE ApplyConfigMap
  <2>1. /\ step = "applyConfigMap" /\ step' = "applyWorkload" /\ configMap' = built.config
        /\ UNCHANGED <<config, status, template, pods, stamped, built, applyFailures>>
    BY <1>3 DEF ApplyConfigMap, countVars
  <2> QED BY <1>1, <1>2, <2>1 DEF RolloutInv, RolloutTypeOK, HashOfBuilt, StampsFirst,
                                  SavedHashWasStamped
<1>4. CASE ApplyWorkload
  <2>1. /\ step = "applyWorkload" /\ step' = "save" /\ template' = built.stamp
        /\ stamped' = IF built.stamp = NoStamp THEN stamped ELSE stamped \cup {built.config}
        /\ UNCHANGED <<config, status, configMap, pods, built, applyFailures>>
    BY <1>4 DEF ApplyWorkload, countVars
  <2>2. applyFailures = 0 => built.hash \in stamped'
    BY <2>1 DEF RolloutInv, StampsFirst, HashOfBuilt
  <2>3. stamped \subseteq stamped'
    BY <2>1
  <2>4. RolloutTypeOK'
    BY <1>1, <1>2, <2>1 DEF RolloutTypeOK
  <2> QED BY <2>1, <2>2, <2>3, <2>4 DEF RolloutInv, HashOfBuilt, StampsFirst, SavedHashWasStamped
<1>5. CASE ApplyFails
  <2>1. /\ step' \in {"applyWorkload", "save"} /\ applyFailures' = applyFailures + 1
        /\ UNCHANGED <<config, status, configMap, template, pods, stamped, built>>
    BY <1>5 DEF ApplyFails, clusterVars
  <2>2. applyFailures' # 0
    BY <2>1 DEF RolloutInv, RolloutTypeOK
  <2>3. RolloutTypeOK'
    BY <1>1, <1>2, <2>1 DEF RolloutTypeOK
  <2> QED BY <2>1, <2>2, <2>3 DEF RolloutInv, HashOfBuilt, StampsFirst, SavedHashWasStamped
<1> QED BY <1>3, <1>4, <1>5

\* The cycle ends: with the status saved, with nothing to save, or before that.
LEMMA EndCycleKeeps ==
  ASSUME RolloutInv, SaveStatus \/ SaveUnneeded \/ SaveFails
  PROVE  RolloutInv'
<1>1. /\ step # "idle" /\ step' = "idle" /\ built' = NothingBuilt
      /\ UNCHANGED <<config, configMap, template, pods, stamped, applyFailures>>
  BY DEF SaveStatus, SaveUnneeded, SaveFails, EndCycle, clusterVars, countVars
<1>2. status' = status \/ (step = "save" /\ status' = [hash |-> built.hash, obs |-> config])
  BY DEF SaveStatus, SaveUnneeded, SaveFails
<1>3. RolloutTypeOK /\ built # NothingBuilt
  BY <1>1 DEF RolloutInv, RolloutTypeOK
<1>4. RolloutTypeOK'
  BY <1>1, <1>2, <1>3 DEF RolloutTypeOK
<1>5. SavedHashWasStamped'
  BY <1>1, <1>2 DEF RolloutInv, StampsFirst, SavedHashWasStamped
<1> QED BY <1>1, <1>4, <1>5 DEF RolloutInv, HashOfBuilt, StampsFirst, NothingBuilt

\* Every step keeps the invariant.
LEMMA RolloutStep == RolloutInv /\ [RolloutNext]_rolloutVars => RolloutInv'
<1> SUFFICES ASSUME RolloutInv, [RolloutNext]_rolloutVars PROVE RolloutInv'
  OBVIOUS
<1>1. CASE UNCHANGED rolloutVars
  BY <1>1 DEF rolloutVars, clusterVars, cycleVars, countVars, RolloutInv, RolloutTypeOK,
              HashOfBuilt, StampsFirst, SavedHashWasStamped
<1>2. CASE RolloutNext
  BY <1>2, EditConfigKeeps, ReplacePodKeeps, BuildKeeps, ApplyConfigKeeps, EndCycleKeeps
     DEF RolloutNext, Cycle
<1> QED BY <1>1, <1>2

\* The invariant holds for ever.
LEMMA RolloutAlways == RolloutSpec => []RolloutInv
BY RolloutInitial, RolloutStep, PTL DEF RolloutSpec

\* Types: there is always a time left to stamp with, and what BuildObjects made
\* lasts for one cycle.
THEOREM RolloutTypeCorrect == RolloutSpec => []RolloutTypeOK
<1>1. RolloutInv => RolloutTypeOK
  BY DEF RolloutInv
<1> QED BY <1>1, RolloutAlways, PTL

\* BuildObjects and updateStatusIfNeeded: a saved hash asks for no restart any
\* more, so it is only saved when the stamped template is in the cluster,
\* wherever the operator stops and whichever saves are lost.
THEOREM SavedHashCorrect == RolloutSpec => []SavedHashWasStamped
<1>1. RolloutInv => SavedHashWasStamped
  BY DEF RolloutInv
<1> QED BY <1>1, RolloutAlways, PTL
=============================================================================
