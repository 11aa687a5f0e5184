----------------------------- MODULE ObjectApply -----------------------------
(***************************************************************************)
(* kubeutil: how one built object gets into the cluster.  ApplyObjectV2 is *)
(* what Reconcile's applyResources calls; ApplyObject is the older function*)
(* that the apply task of reconcilers/common calls.  Both read through the *)
(* informer cache and write with optimistic locking, while other clients   *)
(* edit or delete the object.                                              *)
(*                                                                         *)
(* Around ApplyObjectV2 stands the cycle of Reconcile, as far as it decides*)
(* whether there is a next one: the two exits before anything is built (a  *)
(* suspended application; a Running one whose change id is recorded) and   *)
(* the phase and the id that the end of a cycle saves.  The rest of the    *)
(* cycle, its old copies of the application included, is AppReconcile's.   *)
(* An owner gives every edit a change id of its own, or never uses one.    *)
(*                                                                         *)
(* The content of the object is a value; ver is its resourceVersion.  The  *)
(* resource reconciler of operator-tools (CreateIfNotExist,                *)
(* ReconcileResource) is external: a cached read, then a create, or an     *)
(* update when the content differs.                                        *)
(***************************************************************************)
EXTENDS Integers

CONSTANTS
  Contents,    \* contents of the object
  Variants,    \* the functions that may be called: "ApplyObjectV2", "ApplyObject"
  MaxWrites    \* bound: edits of the spec, writes of other clients, failing requests

ASSUME ApplyAssumption ==
  /\ Contents # {}
  /\ Variants \subseteq {"ApplyObjectV2", "ApplyObject"} /\ MaxWrites \in Nat

\* maxRetries of ApplyObjectV2.
maxRetries == 3

VARIABLES
  variant,  \* the function this object is applied with
  stamps,   \* the owner gives every edit a change id
  wanted,   \* the content the spec asks for
  suspend,  \* spec.suspend
  stored,   \* the object in the cluster: [exists, content, ver]
  seen,     \* the version in the informer cache
  pending,  \* the application's key is in the work queue
  phase,    \* saved phase: "Running", "Suspended", or any other
  recorded, \* saved: the observed generation and the last change id are the spec's
  stale,    \* the spec was edited after the last cycle read it
  pausing,  \* the cycle's copy of the spec is suspended
  call,     \* where the cycle stands: none, create, reconcile, patch, conclude
  obj,      \* the content of the object the call works on
  tries,    \* attempts of ReconcileResource
  result,   \* of the last call: none, created, unchanged, error
  unseen,   \* history: another client wrote the object since the last call that
            \* ended well, or that call took an old cache's word for the object
  writes    \* edits, foreign writes and failing requests so far

ownerVars == <<stamps, wanted, suspend>>
statusVars == <<phase, recorded>>
cycleCopy == <<stale, pausing>>
applyVars == <<variant, ownerVars, stored, seen, pending, statusVars, cycleCopy, call, obj,
               tries, result, unseen, writes>>

ApplyInit ==
  /\ variant \in Variants
  /\ stamps \in BOOLEAN /\ wanted \in Contents /\ suspend \in BOOLEAN
  /\ stored \in [exists : {FALSE}, content : Contents, ver : {0}] /\ seen = stored
  /\ pending = TRUE /\ call = "none" /\ obj = wanted
  /\ phase = "other" /\ recorded = FALSE /\ stale = FALSE /\ pausing = FALSE
  /\ tries = 0 /\ result = "none" /\ unseen = FALSE /\ writes = 0

Write(version) == stored' = version

\* A user edits the spec, with a new change id or without any.
EditWanted ==
  /\ writes < MaxWrites /\ writes' = writes + 1
  /\ wanted' \in Contents /\ suspend' \in BOOLEAN
  /\ <<wanted', suspend'>> # <<wanted, suspend>>
  /\ recorded' = FALSE /\ stale' = TRUE /\ pending' = TRUE
  /\ UNCHANGED <<variant, stamps, stored, seen, phase, pausing, call, obj, tries, result, unseen>>

\* Another client writes the object, its content or (the same content) its
\* status, or deletes it.
WriteByOther ==
  /\ stored.exists /\ writes < MaxWrites /\ writes' = writes + 1
  /\ \/ \E c \in Contents : Write([stored EXCEPT !.content = c, !.ver = @ + 1])
     \/ Write([stored EXCEPT !.exists = FALSE, !.ver = @ + 1])
  /\ unseen' = TRUE
  /\ UNCHANGED <<variant, ownerVars, seen, pending, statusVars, cycleCopy, call, obj, tries, result>>

\* The cache catches up; the event of the owned object enqueues the key.
CacheSync ==
  /\ seen # stored
  /\ seen' = stored /\ pending' = TRUE
  /\ UNCHANGED <<variant, ownerVars, stored, statusVars, cycleCopy, call, obj, tries, result,
                 unseen, writes>>

\* Mutant: a Running application is taken for applied, whatever its spec.
FastPathRunning == phase = "Running"

\* The exits of Reconcile before it builds anything.
AlreadySuspended == suspend /\ phase = "Suspended"
FastPath == phase = "Running" /\ recorded

\* Reconcile takes the key: an exit, or on to the object built from the spec.
StartApply ==
  /\ pending /\ call = "none"
  /\ pending' = FALSE
  /\ IF AlreadySuspended \/ FastPath
     THEN UNCHANGED <<call, obj, tries, cycleCopy>>
     ELSE /\ call' = "create" /\ obj' = wanted /\ tries' = 0
          /\ stale' = FALSE /\ pausing' = suspend
  /\ UNCHANGED <<variant, ownerVars, stored, seen, statusVars, result, unseen, writes>>

\* The call returns, in Reconcile to the end of the cycle (the apply task saves
\* nothing); after an error the key comes back.
Returns(outcome) ==
  /\ call' = IF variant = "ApplyObjectV2" THEN "conclude" ELSE "none"
  /\ result' = outcome
  /\ pending' = (pending \/ outcome = "error")
  /\ unseen' = IF outcome = "error" THEN unseen ELSE ~(stored'.exists /\ stored'.content = obj)

\* Get and Create: by the cache there is no such object.  Create fails when
\* there is one after all.
Create ==
  /\ call = "create" /\ ~seen.exists
  /\ IF stored.exists
     THEN UNCHANGED stored /\ Returns("error")
     ELSE /\ Write([exists |-> TRUE, content |-> obj, ver |-> stored.ver + 1])
          /\ Returns("created")
  /\ UNCHANGED <<variant, ownerVars, seen, statusVars, cycleCopy, obj, tries, writes>>

\* The object exists: on to ReconcileResource, or, in ApplyObject, to Patch.
\* There the Get has read the existing object into obj, over the desired one.
Exists ==
  /\ call = "create" /\ seen.exists
  /\ IF variant = "ApplyObjectV2"
     THEN call' = "reconcile" /\ obj' = obj
     ELSE call' = "patch" /\ obj' = seen.content
  /\ UNCHANGED <<variant, ownerVars, stored, seen, pending, statusVars, cycleCopy, tries, result,
                 unseen, writes>>

\* Mutant: the update carries a resourceVersion that is never the stored one.
ConflictsAlways == TRUE

\* An update of the cached version: conflict when it is not the stored one.
Conflicts == seen.ver # stored.ver \/ ~stored.exists

\* A conflict is tried again, up to maxRetries attempts.
ConflictRetries ==
  IF tries + 1 < maxRetries THEN UNCHANGED <<call, pending, result, unseen>> ELSE Returns("error")

\* ReconcileResource: by the cache the object is as desired, or is updated, or
\* went meanwhile and is created.
ReconcileResource ==
  /\ call = "reconcile" /\ tries' = tries + 1
  /\ \/ /\ seen.exists /\ seen.content = obj
        /\ UNCHANGED stored /\ Returns("unchanged")
     \/ /\ seen.exists /\ seen.content # obj /\ ~Conflicts
        /\ Write([stored EXCEPT !.content = obj, !.ver = @ + 1])
        /\ Returns("unchanged")
     \/ /\ seen.exists /\ seen.content # obj /\ Conflicts
        /\ UNCHANGED stored /\ ConflictRetries
     \/ /\ ~seen.exists /\ ~stored.exists
        /\ Write([exists |-> TRUE, content |-> obj, ver |-> stored.ver + 1])
        /\ Returns("unchanged")
     \/ /\ ~seen.exists /\ stored.exists
        /\ UNCHANGED stored /\ Returns("error")
  /\ UNCHANGED <<variant, ownerVars, seen, statusVars, cycleCopy, obj, writes>>

\* ApplyObject: the merge patch of the object that Get returned.
Patch ==
  /\ call = "patch"
  /\ IF Conflicts
     THEN UNCHANGED stored /\ Returns("error")
     ELSE /\ Write([stored EXCEPT !.content = obj])
          /\ Returns("unchanged")
  /\ UNCHANGED <<variant, ownerVars, seen, statusVars, cycleCopy, obj, tries, writes>>

\* A request fails otherwise.
CallFails ==
  /\ call \in {"create", "reconcile", "patch"} /\ writes < MaxWrites /\ writes' = writes + 1
  /\ UNCHANGED stored /\ Returns("error")
  /\ UNCHANGED <<variant, ownerVars, seen, statusVars, cycleCopy, obj, tries>>

\* The end of the cycle: determineFinalPhase, lastChangeID of a copy that may be
\* stale, the save, and a requeue while something is not ready.  Pods may be
\* ready only after a call that ended well.
Conclude ==
  /\ call = "conclude" /\ call' = "none"
  /\ \E allReady, needsRequeue \in BOOLEAN :
       /\ allReady => result # "error" /\ ~needsRequeue
       /\ phase' = IF pausing THEN "Suspended" ELSE IF allReady THEN "Running" ELSE "other"
       /\ recorded' = IF allReady THEN stamps /\ ~stale ELSE recorded
       /\ pending' = (pending \/ needsRequeue)
  /\ UNCHANGED <<variant, ownerVars, stored, seen, cycleCopy, obj, tries, result, unseen, writes>>

\* The save fails, or meets conflicts only: the cycle is for nothing.
SaveLost ==
  /\ call = "conclude" /\ call' = "none"
  /\ writes < MaxWrites /\ writes' = writes + 1
  /\ pending' = TRUE
  /\ UNCHANGED <<variant, ownerVars, stored, seen, statusVars, cycleCopy, obj, tries, result, unseen>>

Apply == StartApply \/ Create \/ Exists \/ ReconcileResource \/ Patch \/ Conclude

ApplyNext == EditWanted \/ WriteByOther \/ CacheSync \/ CallFails \/ SaveLost \/ Apply

\* The cache is fed and the worker goes on.
ApplySpec ==
  ApplyInit /\ [][ApplyNext]_applyVars /\ WF_applyVars(CacheSync) /\ WF_applyVars(Apply)

-----------------------------------------------------------------------------
\* Types; a call under way has tries left.
ApplyTypeOK ==
  /\ variant \in Variants /\ wanted \in Contents /\ obj \in Contents
  /\ stored \in [exists : BOOLEAN, content : Contents, ver : Nat]
  /\ seen \in [exists : BOOLEAN, content : Contents, ver : 0 .. stored.ver]
  /\ phase \in {"Running", "Suspended", "other"}
  /\ call \in {"none", "create", "reconcile", "patch", "conclude"}
  /\ result \in {"none", "created", "unchanged", "error"}
  /\ tries \in 0 .. maxRetries /\ (call = "reconcile" => tries < maxRetries)

\* The object is as the spec wants it.
InPlace == stored.exists /\ stored.content = wanted

\* What Reconcile does not look at again: a suspended application, and a change
\* id that is recorded, once the object is not what the last cycle saw of it.
LeftAlone == AlreadySuspended \/ (FastPath /\ unseen)

\* Reconcile with ApplyObjectV2: when nothing is left to do and the cache is up
\* to date, the object is as the spec wants it, unless it is left alone: no
\* conflict, no edit between two steps, no lost save, no late id and, for an
\* owner without change ids, no write of another client and no old cache makes
\* a cycle end well, or the next one leave at once, with the work not done.
RestsOnlyWhenApplied ==
  variant = "ApplyObjectV2" /\ ~pending /\ call = "none" /\ seen = stored /\ ~LeftAlone
    => InPlace

\* The comment on ApplyObject and ApplyObjectV2: "idempotently applies the
\* desired state".  With ApplyObjectV2 the cluster in the end holds what the
\* spec wants, unless the object is left alone; always, then, for an owner who
\* uses neither change ids nor suspension.
GetsApplied == variant = "ApplyObjectV2" => <>[](InPlace \/ LeftAlone)

\* The same of ApplyObject, which it does not do.
GetsAppliedV1 == variant = "ApplyObject" => <>[]InPlace

\* RestsOnlyWhenApplied without its exception, which does not hold: what drifts
\* under a recorded change id, or was applied by an old cache, stays so.
RestsInPlace ==
  variant = "ApplyObjectV2" /\ ~pending /\ call = "none" /\ seen = stored /\ ~suspend
    => InPlace
=============================================================================
