---------------------------- MODULE AppInvariants ----------------------------
(***************************************************************************)
(* The inductive invariants behind the safety properties of AppReconcile.  *)
(* The cache, the versions on their way to it and the server form a line   *)
(* in which every version follows the ones before it, and the copy         *)
(* Reconcile works on lies behind the cache.                               *)
(***************************************************************************)
EXTENDS AppReconcile

\* What a later version v of the object preserves of an earlier one u.
Follows(v, u) ==
  /\ u.gen <= v.gen /\ u.chg <= v.chg
  /\ v.exists => u.exists
  /\ u.deleting => v.deleting
  /\ v.exists /\ u.fin => v.fin

\* Cache, watch and server are in the order of the writes, and end with the
\* server's version: stale reads are never newer than they claim.
Line ==
  /\ Follows(server, cache)
  /\ \A i \in 1 .. Len(watch) : Follows(watch[i], cache) /\ Follows(server, watch[i])
  /\ \A i, j \in 1 .. Len(watch) : i <= j => Follows(watch[j], watch[i])
  /\ watch = <<>> => cache = server
  /\ watch # <<>> => watch[Len(watch)] = server

\* The copy is no newer than the cache, and a copy that carries the server's
\* resourceVersion differs from the server's object in its status at most.
Copy ==
  pc # "idle" =>
    /\ appDef.gen <= cache.gen /\ appDef.chg <= cache.chg
    /\ current => /\ server.exists
                  /\ appDef.gen = server.gen /\ appDef.chg = server.chg
    /\ pc = "removeFinalizer" => cache.deleting

\* A version Reconcile would not take to the build once the object is gone.
Ended(v) == v.deleting \/ ~v.fin \/ ~v.exists

\* Reconcile works under the finalizer, and no version still to be read leads
\* it back to work once the object is gone.
Life ==
  /\ pc \in {"phase", "apply", "health", "status"} => server.exists /\ server.fin
  /\ ~server.exists => Ended(cache) /\ \A i \in 1 .. Len(watch) : Ended(watch[i])
  /\ FinalizerCoversWork

\* No workload is ahead of the versions Reconcile may still apply.
Work ==
  \A c \in Components :
    workload[c].tmpl <= cache.gen /\ (pc # "idle" => workload[c].tmpl <= appDef.gen)

OrderInv == Line /\ Copy /\ Life /\ Work

-----------------------------------------------------------------------------
(* With a change id of its own for every edit, once there are change ids.  *)

\* A version with the server's change id has the server's spec.
Identified(v) == v.chg # 0 /\ v.chg = server.chg => v.gen = server.gen /\ v.spec = server.spec

Identity ==
  /\ Identified(cache) /\ \A i \in 1 .. Len(watch) : Identified(watch[i])
  /\ pc # "idle" => Identified(appDef)

\* If lcid is the server's change id, its spec has been applied.
Vouched(lcid) ==
  server.exists /\ lcid # 0 /\ lcid = server.chg =>
    \A c \in Named(server.spec.reps) : workload[c].tmpl = server.gen

\* A recorded change id is known to every version Reconcile may work on, and
\* vouches for what it names.
Recorded(lcid) ==
  /\ lcid <= cache.chg /\ (pc # "idle" => lcid <= appDef.chg)
  /\ Vouched(lcid)

Records ==
  /\ Recorded(server.status.lcid) /\ Recorded(cache.status.lcid)
  /\ \A i \in 1 .. Len(watch) : Recorded(watch[i].status.lcid)
  /\ pc # "idle" => Recorded(appDef.status.lcid)

\* What this cycle has applied so far stands at the generation it read.
Applied ==
  server.exists /\ ~firstError =>
    /\ pc = "apply" => \A c \in Named(appDef.spec.reps) \ todo : workload[c].tmpl = appDef.gen
    /\ pc = "health" => \A c \in Named(appDef.spec.reps) : workload[c].tmpl = appDef.gen

RecordInv == Identity /\ Records /\ Applied
=============================================================================
