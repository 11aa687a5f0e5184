--------------------------- MODULE ComponentStatus ---------------------------
(***************************************************************************)
(* What the status says of each component: the cycle from the build to the *)
(* saved status (steps 4 to 8 of Reconcile) for several components, with   *)
(* the names their objects get, by which results and health checks are     *)
(* matched to components again.                                            *)
(*                                                                         *)
(* The application has no change id and is neither suspended nor deleted,  *)
(* the cycle reads the stored version and its status is saved at once;     *)
(* AppReconcile has all of that.  StatefulSetHealth refines a pod set that *)
(* is "ready", ObjectApply the single apply.                               *)
(*                                                                         *)
(* A name is a sequence of characters, and lengths are scaled down.        *)
(***************************************************************************)
EXTENDS Integers, SequencesExt

CONSTANTS
  Apps,        \* the specs users write: sequences of components
  MaxLabel,    \* the longest DNS label, 63 in Kubernetes
  MaxEdits,    \* bound: edits of the spec
  MaxFaults    \* bound: failed calls, pods that fail, restarts

Letters == {"a", "b", "c", "d", "e", "h"}
Digits == {"1"}
Characters == Letters \cup Digits \cup {"-", "_", "."}

\* The pattern the API server checks component names with.
ValidName(n) ==
  /\ Len(n) \in 2 .. MaxLabel
  /\ {n[1], Last(n)} \subseteq Letters \cup Digits

\* What a spec says of a component: its name, the kind it declares, whether it
\* asks for a client Service, and whether its properties pass the builder.
Components ==
  [name : Seq(Characters), kind : {"StatefulSet", "Service", "Widget", ""},
   service : BOOLEAN, valid : BOOLEAN]

Names(spec) == {c.name : c \in ToSet(spec)}

\* Names are the keys of the list.
ASSUME NamesAssumption ==
  \A spec \in Apps :
    /\ spec \in Seq(Components) \ {<<>>} /\ Cardinality(Names(spec)) = Len(spec)
    /\ \A c \in ToSet(spec) : ValidName(c.name)
ASSUME LimitsAssumption == {MaxLabel, MaxEdits, MaxFaults} \subseteq Nat

-----------------------------------------------------------------------------
(* Names and objects. *)

TrimRight(n) == SubSeq(n, 1, Max({i \in DOMAIN n : n[i] # "-"} \cup {0}))

\* Valid names are in lower case already.
DeriveResourceName(n) ==
  TrimRight(SubSeq([i \in DOMAIN n |-> IF n[i] = "_" THEN "-" ELSE n[i]], 1, Min({Len(n), MaxLabel})))

\* The suffix "-headless", scaled down as well.
Headless == <<"-", "h">>

Object(kind, name, c, headless) ==
  [id |-> <<kind, name>>, comp |-> c.name, headless |-> headless]

\* What BuildObjects returns for a component, in its order.
BuildObjects(c) ==
  LET name == DeriveResourceName(c.name)
  IN <<Object("StatefulSet", name, c, FALSE), Object("Service", name \o Headless, c, TRUE)>>
       \o IF c.service THEN <<Object("Service", name, c, FALSE)>> ELSE <<>>

DesiredObjects(spec) == FlattenSeq([i \in DOMAIN spec |-> BuildObjects(spec[i])])

\* A Service needs a DNS label that starts with a letter, a StatefulSet labels
\* with dots between.
Accepted(id) ==
  LET n == id[2]
      Alnum(i) == i \in DOMAIN n /\ n[i] \in Letters \cup Digits
  IN IF id[1] = "Service"
       THEN Len(n) <= MaxLabel /\ n[1] \in Letters /\ "." \notin ToSet(n)
       ELSE "_" \notin ToSet(n) /\ \A i \in DOMAIN n : n[i] = "." => Alnum(i - 1) /\ Alnum(i + 1)

Ids == {o.id : o \in UNION {ToSet(DesiredObjects(spec)) : spec \in Apps}}
Workloads == {id \in Ids : id[1] = "StatefulSet"}

VARIABLES
  app,         \* the stored spec
  gen,         \* its generation
  store,       \* per id: the component and generation it was built for, ...
  pods,        \* per StatefulSet id: "none", "starting", "ready"
  status,      \* the saved phase, and per component name a message
  queued,      \* the key is in the work queue
  pc, spec, specGen,   \* the cycle and the spec it works on
  todo,        \* objects still to apply
  unchecked,   \* component names still to check
  messages,    \* state.componentStatuses
  firstError,  \* state.firstError # nil
  refused,     \* history: components with an object refused in this cycle
  faults

specVars == <<app, gen>>
objectVars == <<store, pods>>
cycleVars == <<pc, spec, specGen, todo, unchecked, messages, firstError, refused>>
statusVars == <<specVars, objectVars, status, queued, cycleVars, faults>>

Nothing == [comp |-> <<>>, gen |-> 0, headless |-> FALSE]

\* The messages.  Health is TRUE with "ready" and FALSE with the others.
Errors == {"OverallReconcileError", "ApplyFailed", "HealthCheckError"}
Messages == {"Built", "Applied", "NotFound", "NotReady", "InfoMissing", "ready"} \cup Errors
Phases == {"Creating", "Updating", "Running", "Degraded", "Failed"}

StatusInit ==
  /\ app \in Apps /\ gen = 1
  /\ store = [id \in Ids |-> Nothing] /\ pods = [id \in Workloads |-> "none"]
  /\ status = [phase |-> "Creating", messages |-> <<>>]
  /\ queued = TRUE
  /\ pc = "idle" /\ spec = <<>> /\ specGen = 0 /\ todo = <<>> /\ unchecked = {}
  /\ messages = <<>> /\ firstError = FALSE /\ refused = {}
  /\ faults = 0

Fault == faults < MaxFaults /\ faults' = faults + 1

-----------------------------------------------------------------------------
(* The cycle. *)

\* determineFinalPhase, for an application that is not suspended.
FinalPhase(failed, allReady) ==
  CASE failed -> "Failed"
    [] ~failed /\ allReady -> "Running"
    [] OTHER -> CASE status.phase \in {"Running", "Degraded"} -> "Degraded"
                  [] status.phase = "Creating" -> "Creating"
                  [] OTHER -> "Updating"

\* Reconcile returns, and its state is dropped.
Return ==
  /\ pc' = "idle" /\ spec' = <<>> /\ specGen' = 0 /\ todo' = <<>> /\ unchecked' = {}
  /\ messages' = <<>> /\ firstError' = FALSE /\ refused' = {}

\* The phase and the entries that are saved.
SaveEntries(final, failed) ==
  status' = [phase |-> FinalPhase(failed, \A n \in DOMAIN final : final[n] = "ready"),
             messages |-> final]

\* Mutant: no requeue.
ConcludeQuietly(final, failed) == SaveEntries(final, failed) /\ Return /\ UNCHANGED queued

\* Save and return, with a requeue after an error, or if a check found
\* something not ready; missing information asks for none.
Conclude(final, failed) ==
  /\ SaveEntries(final, failed) /\ Return
  /\ queued' = (queued \/ failed \/ \E n \in DOMAIN final : final[n] \in {"NotFound", "NotReady"})

\* Mutant: the generic error overwrites the specific one.
OverwriteAll(entries) == [n \in DOMAIN entries |-> "OverallReconcileError"]

\* A specific error stays.
updateComponentStatusesForError(entries) ==
  [n \in DOMAIN entries |-> IF entries[n] \in Errors THEN entries[n] ELSE "OverallReconcileError"]

\* Step 4: entries for the components of the spec, and their objects; one that
\* the builder refuses ends the cycle (handleReconcileError).
StartCycle ==
  /\ pc = "idle" /\ queued
  /\ LET entries == [n \in Names(app) |-> "Built"]
     IN IF \A c \in ToSet(app) : c.valid
          THEN /\ pc' = "apply" /\ queued' = FALSE
               /\ spec' = app /\ specGen' = gen
               /\ todo' = DesiredObjects(app) /\ messages' = entries
               /\ UNCHANGED <<status, unchecked, firstError, refused>>
          ELSE Conclude(updateComponentStatusesForError(entries), TRUE)
  /\ UNCHANGED <<specVars, objectVars, faults>>

\* What the next object is stored as; a Service keeps its cluster IP.
Built(o) ==
  [comp |-> o.comp, gen |-> specGen,
   headless |-> IF store[o.id] # Nothing THEN store[o.id].headless ELSE o.headless]

\* The library deletes a StatefulSet whose selector would change (it is told to
\* recreate workloads); the next cycle makes it anew.
Recreates(o) == o.id[1] = "StatefulSet" /\ store[o.id].comp \notin {o.comp, <<>>}

\* Step 5, an object that is accepted.
ApplyObject ==
  /\ pc = "apply" /\ todo # <<>> /\ Accepted(Head(todo).id)
  /\ LET o == Head(todo)
     IN /\ store' = [store EXCEPT ![o.id] = IF Recreates(o) THEN Nothing ELSE Built(o)]
        /\ pods' = IF Built(o) = store[o.id] \/ o.id[1] = "Service" THEN pods
                   ELSE [pods EXCEPT ![o.id] = IF @ = "none" \/ Recreates(o) THEN "none" ELSE "starting"]
        /\ queued' = (queued \/ store' # store)
  /\ todo' = Tail(todo)
  /\ UNCHANGED <<specVars, status, pc, spec, specGen, unchecked, messages, firstError, refused, faults>>

\* updateComponentStatusForApplyError; the loop goes on.
Blame(o) ==
  /\ messages' = [messages EXCEPT ![o.comp] = IF @ \in Errors THEN @ ELSE "ApplyFailed"]
  /\ refused' = refused \cup {o.comp}

ApplyGoesOn ==
  /\ todo' = Tail(todo) /\ firstError' = TRUE
  /\ UNCHANGED <<specVars, objectVars, status, queued, pc, spec, specGen, unchecked>>

\* The API server refuses the name of the object.
NameRefused ==
  /\ pc = "apply" /\ todo # <<>> /\ ~Accepted(Head(todo).id)
  /\ Blame(Head(todo)) /\ ApplyGoesOn /\ UNCHANGED faults

\* The apply fails for a reason that passes.
ApplyFails ==
  /\ pc = "apply" /\ todo # <<>> /\ Fault
  /\ Blame(Head(todo)) /\ ApplyGoesOn

\* Mutant: a conflict is left to the next cycle without a mark.
ConflictForgotten ==
  /\ pc = "apply" /\ todo # <<>> /\ Fault
  /\ todo' = Tail(todo)
  /\ UNCHANGED <<specVars, objectVars, status, queued, pc, spec, specGen, unchecked, messages,
                 firstError, refused>>

\* A conflict is an error of the cycle and no message of the component.
ApplyConflicts ==
  /\ pc = "apply" /\ todo # <<>> /\ Fault
  /\ ApplyGoesOn /\ UNCHANGED <<messages, refused>>

\* The read that precedes the apply of a Service fails: the loop is left.
ServiceReadFails ==
  /\ pc = "apply" /\ todo # <<>> /\ Head(todo).id[1] = "Service" /\ Fault
  /\ todo' = <<>> /\ firstError' = TRUE
  /\ UNCHANGED <<specVars, objectVars, status, queued, pc, spec, specGen, unchecked, messages, refused>>

\* After the loop: to the health checks, or past them with an error.
AppliedAll ==
  /\ pc = "apply" /\ todo = <<>>
  /\ IF firstError
       THEN Conclude(updateComponentStatusesForError(messages), TRUE)
       ELSE /\ pc' = "check" /\ unchecked' = Names(spec)
            /\ messages' = [n \in DOMAIN messages |-> "Applied"]
            /\ UNCHANGED <<status, queued, spec, specGen, todo, firstError, refused>>
  /\ UNCHANGED <<specVars, objectVars, faults>>

Present(id) == id \in DOMAIN store /\ store[id] # Nothing

PodsOf(comp) == {pods[id] : id \in {w \in DOMAIN pods : store[w].comp = comp}}

\* A headless Service needs endpoints, another one ready endpoints, of the pods
\* it selects.
AnyEndpoints(id) == PodsOf(store[id].comp) \cap {"starting", "ready"} # {}
ReadyEndpoints(id) == "ready" \in PodsOf(store[id].comp)

ServiceHealthy(id) == IF store[id].headless THEN AnyEndpoints(id) ELSE ReadyEndpoints(id)

\* CheckHealth: the object of the kind the first component declares, under the
\* component's own name.
CheckHealth(n) ==
  LET id == <<spec[1].kind, n>>
  IN CASE spec[1].kind = "" -> "InfoMissing"
       [] spec[1].kind = "Widget" -> "HealthCheckError"
       [] spec[1].kind = "StatefulSet" ->
            IF ~Present(id) THEN "NotFound" ELSE IF pods[id] = "ready" THEN "ready" ELSE "NotReady"
       [] OTHER ->
            IF ~Present(id) THEN "NotFound" ELSE IF ServiceHealthy(id) THEN "ready" ELSE "NotReady"

\* Mutant: the error of a check is not kept.
CheckedWithoutError(n, message) ==
  /\ messages' = [messages EXCEPT ![n] = message]
  /\ unchecked' = unchecked \ {n}
  /\ UNCHANGED <<specVars, objectVars, status, queued, pc, spec, specGen, todo, firstError, refused>>

\* The result of a check.
Checked(n, message) ==
  /\ messages' = [messages EXCEPT ![n] = message]
  /\ unchecked' = unchecked \ {n}
  /\ firstError' = (firstError \/ message = "HealthCheckError")
  /\ UNCHANGED <<specVars, objectVars, status, queued, pc, spec, specGen, todo, refused>>

\* Step 6, in the order of a map; a read may fail.
CheckComponent(n) ==
  /\ pc = "check" /\ n \in unchecked
  /\ \/ Checked(n, CheckHealth(n)) /\ UNCHANGED faults
     \/ spec[1].kind # "" /\ Checked(n, "HealthCheckError") /\ Fault

\* Step 7.
SaveStatus ==
  /\ pc = "check" /\ unchecked = {}
  /\ Conclude(messages, firstError)
  /\ UNCHANGED <<specVars, objectVars, faults>>

\* The operator stops and starts again; nothing of the cycle is saved.
Restart ==
  /\ Fault /\ queued' = TRUE /\ Return
  /\ UNCHANGED <<specVars, objectVars, status>>

-----------------------------------------------------------------------------
(* The cluster and users.  The events of the StatefulSets queue the key. *)

PodsGoTo(id, state) ==
  /\ pods' = [pods EXCEPT ![id] = state] /\ queued' = TRUE
  /\ UNCHANGED <<specVars, store, status, cycleVars>>

PodsComeUp(id) ==
  /\ Present(id) /\ UNCHANGED faults
  /\ \/ pods[id] = "none" /\ PodsGoTo(id, "starting")
     \/ pods[id] = "starting" /\ PodsGoTo(id, "ready")

PodFails(id) == pods[id] = "ready" /\ Fault /\ PodsGoTo(id, "starting")

\* What a removed component left behind stays.
EditApp ==
  /\ gen <= MaxEdits
  /\ \E next \in Apps \ {app} : app' = next
  /\ gen' = gen + 1 /\ queued' = TRUE
  /\ UNCHANGED <<objectVars, status, cycleVars, faults>>

Cycle ==
  \/ StartCycle \/ ApplyObject \/ NameRefused \/ AppliedAll
  \/ \E n \in unchecked : CheckComponent(n)
  \/ SaveStatus

StatusNext ==
  \/ Cycle \/ ApplyFails \/ ApplyConflicts \/ ServiceReadFails \/ Restart \/ EditApp
  \/ \E id \in DOMAIN pods : PodsComeUp(id) \/ PodFails(id)

StatusSpec ==
  /\ StatusInit /\ [][StatusNext]_statusVars
  /\ WF_statusVars(Cycle) /\ WF_statusVars(\E id \in DOMAIN pods : PodsComeUp(id))

-----------------------------------------------------------------------------
StatusTypeOK ==
  /\ app \in Apps /\ gen \in 1 .. MaxEdits + 1 /\ specGen \in 0 .. gen
  /\ \A id \in DOMAIN store : store[id] = Nothing \/ store[id].gen \in 1 .. gen
  /\ DOMAIN store = Ids /\ pods \in [Workloads -> {"none", "starting", "ready"}]
  /\ status.phase \in Phases
  /\ {status.messages[n] : n \in DOMAIN status.messages} \subseteq Messages
  /\ pc \in {"idle", "apply", "check"} /\ (pc = "idle" <=> spec = <<>>)
  /\ DOMAIN messages = Names(spec) /\ unchecked \subseteq Names(spec)

\* The phase and the entries that are saved with it tell one story: Running is
\* every component healthy, Failed is an error that some component shows.  The
\* entries are written by six functions and the phase from two other values.
StatusAgrees ==
  LET Saved == status.messages
  IN Saved # <<>> =>
       /\ status.phase = "Running" <=> \A n \in DOMAIN Saved : Saved[n] = "ready"
       /\ status.phase = "Failed" <=> \E n \in DOMAIN Saved : Saved[n] \in Errors

\* With no cycle to come, every object of the current spec is applied for it:
\* what a read that failed in the loop, a refusal, a restart or a workload
\* deleted for its selector left out is made up for, whatever the status says.
RestsApplied ==
  pc = "idle" /\ ~queued => \A o \in ToSet(DesiredObjects(app)) : store[o.id].gen = gen

\* A cycle that could not apply saves "ApplyFailed" for the components whose
\* objects were refused and for no other, whatever else failed after it.
CulpritIsNamed ==
  [][pc = "apply" /\ pc' = "idle" /\ UNCHANGED faults =>
       {n \in DOMAIN status'.messages : status'.messages[n] = "ApplyFailed"} = refused]_statusVars

\* No component is called healthy on account of what an older spec has under
\* its name: its StatefulSet was applied in this cycle, for itself or for a
\* component whose resource name is the same.
HealthyIsOwn ==
  pc = "check" /\ spec[1].kind = "StatefulSet" =>
    \A n \in DOMAIN messages : messages[n] = "ready" =>
      LET sts == store[<<"StatefulSet", n>>]
      IN sts.gen = specGen /\ sts.comp \in Names(spec) /\ DeriveResourceName(sts.comp) = n

\* A spec that builds, whose names stay as they are, do not meet and are
\* accepted for all objects.
Runnable(s) ==
  LET objects == DesiredObjects(s)
  IN /\ s[1].kind = "StatefulSet"
     /\ \A c \in ToSet(s) : c.valid /\ DeriveResourceName(c.name) = c.name
     /\ \A i \in DOMAIN objects :
          Accepted(objects[i].id) /\ \A j \in DOMAIN objects : objects[i].id = objects[j].id => i = j

StaysRunning == <>[](status.phase = "Running" /\ DOMAIN status.messages = Names(app))

\* Such a spec gets to Running and stays, in whatever order calls failed and
\* whatever an earlier spec with other names left behind.
GetsRunning == <>[]Runnable(app) => StaysRunning

\* The comment at DeriveResourceName, "generates a DNS-safe name for Kubernetes
\* resources": whichever names the API server accepts, the application runs.
AnyNamesRun ==
  <>[](app[1].kind = "StatefulSet" /\ \A c \in ToSet(app) : c.valid) => StaysRunning
=============================================================================
