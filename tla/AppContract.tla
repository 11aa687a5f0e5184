----------------------------- MODULE AppContract -----------------------------
(***************************************************************************)
(* What the operator promises the owner of an ApplicationDefinition,       *)
(* without reads, retries or statuses.  Versions of the application are    *)
(* requested one after the other; components are brought up to requested   *)
(* versions, never back to older ones; and the operator declares itself    *)
(* done with the application only when every requested component stands at *)
(* the latest version.  A new request ends the declaration.                *)
(***************************************************************************)
EXTENDS Naturals

CONSTANT Components

VARIABLES
  present,    \* the application exists
  requested,  \* the latest version asked for
  wanted,     \* its components
  built,      \* the version each component stands at, 0 for none
  done        \* the operator will not look at the application again

vars == <<present, requested, wanted, built, done>>

Init ==
  /\ present = TRUE /\ requested = 1 /\ wanted \subseteq Components
  /\ built = [c \in Components |-> 0] /\ done = FALSE

Request ==
  /\ present /\ requested' = requested + 1
  /\ wanted' \in SUBSET Components
  /\ done' = FALSE
  /\ UNCHANGED <<present, built>>

BringUp(c) ==
  /\ present
  /\ \E v \in built[c] .. requested : built' = [built EXCEPT ![c] = v]
  /\ done => (c \in wanted => built'[c] = requested)
  /\ UNCHANGED <<present, requested, wanted, done>>

Declare ==
  /\ present /\ \A c \in wanted : built[c] = requested
  /\ done' = TRUE
  /\ UNCHANGED <<present, requested, wanted, built>>

Reconsider ==
  /\ done' = FALSE
  /\ UNCHANGED <<present, requested, wanted, built>>

Remove ==
  /\ present /\ present' = FALSE /\ done' = FALSE
  /\ UNCHANGED <<requested, wanted, built>>

Collect ==
  /\ ~present /\ built' = [c \in Components |-> 0]
  /\ UNCHANGED <<present, requested, wanted, done>>

Next ==
  \/ Request \/ Declare \/ Reconsider \/ Remove \/ Collect
  \/ \E c \in Components : BringUp(c)

Spec == Init /\ [][Next]_vars
=============================================================================
