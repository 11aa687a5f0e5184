--------------------------- MODULE MCAppReconcile ---------------------------
(***************************************************************************)
(* Small instances of AppReconcile.  A spec is written as Sp(replicas of   *)
(* the components, suspended, valid).                                      *)
(***************************************************************************)
EXTENDS AppRefinement

Sp(reps, suspend, valid) == [reps |-> reps, suspend |-> suspend, valid |-> valid]

One(n)    == [c \in Components |-> IF c = "c1" THEN n ELSE Absent]
Two(m, n) == [c \in Components |-> IF c = "c1" THEN m ELSE n]

OneComponent  == {"c1"}
TwoComponents == {"c1", "c2"}

RunningOne == Sp(One(1), FALSE, TRUE)

\* Edits of a running application, one of them refused by the builders.
EditedSpecs == {RunningOne, Sp(One(1), FALSE, FALSE)}

\* Suspending, scaling and resuming one component.
PausedSpecs == {RunningOne, Sp(One(2), FALSE, TRUE), Sp(One(1), TRUE, TRUE)}

\* Running, suspended at another size, or refused: for liveness.
SuspendedTwo == Sp(One(2), TRUE, TRUE)
LivelySpecs == {RunningOne, SuspendedTwo, Sp(One(1), FALSE, FALSE)}

\* Suspended at zero replicas, resumed at one.
RunningZero == Sp(One(0), FALSE, TRUE)
ZeroSpecs == {RunningZero, RunningOne, Sp(One(0), TRUE, TRUE)}

\* A component added to another or in its place, both suspended, or a spec the
\* builders refuse.
RunningTwo == Sp(Two(1, 1), FALSE, TRUE)
GrownSpecs == {RunningOne, RunningTwo, Sp(Two(Absent, 1), FALSE, TRUE),
               Sp(Two(1, 1), TRUE, TRUE), Sp(Two(1, 1), FALSE, FALSE)}

NoIds     == {"kept"}
FreshIds  == {"fresh"}
AllFresh  == {"fresh", "restamp"}
LateIds   == {"unused", "fresh"}
=============================================================================
