-------------------------- MODULE MCComponentStatus --------------------------
(* Instances of ComponentStatus: specs whose names are plain, collide, are    *)
(* refused or are never found again.                                          *)
EXTENDS ComponentStatus

Comp(name, kind, service) == [name |-> name, kind |-> kind, service |-> service, valid |-> TRUE]
Sts(name) == Comp(name, "StatefulSet", FALSE)

ab == <<"a", "b">>
ab_h == ab \o Headless
a_b == <<"a", "_", "b">>
a_dash_b == <<"a", "-", "b">>

Plain == <<Sts(ab), Sts(a_dash_b)>>
\* "a_b" becomes "a-b", where it is not looked for.
Underscore == <<Sts(a_b)>>
\* One StatefulSet for two: the second finds that of the first, or the first
\* that of the second.
SameName == <<Sts(a_b), Sts(a_dash_b)>>
SameNameAgain == <<Sts(a_dash_b), Sts(a_b)>>
\* The client Service of one is the headless one of the other.
SuffixMeets == <<Sts(ab), Comp(ab_h, "StatefulSet", TRUE)>>
\* No names of Services.
NoLabels == <<Sts(<<"a", ".", "b">>), Sts(<<"1", "a">>)>>
\* Fits, and does not with the suffix.
Long == <<Sts(<<"a", "b", "c", "d", "e">>)>>
\* The kind of the first component is used for all.
AsServices == <<Comp(ab, "Service", TRUE), Sts(a_dash_b)>>
UnknownKind == <<Comp(ab, "Widget", FALSE), Sts(a_dash_b)>>
NoKind == <<Comp(ab, "", FALSE)>>
Refused == <<Sts(ab), [Sts(a_dash_b) EXCEPT !.valid = FALSE]>>
AllApps == {Plain, Underscore, SameName, SameNameAgain, SuffixMeets, NoLabels, Long, AsServices, UnknownKind, NoKind, Refused}
\* Those of them whose cycles differ most, for the run.
SomeApps == {Plain, SameName, SameNameAgain, SuffixMeets, Long, Refused}
NameApps == {Plain, Underscore}
=============================================================================
