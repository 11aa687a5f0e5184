------------------------ MODULE MCStatefulSetHealth ------------------------
(* Small instances of StatefulSetHealth. *)
EXTENDS StatefulSetHealth
=============================================================================
