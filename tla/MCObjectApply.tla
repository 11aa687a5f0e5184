---------------------------- MODULE MCObjectApply ----------------------------
(* Small instances of ObjectApply. *)
EXTENDS ObjectApply
=============================================================================
