--------------------------- MODULE MCConfigRollout ---------------------------
(* Small instances of ConfigRollout. *)
EXTENDS ConfigRollout
=============================================================================
