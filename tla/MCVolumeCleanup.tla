--------------------------- MODULE MCVolumeCleanup ---------------------------
(* Small instances of VolumeCleanup. *)
EXTENDS VolumeCleanup
=============================================================================
