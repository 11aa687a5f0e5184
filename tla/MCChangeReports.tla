--------------------------- MODULE MCChangeReports ---------------------------
(* Small instances of ChangeReports: change ids 1 and 2, and events of a     *)
(* cycle that applies, progresses or succeeds.                               *)
EXTENDS ChangeReports, TLC
MCIds == 1 .. 2
=============================================================================
