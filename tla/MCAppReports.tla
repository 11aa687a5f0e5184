----------------------------- MODULE MCAppReports -----------------------------
(* Instances of AppReports: specs and stamps as in MCAppReconcile. *)
EXTENDS MCAppReconcile, AppReports
=============================================================================
