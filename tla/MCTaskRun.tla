------------------------------ MODULE MCTaskRun ------------------------------
(* Small instances of TaskRun: the apply task and the health task. *)
EXTENDS TaskRun
MCTaskList == <<"apply", "health">>
=============================================================================
