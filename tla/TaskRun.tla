------------------------------- MODULE TaskRun -------------------------------
(***************************************************************************)
(* The task runner of pkg/reconcilers/common with its two tasks, and the   *)
(* strategy of pkg/reconcilers/runtime that turns the outcome of a run     *)
(* into "requeue" or an error.  (The strategy is registered, but           *)
(* Reconcile of internal/controller/app does not call it.)                 *)
(*                                                                         *)
(* The objects are a Go map: ApplyResourcesTask takes them in any order.   *)
(* The caller runs the strategy for a queued component, as the contract in *)
(* pkg/strategy/reconcile_strategy.go says.                                *)
(***************************************************************************)
EXTENDS Integers, Sequences, FiniteSets

CONSTANTS
  Objects,   \* the desired objects of the component
  TaskList,  \* the tasks of the strategy, of "apply" and "health"
  HasInfo,   \* whether the component's status names its workload
  MaxFaults, \* bound: calls that fail
  MaxFlaps   \* bound: losses of readiness

ASSUME TaskAssumption ==
  /\ TaskList \in Seq({"apply", "health"}) /\ HasInfo \in BOOLEAN
  /\ MaxFaults \in Nat /\ MaxFlaps \in Nat

VARIABLES
  applied,      \* objects in the cluster
  ready,        \* the workload is ready
  requeued,     \* the component is to be run (again)
  running,      \* a run is under way
  rest,         \* its tasks still to be done
  untried,      \* objects the apply task has not tried yet
  applyResults, \* per object: none, ok, error
  firstTaskErr, \* the apply task met an error
  health,       \* componentStatus.health
  checkedAt,    \* history: the check of this run found the workload ready
  overallResult,\* of the last run: none, Complete, Pending, Failed
  taskFaults, taskFlaps

runVars == <<rest, untried, applyResults, firstTaskErr, checkedAt>>
taskVars == <<applied, ready, requeued, running, runVars, health, overallResult,
              taskFaults, taskFlaps>>

NoResults == [o \in Objects |-> "none"]

TaskInit ==
  /\ applied = {} /\ ready = FALSE /\ requeued = TRUE /\ running = FALSE
  /\ rest = <<>> /\ untried = {} /\ applyResults = NoResults
  /\ firstTaskErr = FALSE /\ health = FALSE /\ checkedAt = FALSE
  /\ overallResult = "none" /\ taskFaults = 0 /\ taskFlaps = 0

\* The workload gets ready once everything is applied, and may lose it.  It is
\* owned, so the change enqueues.
WorkloadReady ==
  /\ applied = Objects /\ ~ready
  /\ ready' = TRUE /\ requeued' = TRUE
  /\ UNCHANGED <<applied, running, runVars, health, overallResult, taskFaults, taskFlaps>>

WorkloadFails ==
  /\ ready /\ taskFlaps < MaxFlaps
  /\ ready' = FALSE /\ requeued' = TRUE /\ taskFlaps' = taskFlaps + 1
  /\ UNCHANGED <<applied, running, runVars, health, overallResult, taskFaults>>

\* RunTasks with a new TaskContext.
RunTasks ==
  /\ requeued /\ ~running
  /\ requeued' = FALSE /\ running' = TRUE
  /\ rest' = TaskList /\ untried' = Objects /\ applyResults' = NoResults
  /\ firstTaskErr' = FALSE /\ checkedAt' = FALSE
  /\ UNCHANGED <<applied, ready, health, overallResult, taskFaults, taskFlaps>>

Task(name) == running /\ rest # <<>> /\ Head(rest) = name

\* Mutant: an error of a run is not handed on.
EndsRunSilently(result) ==
  /\ running' = FALSE /\ overallResult' = result
  /\ requeued' = (requeued \/ result = "Pending")

\* The run ends: the strategy returns an error, "requeue", or neither.
EndsRun(result) ==
  /\ running' = FALSE /\ overallResult' = result
  /\ requeued' = (requeued \/ result \in {"Pending", "Failed"})

\* ApplyObject succeeds for the next object of the map.
ApplySucceeds(o) ==
  /\ Task("apply") /\ o \in untried
  /\ applied' = applied \cup {o} /\ untried' = untried \ {o}
  /\ applyResults' = [applyResults EXCEPT ![o] = "ok"]
  /\ UNCHANGED <<ready, requeued, running, rest, firstTaskErr, health, checkedAt,
                 overallResult, taskFaults, taskFlaps>>

\* It fails, a conflict included: noted, and the other objects are tried.
ApplyFails(o) ==
  /\ Task("apply") /\ o \in untried /\ taskFaults < MaxFaults
  /\ taskFaults' = taskFaults + 1 /\ untried' = untried \ {o}
  /\ applyResults' = [applyResults EXCEPT ![o] = "error"] /\ firstTaskErr' = TRUE
  /\ UNCHANGED <<applied, ready, requeued, running, rest, health, checkedAt,
                 overallResult, taskFlaps>>

\* The owner reference cannot be set: the task fails at once.
OwnerRefFails(o) ==
  /\ Task("apply") /\ o \in untried /\ taskFaults < MaxFaults
  /\ taskFaults' = taskFaults + 1
  /\ applyResults' = [applyResults EXCEPT ![o] = "error"] /\ firstTaskErr' = TRUE
  /\ EndsRun("Failed")
  /\ UNCHANGED <<applied, ready, rest, untried, health, checkedAt, taskFlaps>>

\* Mutant: the errors of single objects do not fail the task.
ApplyTaskEndsComplete ==
  /\ Task("apply") /\ untried = {}
  /\ rest' = Tail(rest)
  /\ UNCHANGED <<applied, ready, requeued, running, untried, applyResults, firstTaskErr,
                 health, checkedAt, overallResult, taskFaults, taskFlaps>>

\* All objects were tried: Complete, or Failed with the first error, which
\* ends the run.
ApplyTaskEnds ==
  /\ Task("apply") /\ untried = {}
  /\ IF firstTaskErr
     THEN EndsRun("Failed") /\ UNCHANGED rest
     ELSE rest' = Tail(rest) /\ UNCHANGED <<requeued, running, overallResult>>
  /\ UNCHANGED <<applied, ready, untried, applyResults, firstTaskErr, health, checkedAt,
                 taskFaults, taskFlaps>>

\* Mutant: a workload that is not ready does not stop the sequence.
CheckK8sHealthNeverPends ==
  /\ Task("health")
  /\ health' = (HasInfo /\ ready) /\ checkedAt' = health'
  /\ rest' = Tail(rest)
  /\ UNCHANGED <<applied, ready, requeued, running, untried, applyResults, firstTaskErr,
                 overallResult, taskFaults, taskFlaps>>

\* CheckK8sHealthTask: nothing to check, ready, or Pending, which ends the run.
CheckK8sHealth ==
  /\ Task("health")
  /\ health' = (HasInfo /\ ready) /\ checkedAt' = health'
  /\ IF HasInfo /\ ~ready
     THEN EndsRun("Pending") /\ UNCHANGED rest
     ELSE rest' = Tail(rest) /\ UNCHANGED <<requeued, running, overallResult>>
  /\ UNCHANGED <<applied, ready, untried, applyResults, firstTaskErr, taskFaults, taskFlaps>>

\* The check itself fails.
CheckFails ==
  /\ Task("health") /\ HasInfo /\ taskFaults < MaxFaults
  /\ taskFaults' = taskFaults + 1
  /\ health' = FALSE /\ EndsRun("Failed")
  /\ UNCHANGED <<applied, ready, runVars, taskFlaps>>

\* No task is left: Complete.
RunCompletes ==
  /\ running /\ rest = <<>>
  /\ EndsRun("Complete")
  /\ UNCHANGED <<applied, ready, runVars, health, taskFaults, taskFlaps>>

RunnerStep ==
  \/ RunTasks
  \/ \E o \in Objects : ApplySucceeds(o) \/ ApplyFails(o) \/ OwnerRefFails(o)
  \/ ApplyTaskEnds
  \/ CheckK8sHealth
  \/ CheckFails
  \/ RunCompletes

TaskNext == RunnerStep \/ WorkloadReady \/ WorkloadFails

\* The worker runs, and an applied workload gets ready.
TaskSpec ==
  TaskInit /\ [][TaskNext]_taskVars /\ WF_taskVars(RunnerStep) /\ WF_taskVars(WorkloadReady)

-----------------------------------------------------------------------------
Has(name) == \E i \in DOMAIN TaskList : TaskList[i] = name

\* Types; what is still to be done is an end of the task list.
TaskTypeOK ==
  /\ applied \subseteq Objects /\ untried \subseteq Objects
  /\ applyResults \in [Objects -> {"none", "ok", "error"}]
  /\ running => \E k \in 1 .. Len(TaskList) + 1 : rest = SubSeq(TaskList, k, Len(TaskList))
  /\ overallResult \in {"none", "Complete", "Pending", "Failed"}

\* "Complete otherwise": a run is only complete when no object failed, in
\* whatever order the map gave them, and its health check found the workload
\* ready (or had none to look at).
CompleteMeansDone ==
  ~running /\ overallResult = "Complete" =>
    /\ Has("apply") => \A o \in Objects : applyResults[o] = "ok"
    /\ Has("health") /\ HasInfo => checkedAt

\* A run that ended early left the later tasks alone: the health it reports is
\* never that of a check after a failed apply.
NoCheckAfterFailedApply ==
  (\E o \in Objects : applyResults[o] = "error") => ~checkedAt

\* Once calls succeed the component is complete and reported healthy.
TasksComplete == <>[](overallResult = "Complete" /\ health)
=============================================================================
