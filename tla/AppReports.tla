------------------------------ MODULE AppReports ------------------------------
(***************************************************************************)
(* AppReconcile together with the success events of its cycles: what the   *)
(* receiver of the webhook is told about changes, against what was done.   *)
(* ChangeReports has the other side, how such an event is sent.            *)
(***************************************************************************)
EXTENDS AppReconcile

VARIABLE told  \* history: change ids whose success was handed to a recorder

reportVars == <<vars, told>>

\* Mutant: only the creation is reported.
recordEventAtCreation(changeID) ==
  told' = IF changeID # 0 /\ appDef.status.phase = "Creating" THEN told \cup {changeID} ELSE told

\* recordEvent: with a change id, and unless the copy has it as processed.
recordEvent(changeID) ==
  told' = IF changeID # 0 /\ appDef.status.lcid # changeID THEN told \cup {changeID} ELSE told

\* Step 7: a cycle that found everything ready says so before it sets
\* lastChangeID and saves.
Succeeds == pc = "health" /\ pc' = "status" /\ allReady /\ ~firstError

ReportsInit == Init /\ told = {}

ReportsNext ==
  /\ Next
  /\ IF Succeeds THEN recordEvent(appDef.chg) ELSE UNCHANGED told

FairReports == ReportsInit /\ [][ReportsNext]_reportVars /\ FairOperator

-----------------------------------------------------------------------------
\* The receiver is told of a success only if every component of the spec that
\* carries the id was built and applied from it: with retries, restarts, stale
\* copies and edits in between.  It is told before lastChangeID is saved, so
\* this is more than FastPathSound.
SuccessWasApplied ==
  server.exists /\ server.chg \in told =>
    \A c \in Named(server.spec.reps) : workload[c].tmpl = server.gen

\* When users and faults stop and pods come up, the receiver has been told of
\* the last change: no lost save, conflict or skipped cycle swallows it.  Not
\* so for a change that suspends, see ReportsSuspension.
ChangeGetsReported ==
  FairPods => <>[](server.exists /\ ~server.deleting /\ server.chg # 0
                     /\ server.spec.valid /\ ~server.spec.suspend => server.chg \in told)

\* The comment at the status field lastChangeID, "records the last change ID
\* that was processed and sent to the webhook": a change that suspends the
\* application is one as well.
ReportsSuspension ==
  FairPods => <>[](server.exists /\ ~server.deleting /\ server.chg # 0
                     /\ server.spec.valid /\ server.spec.suspend => server.chg \in told)
=============================================================================
