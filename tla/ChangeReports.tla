---------------------------- MODULE ChangeReports ----------------------------
(***************************************************************************)
(* How Reconcile reports a change to the webhook: every event gets a       *)
(* recorder of its own (getEventRecorder), and the id of a change that     *)
(* made every component ready is saved in status.lastChangeID, after its   *)
(* success event was handed to the recorder.  The senders of those events  *)
(* (WebhookRecorder) run on while Reconcile saves, retries and restarts.   *)
(*                                                                         *)
(* Of the application only its change id and status.lastChangeID matter    *)
(* here; what a cycle finds (an error, progress or success) is arbitrary.  *)
(* Time does not pass: a recorder that sees one event never looks at what  *)
(* it remembers of it, so when it is forgotten makes no difference.        *)
(***************************************************************************)
EXTENDS WebhookRecorder

CONSTANTS
  MaxConflicts,  \* bound: writes of the status that fail
  MaxRestarts    \* bound: restarts of the operator

ASSUME ReportsAssumption ==
  /\ {"applied", "unfinished", "success"} \subseteq Labels
  /\ MaxConflicts \in Nat /\ MaxRestarts \in Nat

VARIABLES
  change,     \* the change-id annotation on the server
  lastSaved,  \* status.lastChangeID on the server, 0 for none
  cached,     \* [id, last] of the version in the informer cache
  step,       \* where Reconcile stands: idle, applying, concluding, saving
  copy,       \* [id, last] of state.appDef, and [orig] of state.originalStatus
  conflicts,  \* failed writes so far
  restarts    \* restarts so far

appVars == <<change, lastSaved, cached, step, copy, conflicts, restarts>>
reportVars == <<recorderVars, appVars>>

NoVersion == [id |-> 0, last |-> 0, orig |-> 0]

ReportsInit ==
  /\ RecorderInit
  /\ change \in Ids /\ \A id \in Ids : change <= id
  /\ lastSaved = 0 /\ cached = [id |-> change, last |-> 0]
  /\ step = "idle" /\ copy = NoVersion
  /\ conflicts = 0 /\ restarts = 0

\* A user stamps the next change id.
StampChange ==
  /\ change + 1 \in Ids
  /\ change' = change + 1
  /\ UNCHANGED <<recorderVars, lastSaved, cached, step, copy, conflicts, restarts>>

\* The cache catches up with the server.
CatchUp ==
  /\ cached # [id |-> change, last |-> lastSaved]
  /\ cached' = [id |-> change, last |-> lastSaved]
  /\ UNCHANGED <<recorderVars, change, lastSaved, step, copy, conflicts, restarts>>

StartCycle ==
  /\ step = "idle"
  /\ copy' = [id |-> cached.id, last |-> cached.last, orig |-> cached.last]
  /\ step' = "applying"
  /\ UNCHANGED <<recorderVars, change, lastSaved, cached, conflicts, restarts>>

\* recordEvent and recordEventf: skipped when the copy says that its change
\* was processed, else handed to a new recorder.
recordEvent(label) ==
  IF copy.last = copy.id
  THEN UNCHANGED recorderVars
  ELSE LET r == CHOOSE r \in Recorders : eventID[r] = None
       IN /\ \E s \in Recorders : eventID[s] = None
          /\ Accept(r, copy.id, label, {})
          /\ eventID' = [eventID EXCEPT ![r] = copy.id]
          /\ UNCHANGED <<now, failures>>

\* applyResources reports an object that it created or failed to apply, or
\* has nothing to report.
ApplyResources ==
  /\ step = "applying" /\ step' = "concluding"
  /\ recordEvent("applied") \/ UNCHANGED recorderVars
  /\ UNCHANGED <<change, lastSaved, cached, copy, conflicts, restarts>>

\* The cycle failed, or found components that are not ready yet.
ConcludeUnfinished ==
  /\ step = "concluding" /\ step' = "saving"
  /\ recordEvent("unfinished")
  /\ UNCHANGED <<change, lastSaved, cached, copy, conflicts, restarts>>

\* Mutant: the change is marked as processed before its event is recorded.
ConcludeMarksFirst ==
  /\ step = "concluding" /\ step' = "saving"
  /\ copy' = [copy EXCEPT !.last = copy.id]
  /\ UNCHANGED recorderVars
  /\ UNCHANGED <<change, lastSaved, cached, conflicts, restarts>>

\* All components are ready: the success event first, then LastChangeID.
ConcludeReady ==
  /\ step = "concluding" /\ step' = "saving"
  /\ recordEvent("success")
  /\ copy' = [copy EXCEPT !.last = copy.id]
  /\ UNCHANGED <<change, lastSaved, cached, conflicts, restarts>>

\* updateStatusIfNeeded writes the status of the copy.  A conflict on the way
\* refetches the object but keeps this status, so it ends here too.
SaveStatus ==
  /\ step = "saving"
  /\ lastSaved' = copy.last
  /\ step' = "idle" /\ copy' = NoVersion
  /\ UNCHANGED <<recorderVars, change, cached, conflicts, restarts>>

\* updateStatusIfNeeded finds nothing to write: the phase, which this module
\* leaves out, may be unchanged, and lastChangeID is.
SaveUnneeded ==
  /\ step = "saving" /\ copy.last = copy.orig
  /\ step' = "idle" /\ copy' = NoVersion
  /\ UNCHANGED <<recorderVars, change, lastSaved, cached, conflicts, restarts>>

\* Mutant: the requeued cycle goes on with the copy it has.
SaveFailsKeepsCopy ==
  /\ step = "saving" /\ conflicts < MaxConflicts
  /\ conflicts' = conflicts + 1
  /\ step' = "idle"
  /\ UNCHANGED <<recorderVars, change, lastSaved, cached, copy, restarts>>

\* The status is lost: a failed call, or three conflicts.  The key is requeued.
SaveFails ==
  /\ step = "saving" /\ conflicts < MaxConflicts
  /\ conflicts' = conflicts + 1
  /\ step' = "idle" /\ copy' = NoVersion
  /\ UNCHANGED <<recorderVars, change, lastSaved, cached, restarts>>

\* The operator restarts: its cycle, recorders and unfinished senders go.
Restart ==
  /\ restarts < MaxRestarts
  /\ restarts' = restarts + 1
  /\ step' = "idle" /\ copy' = NoVersion
  /\ eventID' = [r \in Recorders |-> None]
  /\ sentEvents' = [r \in Recorders |-> {}]
  /\ senders' = [i \in Senders |->
       IF senders[i].state = "delivered" THEN senders[i]
       ELSE [senders[i] EXCEPT !.state = "dropped"]]
  /\ UNCHANGED <<now, failures, change, lastSaved, cached, conflicts>>

ReportsNext ==
  \/ StampChange
  \/ CatchUp
  \/ StartCycle
  \/ ApplyResources
  \/ ConcludeUnfinished
  \/ ConcludeReady
  \/ SaveStatus
  \/ SaveUnneeded
  \/ SaveFails
  \/ Restart
  \/ (\E i \in Senders : Send(i)) /\ UNCHANGED appVars

ReportsSpec == ReportsInit /\ [][ReportsNext]_reportVars

\* The goroutines of the operator run, the senders among them.
ReportsFairSpec ==
  ReportsSpec
  /\ \A i \in 1 .. MaxEvents : WF_reportVars(i \in Senders /\ Send(i) /\ UNCHANGED appVars)

-----------------------------------------------------------------------------
IsSuccess(i, id) == senders[i].id = id /\ senders[i].label = "success"

\* Types; between cycles Reconcile holds no copy of the object.
ReportsTypeOK ==
  /\ RecorderTypeOK
  /\ change \in Ids /\ lastSaved \in Ids \cup {0}
  /\ cached \in [id : Ids, last : Ids \cup {0}]
  /\ copy \in [id : Ids \cup {0}, last : Ids \cup {0}, orig : Ids \cup {0}]
  /\ step \in {"idle", "applying", "concluding", "saving"}
  /\ step = "idle" <=> copy = NoVersion
  /\ conflicts \in Nat /\ restarts \in Nat

\* "Record reconciliation completion event BEFORE updating LastChangeID": no
\* stale copy, failed save or restart leads to a change that is saved as
\* processed but whose success was never handed to a sender, although
\* recordEvent skips every event of a change its copy says is processed.
ProcessedWasReported ==
  lastSaved # 0 => \E i \in Senders : IsSuccess(i, lastSaved)

\* With no restart, no network error and few failures, the endpoint in the
\* end handles the success of every change that was saved as processed.
ProcessedIsDelivered ==
  \A id \in Ids :
    lastSaved = id ~>
      \/ \E i \in Senders : IsSuccess(i, id) /\ senders[i].state \in {"delivered", "unreachable"}
      \/ restarts > 0 \/ ~FewFailures

\* The comment on LastChangeID: the success "is sent before the change ID is
\* marked as processed", so the endpoint has handled it by then.
SentBeforeProcessed ==
  lastSaved # 0 => \E i \in Senders : IsSuccess(i, lastSaved) /\ senders[i].handled > 0

\* The comment on sentEvents: sent events are tracked "to avoid duplicates",
\* by change id, phase, step and status.
SentOnce ==
  \A i, j \in Senders :
    i < j /\ senders[i].id = senders[j].id /\ senders[i].label = senders[j].label
      => senders[j].at - senders[i].at > TTL
=============================================================================
