--------------------------- MODULE WebhookRecorder ---------------------------
(***************************************************************************)
(* WebhookEventRecorder (pkg/webrecorder): recorders that send each event  *)
(* they accept to a webhook from a goroutine of its own, remember what     *)
(* they accepted to avoid duplicates, and forget it after a while.         *)
(*                                                                         *)
(* An event is its change id and a label, which stands for the phase, step *)
(* and status that its key is hashed from.  Time is counted in units of    *)
(* the cleanup ticker (10 minutes); the backoff of a sender (10 s, 20 s)   *)
(* and the timeout of a request (10 s) are steps that take no time here.   *)
(***************************************************************************)
EXTENDS Integers, Sequences

CONSTANTS
  Recorders,    \* recorders a client may create
  Ids,          \* change ids
  Labels,       \* phase, step and status of an event
  TTL,          \* eventTTL, in cleanup periods
  MaxTime,      \* bound: time
  MaxEvents,    \* bound: accepted events
  MaxFailures   \* bound: requests that fail

\* The id of a recorder that does not exist yet.
None == 0

ASSUME RecorderAssumption ==
  /\ Ids \subseteq Nat \ {None}
  /\ TTL \in Nat /\ MaxTime \in Nat /\ MaxEvents \in Nat /\ MaxFailures \in Nat

\* WebhookRetryMaxAttempts.
WebhookRetryMaxAttempts == 3

VARIABLES
  now,         \* the clock, in cleanup periods
  eventID,     \* per recorder its change id, or None before it is created
  sentEvents,  \* per recorder, the remembered events: [label, at]
  senders,     \* the goroutines sending events, in the order they were started, each
               \* with the number of its requests that the endpoint handled
  failures     \* failed requests so far

recorderVars == <<now, eventID, sentEvents, senders, failures>>

RecorderInit ==
  /\ now = 0
  /\ eventID = [r \in Recorders |-> None]
  /\ sentEvents = [r \in Recorders |-> {}]
  /\ senders = <<>> /\ failures = 0

\* NewWebhookEventRecorder: nothing remembered; its cleanup runs for ever.
NewWebhookEventRecorder(r, id) ==
  /\ eventID[r] = None
  /\ eventID' = [eventID EXCEPT ![r] = id]
  /\ UNCHANGED <<now, sentEvents, senders, failures>>

\* An event with this label was accepted and is still remembered.
Remembered(r, label) == \E e \in sentEvents[r] : e.label = label

\* shouldSendEvent and the start of the sender, for an event of recorder r.
Accept(r, id, label, remembered) ==
  /\ Len(senders) < MaxEvents
  /\ sentEvents' = [sentEvents EXCEPT ![r] = remembered \cup {[label |-> label, at |-> now]}]
  /\ senders' = Append(senders, [recorder |-> r, id |-> id, label |-> label, at |-> now,
                                 attempt |-> 0, handled |-> 0, state |-> "sending"])

\* AnnotatedEventf: a remembered event is skipped, another one is marked and
\* handed to a new goroutine.
AnnotatedEventf(r, label) ==
  /\ eventID[r] # None
  /\ ~Remembered(r, label)
  /\ Accept(r, eventID[r], label, sentEvents[r])
  /\ UNCHANGED <<now, eventID, failures>>

SenderAt(i, state) == i \in DOMAIN senders /\ senders[i].state = state

\* The request of sender i was handled, or not, and the sender moves on.
Answered(i, handled, state) ==
  senders' = [senders EXCEPT ![i].state = state, ![i].handled = @ + (IF handled THEN 1 ELSE 0)]

\* The endpoint handles the request and its 2xx answer arrives.
SendSucceeds(i) ==
  /\ SenderAt(i, "sending")
  /\ Answered(i, TRUE, "delivered")
  /\ UNCHANGED <<now, eventID, sentEvents, failures>>

\* Mutant: the last attempt is never made.
AfterFailureEarly(i) ==
  IF senders[i].attempt + 2 < WebhookRetryMaxAttempts THEN "waiting" ELSE "dropped"

\* Mutant: a failure is final.
AfterFailureFinal(i) == "dropped"

\* What a failed attempt leads to: another one after a pause, or the end.
AfterFailure(i) ==
  IF senders[i].attempt + 1 < WebhookRetryMaxAttempts THEN "waiting" ELSE "dropped"

\* An error status or a timeout: the request may have been handled all the same.
SendFails(i) ==
  /\ SenderAt(i, "sending") /\ failures < MaxFailures
  /\ \E handled \in BOOLEAN : Answered(i, handled, AfterFailure(i))
  /\ failures' = failures + 1
  /\ UNCHANGED <<now, eventID, sentEvents>>

\* A network error (isNetworkError) ends the sender at once; after an EOF the
\* request may have been handled.
NetworkError(i) ==
  /\ SenderAt(i, "sending") /\ failures < MaxFailures
  /\ \E handled \in BOOLEAN : Answered(i, handled, "unreachable")
  /\ failures' = failures + 1
  /\ UNCHANGED <<now, eventID, sentEvents>>

\* Mutant: the attempt is not counted.
RetryUncounted(i) ==
  /\ SenderAt(i, "waiting")
  /\ senders' = [senders EXCEPT ![i].state = "sending"]
  /\ UNCHANGED <<now, eventID, sentEvents, failures>>

\* The backoff is over: the next attempt.
Retry(i) ==
  /\ SenderAt(i, "waiting")
  /\ senders' = [senders EXCEPT ![i].state = "sending", ![i].attempt = @ + 1]
  /\ UNCHANGED <<now, eventID, sentEvents, failures>>

\* Mutant: entries of exactly the TTL, and younger by one tick, are dropped.
TickEarly ==
  /\ now < MaxTime
  /\ now' = now + 1
  /\ sentEvents' = [r \in Recorders |-> {e \in sentEvents[r] : now' - e.at < TTL}]
  /\ UNCHANGED <<eventID, senders, failures>>

\* Time passes and every recorder forgets the entries older than eventTTL
\* (cleanupOldEvents).
Tick ==
  /\ now < MaxTime
  /\ now' = now + 1
  /\ sentEvents' = [r \in Recorders |-> {e \in sentEvents[r] : now' - e.at <= TTL}]
  /\ UNCHANGED <<eventID, senders, failures>>

Send(i) == SendSucceeds(i) \/ SendFails(i) \/ NetworkError(i) \/ Retry(i)

Senders == DOMAIN senders

\* A client that keeps its recorders, like the tests of the package.
RecorderNext ==
  \/ \E r \in Recorders, id \in Ids : NewWebhookEventRecorder(r, id)
  \/ \E r \in Recorders, label \in Labels : AnnotatedEventf(r, label)
  \/ \E i \in Senders : Send(i)
  \/ Tick

\* Goroutines run: every sender gets on with its event.
RecorderFairness ==
  \A i \in 1 .. MaxEvents : WF_recorderVars(i \in Senders /\ Send(i))

RecorderSpec     == RecorderInit /\ [][RecorderNext]_recorderVars
RecorderFairSpec == RecorderSpec /\ RecorderFairness

-----------------------------------------------------------------------------
SenderStates == {"sending", "waiting", "delivered", "unreachable", "dropped"}
SenderRecords ==
  [recorder : Recorders, id : Ids, label : Labels, at : Nat,
   attempt : 0 .. WebhookRetryMaxAttempts - 1, handled : Nat, state : SenderStates]

\* Types, with the number of the attempt within its bound.
RecorderTypeOK ==
  /\ now \in Nat /\ failures \in Nat
  /\ eventID \in [Recorders -> Ids \cup {None}]
  /\ sentEvents \in [Recorders -> SUBSET [label : Labels, at : Nat]]
  /\ senders \in Seq(SenderRecords)

SameKey(e, f) == e.recorder = f.recorder /\ e.label = f.label

\* "sentEvents tracks sent events to avoid duplicates": a recorder accepts the
\* same event again only when more than eventTTL has passed, wherever the
\* cleanup and the reports fall.
Deduplicates ==
  \A i, j \in Senders :
    i < j /\ SameKey(senders[i], senders[j]) => senders[j].at - senders[i].at > TTL

\* The endpoint handles one event at most WebhookRetryMaxAttempts times, also
\* when it handled requests whose answer was lost, and every retry repeats it.
ReceiptsBounded == \A i \in Senders : senders[i].handled <= WebhookRetryMaxAttempts

\* Fewer requests have failed than an event has attempts.
FewFailures == failures < WebhookRetryMaxAttempts

\* Every accepted event is delivered when fewer requests fail than it has
\* attempts and its own met no network error: a failure is retried until an
\* attempt succeeds (what TestWebhookRetry expects of two error answers).
AcceptedIsDelivered ==
  \A i \in 1 .. MaxEvents :
    i \in Senders ~> SenderAt(i, "delivered") \/ SenderAt(i, "unreachable") \/ ~FewFailures
=============================================================================
