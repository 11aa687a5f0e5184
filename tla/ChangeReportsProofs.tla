------------------------- MODULE ChangeReportsProofs -------------------------
(***************************************************************************)
(* What a recorder remembers and how often it sends, and what Reconcile    *)
(* has reported of a change it saved as processed; for any number of       *)
(* recorders, events, failures, conflicts and restarts.                    *)
(*                                                                         *)
(* No duplicates: an accepted event is remembered or older than eventTTL,  *)
(* and only Tick, which forgets, could end that.  Bounded receipts: while  *)
(* a request is under way the endpoint has handled at most one per earlier *)
(* attempt.  Processed changes: every id that may be saved one day, in the *)
(* copy of a cycle or in the cache, already has its success event.         *)
(***************************************************************************)
EXTENDS ChangeReports, TLAPS

\* A sender is ahead of what the endpoint handled by the attempt under way, and
\* waits only for an attempt it may make.
Attempts ==
  \A i \in Senders :
    /\ senders[i].handled <= senders[i].attempt + 1
    /\ senders[i].state = "sending" => senders[i].handled <= senders[i].attempt
    /\ senders[i].state = "waiting" => senders[i].attempt + 1 < WebhookRetryMaxAttempts

\* An accepted event is still remembered, or its time is over.
Kept ==
  \A i \in Senders :
    \/ now - senders[i].at > TTL
    \/ [label |-> senders[i].label, at |-> senders[i].at] \in sentEvents[senders[i].recorder]

RecorderInv == RecorderTypeOK /\ Attempts /\ Kept /\ Deduplicates

\* The success event of the change was handed to a sender; 0 is no change.
SuccessRecorded(id) == id # 0 => \E i \in Senders : IsSuccess(i, id)

ReportsInv ==
  /\ ReportsTypeOK /\ Attempts
  /\ step # "idle" => copy.id \in Ids
  /\ SuccessRecorded(lastSaved) /\ SuccessRecorded(cached.last) /\ SuccessRecorded(copy.last)

-----------------------------------------------------------------------------
(* Senders.                                                                *)

\* The senders are numbered from one.
LEMMA SenderNumbers ==
  ASSUME RecorderTypeOK
  PROVE  /\ Len(senders) \in Nat /\ Senders = 1 .. Len(senders)
         /\ \A i \in Senders : senders[i] \in SenderRecords
<1>1. senders \in Seq(SenderRecords)
  BY DEF RecorderTypeOK
<1>2. Len(senders) \in Nat /\ DOMAIN senders = 1 .. Len(senders)
      /\ \A i \in 1 .. Len(senders) : senders[i] \in SenderRecords
  BY <1>1
<1> QED BY <1>2 DEF Senders

\* What one step of a sender leaves alone, and what it keeps.
LEMMA SendEffect ==
  ASSUME RecorderTypeOK, Attempts, NEW i \in Senders, Send(i)
  PROVE  /\ UNCHANGED <<now, eventID, sentEvents>>
         /\ RecorderTypeOK' /\ Attempts' /\ Senders' = Senders
         /\ \A j \in Senders :
              /\ senders'[j].recorder = senders[j].recorder /\ senders'[j].id = senders[j].id
              /\ senders'[j].label = senders[j].label /\ senders'[j].at = senders[j].at
<1>1. /\ Len(senders) \in Nat /\ Senders = 1 .. Len(senders) /\ senders[i] \in SenderRecords
      /\ \A j \in Senders : senders[j] \in SenderRecords
  BY SenderNumbers
<1>2. UNCHANGED <<now, eventID, sentEvents>> /\ failures' \in Nat
  <2>1. failures \in Nat
    BY DEF RecorderTypeOK
  <2>2. failures' = failures \/ failures' = failures + 1
    BY DEF Send, SendSucceeds, SendFails, NetworkError, Retry
  <2>3. UNCHANGED <<now, eventID, sentEvents>>
    BY DEF Send, SendSucceeds, SendFails, NetworkError, Retry
  <2> QED BY <2>1, <2>2, <2>3
<1> DEFINE t == senders[i]
<1>3. /\ t \in SenderRecords /\ t.attempt \in Nat /\ t.handled \in Nat /\ t.state \in SenderStates
      /\ t.handled <= t.attempt + 1 /\ (t.state = "sending" => t.handled <= t.attempt)
      /\ t.state = "waiting" => t.attempt + 1 < WebhookRetryMaxAttempts
  <2>1. t \in SenderRecords
    BY <1>1
  <2>2. t.attempt \in Nat /\ t.handled \in Nat /\ t.state \in SenderStates
    BY <2>1 DEF SenderRecords
  <2> QED BY <2>1, <2>2 DEF Attempts
<1>4. PICK s \in SenderRecords :
        /\ senders' = [senders EXCEPT ![i] = s]
        /\ s.recorder = t.recorder /\ s.id = t.id /\ s.label = t.label /\ s.at = t.at
        /\ s.handled <= s.attempt + 1
        /\ s.state = "sending" => s.handled <= s.attempt
        /\ s.state = "waiting" => s.attempt + 1 < WebhookRetryMaxAttempts
  <2> SUFFICES \E s \in SenderRecords :
        /\ senders' = [senders EXCEPT ![i] = s]
        /\ s.recorder = t.recorder /\ s.id = t.id /\ s.label = t.label /\ s.at = t.at
        /\ s.handled <= s.attempt + 1
        /\ s.state = "sending" => s.handled <= s.attempt
        /\ s.state = "waiting" => s.attempt + 1 < WebhookRetryMaxAttempts
    OBVIOUS
  <2>1. CASE \E handled \in BOOLEAN, x \in SenderStates \ {"sending"} :
               /\ SenderAt(i, "sending") /\ Answered(i, handled, x)
               /\ x = "waiting" => t.attempt + 1 < WebhookRetryMaxAttempts
    <3>1. PICK handled \in BOOLEAN, x \in SenderStates \ {"sending"} :
               /\ SenderAt(i, "sending") /\ Answered(i, handled, x)
               /\ x = "waiting" => t.attempt + 1 < WebhookRetryMaxAttempts
      BY <2>1
    <3> DEFINE n == t.handled + (IF handled THEN 1 ELSE 0)
               s == [t EXCEPT !.state = x, !.handled = n]
    <3>2. senders' = [senders EXCEPT ![i] = s]
      BY <3>1 DEF Answered
    <3>3. n \in Nat /\ n <= t.attempt + 1
      BY <1>3, <3>1 DEF SenderAt
    <3> HIDE DEF n, t
    <3>4. /\ s \in SenderRecords /\ s.recorder = t.recorder /\ s.id = t.id /\ s.label = t.label
          /\ s.at = t.at /\ s.state = x /\ s.handled = n /\ s.attempt = t.attempt
      BY <1>3, <3>1, <3>3 DEF SenderRecords
    <3> HIDE DEF s
    <3> QED BY <3>1, <3>2, <3>3, <3>4
  <2>2. CASE SendSucceeds(i)
    <3>1. SenderAt(i, "sending") /\ Answered(i, TRUE, "delivered")
      BY <2>2 DEF SendSucceeds
    <3>2. "delivered" \in SenderStates \ {"sending"} /\ TRUE \in BOOLEAN
      BY DEF SenderStates
    <3> QED BY <2>1, <3>1, <3>2
  <2>3. CASE SendFails(i)
    <3>1. /\ AfterFailure(i) \in SenderStates \ {"sending"}
          /\ AfterFailure(i) = "waiting" => t.attempt + 1 < WebhookRetryMaxAttempts
      BY DEF AfterFailure, SenderStates
    <3>2. SenderAt(i, "sending") /\ \E handled \in BOOLEAN : Answered(i, handled, AfterFailure(i))
      BY <2>3 DEF SendFails
    <3> QED BY <2>1, <3>1, <3>2
  <2>4. CASE NetworkError(i)
    <3>1. SenderAt(i, "sending") /\ \E handled \in BOOLEAN : Answered(i, handled, "unreachable")
      BY <2>4 DEF NetworkError
    <3>2. "unreachable" \in SenderStates \ {"sending"}
      BY DEF SenderStates
    <3> QED BY <2>1, <3>1, <3>2
  <2>5. CASE Retry(i)
    <3> DEFINE n == t.attempt + 1
               s == [t EXCEPT !.state = "sending", !.attempt = n]
    <3>1. senders' = [senders EXCEPT ![i] = s]
      BY <2>5 DEF Retry
    <3>2. n \in Nat /\ n < WebhookRetryMaxAttempts /\ t.handled <= n
      BY <1>3, <2>5 DEF Retry, SenderAt
    <3>3. "sending" \in SenderStates
      BY DEF SenderStates
    <3> HIDE DEF n, t
    <3>4. /\ s \in SenderRecords /\ s.recorder = t.recorder /\ s.id = t.id /\ s.label = t.label
          /\ s.at = t.at /\ s.state = "sending" /\ s.attempt = n /\ s.handled = t.handled
      <4>1. n \in 0 .. WebhookRetryMaxAttempts - 1
        BY <3>2 DEF WebhookRetryMaxAttempts
      <4> QED BY <1>3, <3>3, <4>1 DEF SenderRecords
    <3>5. t.handled <= n + 1
      BY <1>3, <3>2
    <3> HIDE DEF s
    <3> QED BY <3>1, <3>2, <3>4, <3>5
  <2> QED BY <2>2, <2>3, <2>4, <2>5 DEF Send
<1>5. senders' \in Seq(SenderRecords) /\ Len(senders') = Len(senders) /\ Senders' = Senders
  BY <1>1, <1>4 DEF RecorderTypeOK, Senders
<1>6. senders'[i] = s /\ \A j \in Senders : j # i => senders'[j] = senders[j]
  BY <1>1, <1>4 DEF RecorderTypeOK
<1>7. RecorderTypeOK'
  BY <1>2, <1>5 DEF RecorderTypeOK
<1>8. Attempts'
  BY <1>4, <1>5, <1>6 DEF Attempts
<1> QED BY <1>2, <1>4, <1>5, <1>6, <1>7, <1>8

\* An accepted event gets the next sender, and is remembered.
LEMMA AcceptEffect ==
  ASSUME RecorderTypeOK, Attempts, NEW r \in Recorders, NEW id \in Ids, NEW label \in Labels,
         NEW remembered \in SUBSET [label : Labels, at : Nat], Accept(r, id, label, remembered)
  PROVE  LET last == Len(senders) + 1
         IN /\ senders' \in Seq(SenderRecords) /\ Attempts'
            /\ Senders = 1 .. Len(senders) /\ Senders' = 1 .. last /\ last \in Nat \ {0}
            /\ \A j \in Senders : senders'[j] = senders[j]
            /\ senders'[last].recorder = r /\ senders'[last].id = id
            /\ senders'[last].label = label /\ senders'[last].at = now
            /\ sentEvents' \in [Recorders -> SUBSET [label : Labels, at : Nat]]
            /\ sentEvents'[r] = remembered \cup {[label |-> label, at |-> now]}
            /\ \A q \in Recorders : q # r => sentEvents'[q] = sentEvents[q]
<1> DEFINE last == Len(senders) + 1
           s == [recorder |-> r, id |-> id, label |-> label, at |-> now,
                 attempt |-> 0, handled |-> 0, state |-> "sending"]
           e == [label |-> label, at |-> now]
<1>1. now \in Nat /\ senders \in Seq(SenderRecords)
      /\ sentEvents \in [Recorders -> SUBSET [label : Labels, at : Nat]]
  BY DEF RecorderTypeOK
<1>2. s \in SenderRecords /\ e \in [label : Labels, at : Nat]
  BY <1>1 DEF SenderRecords, SenderStates, WebhookRetryMaxAttempts
<1>3. senders' = Append(senders, s) /\ sentEvents' = [sentEvents EXCEPT ![r] = remembered \cup {e}]
  BY DEF Accept
<1>4. Len(senders) \in Nat /\ Senders = 1 .. Len(senders)
  BY SenderNumbers
<1>5. s.recorder = r /\ s.id = id /\ s.label = label /\ s.at = now
      /\ s.handled = 0 /\ s.attempt = 0 /\ s.state = "sending"
  OBVIOUS
<1> HIDE DEF s, e
<1>6. /\ senders' \in Seq(SenderRecords) /\ Len(senders') = last
      /\ senders'[last] = s /\ \A j \in 1 .. Len(senders) : senders'[j] = senders[j]
  BY <1>1, <1>2, <1>3, <1>4
<1>7. Senders' = 1 .. last
  <2>1. DOMAIN senders' = 1 .. Len(senders')
    BY <1>6
  <2> QED BY <1>6, <2>1 DEF Senders
<1>8. /\ sentEvents' \in [Recorders -> SUBSET [label : Labels, at : Nat]]
      /\ sentEvents'[r] = remembered \cup {e}
      /\ \A q \in Recorders : q # r => sentEvents'[q] = sentEvents[q]
  BY <1>1, <1>2, <1>3
<1>9. Attempts'
  <2> SUFFICES ASSUME NEW j \in Senders'
               PROVE  /\ senders'[j].handled <= senders'[j].attempt + 1
                      /\ senders'[j].state = "sending" => senders'[j].handled <= senders'[j].attempt
                      /\ senders'[j].state = "waiting" =>
                           senders'[j].attempt + 1 < WebhookRetryMaxAttempts
    BY DEF Attempts
  <2>1. j \in Senders \/ j = last
    BY <1>4, <1>7
  <2>2. CASE j \in Senders
    BY <1>4, <1>6, <2>2 DEF Attempts
  <2>3. CASE j = last
    BY <1>5, <1>6, <2>3
  <2> QED BY <2>1, <2>2, <2>3
<1> QED BY <1>4, <1>5, <1>6, <1>7, <1>8, <1>9 DEF e

-----------------------------------------------------------------------------
(* The recorders on their own.                                             *)

\* At first nothing is remembered and nothing is sent.
LEMMA RecorderInitial == RecorderInit => RecorderInv
<1> SUFFICES ASSUME RecorderInit PROVE RecorderInv
  OBVIOUS
<1>1. Senders = {}
  BY DEF RecorderInit, Senders
<1>2. <<>> \in Seq(SenderRecords)
  OBVIOUS
<1>3. RecorderTypeOK
  BY <1>2 DEF RecorderInit, RecorderTypeOK
<1> QED BY <1>1, <1>3 DEF RecorderInit, RecorderInv, Attempts, Kept, Deduplicates

\* A new recorder changes nothing for the others.
LEMMA NewKeeps ==
  ASSUME RecorderInv, NEW r \in Recorders, NEW id \in Ids, NewWebhookEventRecorder(r, id)
  PROVE  RecorderInv'
<1>1. eventID' = [eventID EXCEPT ![r] = id] /\ UNCHANGED <<now, sentEvents, senders, failures>>
  BY DEF NewWebhookEventRecorder
<1>2. RecorderTypeOK'
  BY <1>1 DEF RecorderInv, RecorderTypeOK
<1> QED BY <1>1, <1>2 DEF RecorderInv, Attempts, Kept, Deduplicates, Senders

\* A step of a sender touches neither what is remembered nor when it was
\* accepted.
LEMMA SendKeeps ==
  ASSUME RecorderInv, NEW i \in Senders, Send(i)
  PROVE  RecorderInv'
<1>1. /\ UNCHANGED <<now, eventID, sentEvents>>
      /\ RecorderTypeOK' /\ Attempts' /\ Senders' = Senders
      /\ \A j \in Senders :
           /\ senders'[j].recorder = senders[j].recorder /\ senders'[j].id = senders[j].id
           /\ senders'[j].label = senders[j].label /\ senders'[j].at = senders[j].at
  BY SendEffect DEF RecorderInv
<1>2. Kept'
  BY <1>1 DEF RecorderInv, Kept
<1>3. Deduplicates'
  BY <1>1 DEF RecorderInv, Deduplicates, SameKey
<1> QED BY <1>1, <1>2, <1>3 DEF RecorderInv

\* An event that is accepted is not remembered: the time of any earlier one
\* with its key is over.
LEMMA EventfKeeps ==
  ASSUME RecorderInv, NEW r \in Recorders, NEW label \in Labels, AnnotatedEventf(r, label)
  PROVE  RecorderInv'
<1> DEFINE last == Len(senders) + 1
<1>1. /\ eventID[r] \in Ids /\ sentEvents[r] \in SUBSET [label : Labels, at : Nat]
      /\ now \in Nat /\ failures \in Nat /\ TTL \in Nat
      /\ \A i \in Senders : senders[i] \in SenderRecords
  <2>1. \A i \in Senders : senders[i] \in SenderRecords
    BY SenderNumbers DEF RecorderInv
  <2> QED BY <2>1, RecorderAssumption DEF AnnotatedEventf, RecorderInv, RecorderTypeOK
<1>2. Accept(r, eventID[r], label, sentEvents[r]) /\ UNCHANGED <<now, eventID, failures>>
  BY DEF AnnotatedEventf
<1>3. /\ senders' \in Seq(SenderRecords) /\ Attempts'
      /\ Senders = 1 .. Len(senders) /\ Senders' = 1 .. last /\ last \in Nat \ {0}
      /\ \A j \in Senders : senders'[j] = senders[j]
      /\ senders'[last].recorder = r /\ senders'[last].label = label /\ senders'[last].at = now
      /\ sentEvents' \in [Recorders -> SUBSET [label : Labels, at : Nat]]
      /\ sentEvents'[r] = sentEvents[r] \cup {[label |-> label, at |-> now]}
      /\ \A q \in Recorders : q # r => sentEvents'[q] = sentEvents[q]
  BY <1>1, <1>2, AcceptEffect DEF RecorderInv
<1>4. RecorderTypeOK'
  BY <1>2, <1>3 DEF RecorderInv, RecorderTypeOK
<1>5. \A q \in Recorders : sentEvents[q] \subseteq sentEvents'[q]
  BY <1>3
<1>6. \A i \in Senders' : i \in Senders \/ i = last
  BY <1>3
<1>7. ASSUME NEW i \in Senders, senders[i].recorder = r, senders[i].label = label
      PROVE  now - senders[i].at > TTL
  <2>1. [label |-> label, at |-> senders[i].at].label = label
    OBVIOUS
  <2>2. [label |-> label, at |-> senders[i].at] \notin sentEvents[r]
    BY <2>1 DEF AnnotatedEventf, Remembered
  <2> QED BY <1>7, <2>2 DEF RecorderInv, Kept
<1> HIDE DEF last
<1>8. Kept'
  <2> SUFFICES ASSUME NEW i \in Senders'
               PROVE  \/ now' - senders'[i].at > TTL
                      \/ [label |-> senders'[i].label, at |-> senders'[i].at]
                           \in sentEvents'[senders'[i].recorder]
    BY DEF Kept
  <2>1. CASE i \in Senders
    <3>1. senders[i].recorder \in Recorders
      BY <1>1, <2>1 DEF SenderRecords
    <3> QED BY <1>2, <1>3, <1>5, <2>1, <3>1 DEF RecorderInv, Kept
  <2>2. CASE i = last
    BY <1>3, <2>2
  <2> QED BY <1>6, <2>1, <2>2
<1>9. Deduplicates'
  <2> SUFFICES ASSUME NEW i \in Senders', NEW j \in Senders', i < j,
                      SameKey(senders'[i], senders'[j])
               PROVE  senders'[j].at - senders'[i].at > TTL
    BY DEF Deduplicates
  <2>1. i \in Senders
    BY <1>3 DEF last
  <2>2. CASE j \in Senders
    BY <1>3, <2>1, <2>2 DEF RecorderInv, Deduplicates
  <2>3. CASE j = last
    BY <1>3, <1>7, <2>1, <2>3 DEF SameKey
  <2> QED BY <1>6, <2>2, <2>3
<1> QED BY <1>3, <1>4, <1>8, <1>9 DEF RecorderInv

\* The cleanup forgets what is over, and only that.
LEMMA TickKeeps ==
  ASSUME RecorderInv, Tick
  PROVE  RecorderInv'
<1>1. /\ now \in Nat /\ now' = now + 1 /\ TTL \in Nat
      /\ sentEvents' = [r \in Recorders |-> {e \in sentEvents[r] : now' - e.at <= TTL}]
      /\ UNCHANGED <<eventID, senders, failures>>
  BY RecorderAssumption DEF Tick, RecorderInv, RecorderTypeOK
<1>2. \A i \in Senders : senders[i].recorder \in Recorders /\ senders[i].at \in Nat
  BY SenderNumbers DEF RecorderInv, SenderRecords
<1>3. RecorderTypeOK'
  <2>1. sentEvents' \in [Recorders -> SUBSET [label : Labels, at : Nat]]
    BY <1>1 DEF RecorderInv, RecorderTypeOK
  <2> QED BY <1>1, <2>1 DEF RecorderInv, RecorderTypeOK
<1>4. Kept'
  <2> SUFFICES ASSUME NEW i \in Senders
               PROVE  \/ now' - senders[i].at > TTL
                      \/ [label |-> senders[i].label, at |-> senders[i].at]
                           \in sentEvents'[senders[i].recorder]
    BY <1>1 DEF Kept, Senders
  <2> DEFINE e == [label |-> senders[i].label, at |-> senders[i].at]
  <2>1. e.at = senders[i].at
    OBVIOUS
  <2>2. CASE now - senders[i].at > TTL
    BY <1>1, <1>2, <2>2
  <2>3. CASE e \in sentEvents[senders[i].recorder]
    <3> HIDE DEF e
    <3>1. CASE now' - e.at <= TTL
      BY <1>1, <1>2, <2>3, <3>1 DEF e
    <3>2. CASE ~(now' - e.at <= TTL)
      BY <1>1, <1>2, <2>1, <3>2
    <3> QED BY <3>1, <3>2
  <2> QED BY <2>2, <2>3 DEF RecorderInv, Kept
<1>5. Attempts' /\ Deduplicates'
  BY <1>1 DEF RecorderInv, Attempts, Deduplicates, Senders
<1> QED BY <1>3, <1>4, <1>5 DEF RecorderInv

\* Every step of the recorders keeps the invariant.
LEMMA RecorderStep == RecorderInv /\ [RecorderNext]_recorderVars => RecorderInv'
<1> SUFFICES ASSUME RecorderInv, [RecorderNext]_recorderVars PROVE RecorderInv'
  OBVIOUS
<1>1. CASE UNCHANGED recorderVars
  BY <1>1 DEF recorderVars, RecorderInv, RecorderTypeOK, Attempts, Kept, Deduplicates,
              Senders
<1>2. CASE RecorderNext
  BY <1>2, NewKeeps, EventfKeeps, SendKeeps, TickKeeps DEF RecorderNext
<1> QED BY <1>1, <1>2

\* Recorders keep the invariant for ever.
LEMMA RecorderAlways == RecorderSpec => []RecorderInv
BY RecorderInitial, RecorderStep, PTL DEF RecorderSpec

\* AnnotatedEventf and cleanupOldEvents: a recorder never accepts an event
\* again within eventTTL.
THEOREM NoDuplicates == RecorderSpec => []Deduplicates
<1>1. RecorderInv => Deduplicates
  BY DEF RecorderInv
<1> QED BY <1>1, RecorderAlways, PTL

\* sendEvent: no event is handled more often than it has attempts.
THEOREM FewReceipts == RecorderSpec => []ReceiptsBounded
<1>1. RecorderInv => ReceiptsBounded
  <2> SUFFICES ASSUME RecorderInv, NEW i \in Senders
               PROVE  senders[i].handled <= WebhookRetryMaxAttempts
    BY DEF ReceiptsBounded
  <2>1. senders[i] \in SenderRecords
    BY SenderNumbers DEF RecorderInv
  <2>2. senders[i].attempt \in 0 .. WebhookRetryMaxAttempts - 1 /\ senders[i].handled \in Nat
    BY <2>1 DEF SenderRecords
  <2> QED BY <2>2 DEF RecorderInv, Attempts, WebhookRetryMaxAttempts
<1> QED BY <1>1, RecorderAlways, PTL

-----------------------------------------------------------------------------
(* The reports of Reconcile.                                               *)

\* Senders only join, and keep the event they were given.
SendersStay ==
  /\ RecorderTypeOK' /\ Attempts'
  /\ \A i \in Senders : /\ i \in Senders' /\ senders'[i].id = senders[i].id
                        /\ senders'[i].label = senders[i].label

\* Then a success that was recorded stays recorded.
LEMMA SuccessStays ==
  ASSUME SendersStay, NEW id, SuccessRecorded(id)
  PROVE  id # 0 => \E i \in Senders' : senders'[i].id = id /\ senders'[i].label = "success"
BY DEF SendersStay, SuccessRecorded, IsSuccess

\* With nothing recorded, or by a step of a sender.
LEMMA NothingRecorded ==
  ASSUME RecorderTypeOK, Attempts, UNCHANGED recorderVars
  PROVE  SendersStay
BY DEF recorderVars, RecorderTypeOK, Attempts, Senders, SendersStay

\* recordEvent: a new sender has the event, unless the copy's change counts as
\* processed.
LEMMA RecordEffect ==
  ASSUME ReportsInv, copy.id \in Ids,
         NEW label \in {"applied", "unfinished", "success"}, recordEvent(label)
  PROVE  /\ SendersStay
         /\ copy.last # copy.id =>
              \E i \in Senders' : senders'[i].id = copy.id /\ senders'[i].label = label
<1>1. RecorderTypeOK /\ Attempts /\ label \in Labels
  BY ReportsAssumption DEF ReportsInv, ReportsTypeOK
<1>2. CASE copy.last = copy.id
  BY <1>1, <1>2, NothingRecorded DEF recordEvent
<1>3. CASE copy.last # copy.id
  <2> DEFINE r == CHOOSE r \in Recorders : eventID[r] = None
  <2>1. /\ \E s \in Recorders : eventID[s] = None
        /\ Accept(r, copy.id, label, {}) /\ eventID' = [eventID EXCEPT ![r] = copy.id]
        /\ now' = now /\ failures' = failures
    BY <1>3 DEF recordEvent
  <2>2. r \in Recorders
    BY <2>1
  <2>3. {} \in SUBSET [label : Labels, at : Nat]
    OBVIOUS
  <2> HIDE DEF r
  <2> DEFINE last == Len(senders) + 1
  <2>4. /\ senders' \in Seq(SenderRecords) /\ Attempts'
        /\ Senders = 1 .. Len(senders) /\ Senders' = 1 .. last /\ last \in Nat \ {0}
        /\ \A j \in Senders : senders'[j] = senders[j]
        /\ senders'[last].id = copy.id /\ senders'[last].label = label
        /\ sentEvents' \in [Recorders -> SUBSET [label : Labels, at : Nat]]
    BY <1>1, <2>1, <2>2, <2>3, AcceptEffect
  <2>5. RecorderTypeOK'
    BY <1>1, <2>1, <2>2, <2>4 DEF RecorderTypeOK
  <2>6. SendersStay
    BY <2>4, <2>5 DEF SendersStay
  <2>7. last \in Senders'
    BY <2>4
  <2> QED BY <2>4, <2>6, <2>7
<1> QED BY <1>2, <1>3

\* A step keeps the invariant when senders stay and every id that is saved,
\* cached or in the copy afterwards had its success recorded before, or has it
\* recorded in the step.
LEMMA ReportsKeep ==
  ASSUME ReportsInv, SendersStay,
         change' \in Ids, lastSaved' \in Ids \cup {0},
         cached' \in [id : Ids, last : Ids \cup {0}],
         copy' \in [id : Ids \cup {0}, last : Ids \cup {0}, orig : Ids \cup {0}],
         step' \in {"idle", "applying", "concluding", "saving"},
         step' = "idle" <=> copy' = NoVersion, step' # "idle" => copy'.id \in Ids,
         conflicts' \in Nat, restarts' \in Nat,
         \A id \in {lastSaved', cached'.last, copy'.last} :
           \/ SuccessRecorded(id)
           \/ \E i \in Senders' : senders'[i].id = id /\ senders'[i].label = "success"
  PROVE  ReportsInv'
<1>1. \A id \in {lastSaved', cached'.last, copy'.last} :
        id # 0 => \E i \in Senders' : senders'[i].id = id /\ senders'[i].label = "success"
  BY SuccessStays
<1>2. /\ SuccessRecorded(lastSaved)' /\ SuccessRecorded(cached.last)'
      /\ SuccessRecorded(copy.last)'
  BY <1>1 DEF SuccessRecorded, IsSuccess
<1> QED BY <1>2 DEF ReportsInv, ReportsTypeOK, SendersStay

\* Reconcile holds a copy of a version exactly while it is not idle.
LEMMA CopyFacts ==
  ASSUME ReportsInv
  PROVE  /\ NoVersion \in [id : {0}, last : {0}, orig : {0}] /\ 0 \notin Ids
         /\ cached.id \in Ids /\ cached.last \in Ids \cup {0}
         /\ copy.id \in Ids \cup {0} /\ copy.last \in Ids \cup {0}
         /\ SuccessRecorded(0)
         /\ SuccessRecorded(lastSaved) /\ SuccessRecorded(cached.last) /\ SuccessRecorded(copy.last)
BY RecorderAssumption DEF ReportsInv, ReportsTypeOK, NoVersion, SuccessRecorded, None

\* A new application has reported nothing.
LEMMA ReportsInitial == ReportsInit => ReportsInv
<1> SUFFICES ASSUME ReportsInit PROVE ReportsInv
  OBVIOUS
<1>1. RecorderTypeOK /\ Attempts
  BY RecorderInitial DEF ReportsInit, RecorderInv
<1>2. ReportsTypeOK
  BY <1>1 DEF ReportsInit, ReportsTypeOK, NoVersion
<1> QED BY <1>1, <1>2 DEF ReportsInit, ReportsInv, SuccessRecorded, NoVersion

\* The recorders rest: the user, the cache, and the writes of the status.
LEMMA QuietKeeps ==
  ASSUME ReportsInv,
         StampChange \/ CatchUp \/ StartCycle \/ SaveStatus \/ SaveUnneeded \/ SaveFails
  PROVE  ReportsInv'
<1> USE CopyFacts
<1>1. /\ SendersStay
      /\ change \in Ids /\ lastSaved \in Ids \cup {0} /\ conflicts \in Nat /\ restarts \in Nat
      /\ cached \in [id : Ids, last : Ids \cup {0}]
      /\ copy \in [id : Ids \cup {0}, last : Ids \cup {0}, orig : Ids \cup {0}]
      /\ step \in {"idle", "applying", "concluding", "saving"}
      /\ step = "idle" <=> copy = NoVersion
      /\ step # "idle" => copy.id \in Ids
  <2>1. UNCHANGED recorderVars
    BY DEF StampChange, CatchUp, StartCycle, SaveStatus, SaveUnneeded, SaveFails
  <2> QED BY <2>1, NothingRecorded DEF ReportsInv, ReportsTypeOK
<1>2. CASE StampChange
  BY <1>1, <1>2, ReportsKeep DEF StampChange
<1>3. CASE CatchUp
  <2>1. /\ cached' = [id |-> change, last |-> lastSaved]
        /\ UNCHANGED <<change, lastSaved, step, copy, conflicts, restarts>>
    BY <1>3 DEF CatchUp
  <2> QED BY <1>1, <2>1, ReportsKeep
<1>4. CASE StartCycle
  <2>1. /\ copy' = [id |-> cached.id, last |-> cached.last, orig |-> cached.last]
        /\ step' = "applying" /\ UNCHANGED <<change, lastSaved, cached, conflicts, restarts>>
    BY <1>4 DEF StartCycle
  <2>2. copy' # NoVersion
    BY <2>1
  <2> QED BY <1>1, <2>1, <2>2, ReportsKeep
<1>5. CASE SaveStatus
  <2>1. /\ lastSaved' = copy.last /\ step' = "idle" /\ copy' = NoVersion
        /\ UNCHANGED <<change, cached, conflicts, restarts>>
    BY <1>5 DEF SaveStatus
  <2> QED BY <1>1, <2>1, ReportsKeep DEF NoVersion
<1>6. CASE SaveUnneeded
  <2>1. step' = "idle" /\ copy' = NoVersion
        /\ UNCHANGED <<change, lastSaved, cached, conflicts, restarts>>
    BY <1>6 DEF SaveUnneeded
  <2> QED BY <1>1, <2>1, ReportsKeep DEF NoVersion
<1>7. CASE SaveFails
  <2>1. step' = "idle" /\ copy' = NoVersion /\ conflicts' = conflicts + 1
        /\ UNCHANGED <<change, lastSaved, cached, restarts>>
    BY <1>7 DEF SaveFails
  <2> QED BY <1>1, <2>1, ReportsKeep DEF NoVersion
<1> QED BY <1>2, <1>3, <1>4, <1>5, <1>6, <1>7

\* A cycle records its events, the success before the change counts as
\* processed.
LEMMA CycleKeeps ==
  ASSUME ReportsInv, ApplyResources \/ ConcludeUnfinished \/ ConcludeReady
  PROVE  ReportsInv'
<1> USE CopyFacts
<1>1. /\ RecorderTypeOK /\ Attempts
      /\ change \in Ids /\ lastSaved \in Ids \cup {0} /\ conflicts \in Nat /\ restarts \in Nat
      /\ cached \in [id : Ids, last : Ids \cup {0}]
      /\ copy \in [id : Ids \cup {0}, last : Ids \cup {0}, orig : Ids \cup {0}]
      /\ copy # NoVersion /\ copy.id \in Ids
  BY DEF ReportsInv, ReportsTypeOK, ApplyResources, ConcludeUnfinished, ConcludeReady
<1>2. CASE ApplyResources
  <2>1. step' = "concluding" /\ UNCHANGED <<change, lastSaved, cached, copy, conflicts, restarts>>
    BY <1>2 DEF ApplyResources
  <2>2. SendersStay
    BY <1>1, <1>2, RecordEffect, NothingRecorded DEF ApplyResources
  <2> QED BY <1>1, <2>1, <2>2, ReportsKeep
<1>3. CASE ConcludeUnfinished
  <2>1. step' = "saving" /\ UNCHANGED <<change, lastSaved, cached, copy, conflicts, restarts>>
    BY <1>3 DEF ConcludeUnfinished
  <2>2. SendersStay
    BY <1>1, <1>3, RecordEffect DEF ConcludeUnfinished
  <2> QED BY <1>1, <2>1, <2>2, ReportsKeep
<1>4. CASE ConcludeReady
  <2>1. step' = "saving" /\ UNCHANGED <<change, lastSaved, cached, conflicts, restarts>>
    BY <1>4 DEF ConcludeReady
  <2>2. copy' = [copy EXCEPT !.last = copy.id]
    BY <1>4 DEF ConcludeReady
  <2>3. /\ copy' \in [id : Ids \cup {0}, last : Ids \cup {0}, orig : Ids \cup {0}]
        /\ copy'.id = copy.id /\ copy'.last = copy.id
    BY <1>1, <2>2
  <2>4. copy' # NoVersion
    BY <1>1, <2>3
  <2>5. /\ SendersStay
        /\ copy.last # copy.id =>
             \E i \in Senders' : senders'[i].id = copy.id /\ senders'[i].label = "success"
    BY <1>1, <1>4, RecordEffect DEF ConcludeReady
  <2>6. \/ SuccessRecorded(copy.id)
        \/ \E i \in Senders' : senders'[i].id = copy.id /\ senders'[i].label = "success"
    BY <2>5
  <2> QED BY <1>1, <2>1, <2>3, <2>4, <2>5, <2>6, ReportsKeep
<1> QED BY <1>2, <1>3, <1>4

\* A restart drops the senders under way; that they were handed their events
\* stays.
LEMMA RestartKeeps ==
  ASSUME ReportsInv, Restart
  PROVE  ReportsInv'
<1> USE CopyFacts
<1>1. /\ RecorderTypeOK /\ Attempts
      /\ Len(senders) \in Nat /\ Senders = 1 .. Len(senders)
      /\ \A i \in Senders : senders[i] \in SenderRecords
  BY SenderNumbers DEF ReportsInv, ReportsTypeOK
<1>2. /\ step' = "idle" /\ copy' = NoVersion /\ restarts' = restarts + 1
      /\ eventID' = [r \in Recorders |-> None] /\ sentEvents' = [r \in Recorders |-> {}]
      /\ senders' = [i \in Senders |-> IF senders[i].state = "delivered" THEN senders[i]
                                       ELSE [senders[i] EXCEPT !.state = "dropped"]]
      /\ UNCHANGED <<now, failures, change, lastSaved, cached, conflicts>>
  BY DEF Restart
<1>3. ASSUME NEW i \in Senders
      PROVE  /\ senders'[i] \in SenderRecords
             /\ senders'[i].id = senders[i].id /\ senders'[i].label = senders[i].label
             /\ senders'[i].handled <= senders'[i].attempt + 1
             /\ senders'[i].state \notin {"sending", "waiting"}
  <2> DEFINE t == senders[i]
  <2>1. t \in SenderRecords /\ t.handled <= t.attempt + 1
    BY <1>1 DEF Attempts
  <2>2. CASE t.state = "delivered"
    BY <1>2, <2>1, <2>2
  <2>3. CASE t.state # "delivered"
    <3>1. senders'[i] = [t EXCEPT !.state = "dropped"]
      BY <1>2, <2>3
    <3> HIDE DEF t
    <3>2. senders'[i] \in SenderRecords /\ senders'[i].state = "dropped"
      BY <2>1, <3>1 DEF SenderRecords, SenderStates
    <3>3. /\ senders'[i].id = t.id /\ senders'[i].label = t.label
          /\ senders'[i].handled = t.handled /\ senders'[i].attempt = t.attempt
      BY <2>1, <3>1 DEF SenderRecords
    <3> QED BY <2>1, <3>2, <3>3 DEF t
  <2> QED BY <2>2, <2>3
<1>4. senders' \in Seq(SenderRecords) /\ Senders' = Senders
  <2>1. DOMAIN senders' = 1 .. Len(senders)
    BY <1>1, <1>2
  <2>2. senders' \in [1 .. Len(senders) -> SenderRecords]
    BY <1>1, <1>2, <1>3
  <2>3. senders' \in Seq(SenderRecords)
    BY <1>1, <2>2
  <2> QED BY <1>1, <2>1, <2>3 DEF Senders
<1>5. SendersStay
  <2>1. RecorderTypeOK'
    BY <1>1, <1>2, <1>4 DEF RecorderTypeOK
  <2>2. Attempts'
    BY <1>3, <1>4 DEF Attempts
  <2> QED BY <1>3, <1>4, <2>1, <2>2 DEF SendersStay
<1>6. restarts' \in Nat
  BY <1>2 DEF ReportsInv, ReportsTypeOK
<1> QED BY <1>2, <1>5, <1>6, ReportsKeep DEF NoVersion, ReportsInv, ReportsTypeOK

\* Every step keeps the invariant.
LEMMA ReportsStep == ReportsInv /\ [ReportsNext]_reportVars => ReportsInv'
<1> SUFFICES ASSUME ReportsInv, [ReportsNext]_reportVars PROVE ReportsInv'
  OBVIOUS
<1>1. CASE UNCHANGED reportVars
  <2>1. UNCHANGED recorderVars /\ UNCHANGED appVars
    BY <1>1 DEF reportVars
  <2>2. SendersStay
    BY <2>1, NothingRecorded DEF ReportsInv, ReportsTypeOK
  <2> QED BY <2>1, <2>2, ReportsKeep DEF appVars, ReportsInv, ReportsTypeOK
<1>2. CASE (\E i \in Senders : Send(i)) /\ UNCHANGED appVars
  <2>1. PICK i \in Senders : Send(i)
    BY <1>2
  <2>2. SendersStay
    BY <2>1, SendEffect DEF SendersStay, ReportsInv, ReportsTypeOK
  <2> QED BY <1>2, <2>2, ReportsKeep DEF appVars, ReportsInv, ReportsTypeOK
<1>3. CASE ReportsNext /\ ~((\E i \in Senders : Send(i)) /\ UNCHANGED appVars)
  BY <1>3, QuietKeeps, CycleKeeps, RestartKeeps DEF ReportsNext
<1> QED BY <1>1, <1>2, <1>3

\* The invariant holds for ever.
LEMMA ReportsAlways == ReportsSpec => []ReportsInv
BY ReportsInitial, ReportsStep, PTL DEF ReportsSpec

\* Types, with the attempts of every sender within their bound.
THEOREM ReportsTypeCorrect == ReportsSpec => []ReportsTypeOK
<1>1. ReportsInv => ReportsTypeOK
  BY DEF ReportsInv
<1> QED BY <1>1, ReportsAlways, PTL

\* Reconcile: a change that is saved in status.lastChangeID, and so reported
\* no more, had its success event handed to a sender.
THEOREM ProcessedCorrect == ReportsSpec => []ProcessedWasReported
<1>1. ReportsInv => ProcessedWasReported
  BY DEF ReportsInv, SuccessRecorded, ProcessedWasReported
<1> QED BY <1>1, ReportsAlways, PTL
=============================================================================
