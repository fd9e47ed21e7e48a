---------------------------- MODULE EventForwarding ----------------------------
(***************************************************************************)
(* Store-and-forward of events from ONE agent to the server.               *)
(*                                                                         *)
(* Agent: collector.Buffer (bounded, in memory, sequence numbers from 1)   *)
(* and flushEvents of agent/cmd/agent/main.go.  Server: the ReportEvents   *)
(* stream handler of agent_handler.go with Store.SaveEvents, ProcessEvent  *)
(* for every event and AutoQuarantine.  A handler whose caller has given   *)
(* up keeps running, so several may be active at once.                     *)
(***************************************************************************)
EXTENDS Naturals, Sequences, FiniteSets

CONSTANTS
    MaxEvents,  \* bound: events produced in a behaviour
    Cap,        \* capacity of the buffer
    Limit,      \* argument of Pending
    Critical,   \* events of severity CRITICAL
    Handlers,   \* ReportEvents calls that may run at the same time
    NoHandler   \* the agent waits for no call

ASSUME BoundsAssumption == MaxEvents \in Nat /\ Cap \in Nat \ {0} /\ Limit \in Nat \ {0}
ASSUME HandlersAssumption == NoHandler \notin Handlers

VARIABLES
    produced,   \* events produced so far; event e is the e-th of them
    buf,        \* Buffer.events: sequence of [seq, ev]
    nextSeq,    \* Buffer.nextSeq
    dropped,    \* Buffer.dropped
    waitsFor,   \* the call flushEvents is blocked in
    phase,      \* next step of each handler; "free" when it does not run
    batch,      \* the EventBatch of each handler
    looked,     \* how many events of the batch ProcessEvent has seen
    stored,     \* events in event_logs
    processed,  \* events that went through ProcessEvent
    responded,  \* events named as the reason of an automatic quarantine
    overflowed, \* history: events Add dropped since the agent started
    crashLost,  \* history: events not stored when the agent process died
    trimmed     \* history: events that buf.Ack removed

senderVars  == <<produced, buf, nextSeq, dropped, waitsFor,
                overflowed, crashLost, trimmed>>
ingestVars == <<phase, batch, looked, stored, processed, responded>>
eventVars       == <<senderVars, ingestVars>>

Events == 1 .. MaxEvents
Entries == [seq : 1 .. MaxEvents, ev : Events]
EventsOf(s) == {s[i].ev : i \in DOMAIN s}

EventTypeOK ==
    /\ produced \in 0 .. MaxEvents
    /\ buf \in Seq(Entries) /\ Len(buf) <= Cap
    /\ nextSeq \in 0 .. MaxEvents
    /\ dropped \in 0 .. MaxEvents
    /\ waitsFor \in Handlers \cup {NoHandler}
    /\ phase \in [Handlers -> {"free", "save", "process", "respond", "reply"}]
    /\ batch \in [Handlers -> Seq(Entries)] /\ looked \in [Handlers -> Nat]
    /\ \A h \in Handlers : looked[h] <= Len(batch[h])
    /\ stored \subseteq Events /\ processed \subseteq Events /\ responded \subseteq Events
    /\ overflowed \subseteq Events /\ crashLost \subseteq Events /\ trimmed \subseteq Events

EventInit ==
    /\ produced = 0 /\ buf = <<>> /\ nextSeq = 0 /\ dropped = 0
    /\ waitsFor = NoHandler /\ overflowed = {} /\ crashLost = {} /\ trimmed = {}
    /\ phase = [h \in Handlers |-> "free"]
    /\ batch = [h \in Handlers |-> <<>>]
    /\ looked = [h \in Handlers |-> 0]
    /\ stored = {} /\ processed = {} /\ responded = {}

-----------------------------------------------------------------------------
(* Agent *)

\* Buffer.Add: number the event, append it, drop the oldest above the capacity.
Add ==
    /\ produced < MaxEvents
    /\ produced' = produced + 1
    /\ nextSeq' = nextSeq + 1
    /\ LET all  == Append(buf, [seq |-> nextSeq + 1, ev |-> produced + 1])
           over == IF Len(all) > Cap THEN Len(all) - Cap ELSE 0
       IN  /\ buf' = SubSeq(all, over + 1, Len(all))
           /\ dropped' = dropped + over
           /\ overflowed' = overflowed \cup EventsOf(SubSeq(all, 1, over))
    /\ UNCHANGED <<waitsFor, crashLost, trimmed, ingestVars>>

Pending(max) == SubSeq(buf, 1, IF max < Len(buf) THEN max ELSE Len(buf))

\* flushEvents sends one batch and half-closes the stream.
FlushEvents(h) ==
    /\ waitsFor = NoHandler /\ buf # <<>> /\ phase[h] = "free"
    /\ waitsFor' = h
    /\ phase' = [phase EXCEPT ![h] = "save"]
    /\ batch' = [batch EXCEPT ![h] = Pending(Limit)]
    /\ looked' = [looked EXCEPT ![h] = 0]
    /\ UNCHANGED <<produced, buf, nextSeq, dropped, overflowed, crashLost, trimmed, stored, processed, responded>>

\* LastAcceptedSequence: the largest sequence number of the saved batch.
LastAccepted(h) == batch[h][Len(batch[h])].seq

\* Mutants: trim as many entries as were sent; stop before the accepted entry.
AckByCount(h, n) == n = IF Len(batch[h]) < Len(buf) THEN Len(batch[h]) ELSE Len(buf)
AckOffByOne(h, n) ==
    /\ \A i \in 1 .. n : buf[i].seq < LastAccepted(h)
    /\ n < Len(buf) => buf[n + 1].seq >= LastAccepted(h)

\* Buffer.Ack(uptoSeq): n entries at the head have an accepted seq.
Ack(h, n) ==
    /\ \A i \in 1 .. n : buf[i].seq <= LastAccepted(h)
    /\ n < Len(buf) => buf[n + 1].seq > LastAccepted(h)

\* CloseAndRecv returns the EventAck and the accepted prefix is trimmed.
ReceiveAck(h) ==
    /\ waitsFor = h /\ phase[h] = "reply"
    /\ \E n \in 0 .. Len(buf) :
          /\ Ack(h, n)
          /\ buf' = SubSeq(buf, n + 1, Len(buf))
          /\ trimmed' = trimmed \cup EventsOf(SubSeq(buf, 1, n))
    /\ waitsFor' = NoHandler
    /\ phase' = [phase EXCEPT ![h] = "free"]
    /\ batch' = [batch EXCEPT ![h] = <<>>] /\ looked' = [looked EXCEPT ![h] = 0]
    /\ UNCHANGED <<produced, nextSeq, dropped, overflowed, crashLost, stored, processed, responded>>

\* Deadline, lost connection or a status error: the buffer is left alone and the
\* handler, if it still runs, does not notice before its next stream operation.
FlushFails ==
    /\ waitsFor # NoHandler
    /\ waitsFor' = NoHandler
    /\ UNCHANGED <<produced, buf, nextSeq, dropped, overflowed, crashLost, trimmed, ingestVars>>

\* The agent process dies and is restarted: NewBuffer is empty and counts from 0.
SenderRestarts ==
    /\ crashLost' = crashLost \cup ((1 .. produced) \ stored)
    /\ buf' = <<>> /\ nextSeq' = 0 /\ dropped' = 0 /\ overflowed' = {}
    /\ waitsFor' = NoHandler
    /\ UNCHANGED <<produced, trimmed, ingestVars>>

-----------------------------------------------------------------------------
(* Server: ReportEvents *)

HandlerEnds(h) ==
    /\ phase' = [phase EXCEPT ![h] = "free"]
    /\ batch' = [batch EXCEPT ![h] = <<>>]
    /\ looked' = [looked EXCEPT ![h] = 0]

\* Mutant: detection is skipped.
SaveEventsUndetected(h) ==
    /\ phase[h] = "save"
    /\ stored' = stored \cup EventsOf(batch[h])
    /\ phase' = [phase EXCEPT ![h] = "respond"]
    /\ UNCHANGED <<senderVars, batch, looked, processed, responded>>

\* SaveEvents commits the whole batch.
SaveEvents(h) ==
    /\ phase[h] = "save"
    /\ stored' = stored \cup EventsOf(batch[h])
    /\ phase' = [phase EXCEPT ![h] = "process"]
    /\ UNCHANGED <<senderVars, batch, looked, processed, responded>>

\* SaveEvents returns an error, with the transaction rolled back or, when only the
\* answer to COMMIT was lost, committed; the handler returns codes.Internal.
SaveEventsFails(h, committed) ==
    /\ phase[h] = "save"
    /\ stored' = IF committed THEN stored \cup EventsOf(batch[h]) ELSE stored
    /\ HandlerEnds(h)
    /\ waitsFor' = IF waitsFor = h THEN NoHandler ELSE waitsFor
    /\ UNCHANGED <<produced, buf, nextSeq, dropped, overflowed, crashLost, trimmed, processed, responded>>

\* One iteration of the loop over domainEvents.
ProcessEvent(h) ==
    /\ phase[h] = "process" /\ looked[h] < Len(batch[h])
    /\ processed' = processed \cup {batch[h][looked[h] + 1].ev}
    /\ looked' = [looked EXCEPT ![h] = @ + 1]
    /\ phase' = IF looked'[h] = Len(batch[h]) THEN [phase EXCEPT ![h] = "respond"] ELSE phase
    /\ UNCHANGED <<senderVars, batch, stored, responded>>

\* ShouldTrigger names the first critical event; AutoQuarantine may refuse.  Then
\* the stream is at EOF and the ack is sent, into the void if nobody waits.
AutoQuarantine(h, ok) ==
    /\ phase[h] = "respond"
    /\ LET hits == {i \in DOMAIN batch[h] : batch[h][i].ev \in Critical}
           first == {i \in hits : \A j \in hits : i <= j}
       IN  responded' = IF ok THEN responded \cup {batch[h][i].ev : i \in first} ELSE responded
    /\ IF waitsFor = h
         THEN phase' = [phase EXCEPT ![h] = "reply"] /\ UNCHANGED <<batch, looked>>
         ELSE HandlerEnds(h)
    /\ UNCHANGED <<senderVars, stored, processed>>

\* SendAndClose to a caller that left while the ack was on its way.
ReplyLost(h) ==
    /\ phase[h] = "reply" /\ waitsFor # h
    /\ HandlerEnds(h)
    /\ UNCHANGED <<senderVars, stored, processed, responded>>

\* The server process dies: every call ends, the tables stay.
ServerRestarts ==
    /\ phase' = [h \in Handlers |-> "free"]
    /\ batch' = [h \in Handlers |-> <<>>]
    /\ looked' = [h \in Handlers |-> 0]
    /\ waitsFor' = NoHandler
    /\ UNCHANGED <<produced, buf, nextSeq, dropped, overflowed, crashLost, trimmed, stored, processed, responded>>

HandlerStep(h) ==
    \/ SaveEvents(h) \/ ProcessEvent(h) \/ ReplyLost(h)
    \/ \E ok \in BOOLEAN : SaveEventsFails(h, ok) \/ AutoQuarantine(h, ok)

EventNext ==
    \/ Add \/ FlushFails \/ SenderRestarts \/ ServerRestarts
    \/ \E h \in Handlers : FlushEvents(h) \/ ReceiveAck(h) \/ HandlerStep(h)

EventSpec == EventInit /\ [][EventNext]_eventVars

\* The beat ticker keeps flushing, a running handler keeps running and an answer
\* that was sent arrives unless the call fails.
EventFairness ==
    /\ WF_eventVars(\E h \in Handlers : FlushEvents(h))
    /\ \A h \in Handlers : WF_eventVars(HandlerStep(h)) /\ WF_eventVars(ReceiveAck(h))

-----------------------------------------------------------------------------
(* Properties *)

\* collector package comment: an event leaves the buffer only when the server has
\* it or when it is counted as dropped, whatever overflows, retries and stale
\* handlers are under way.  Only the death of the agent process loses more.
NoSilentLoss ==
    /\ (1 .. produced) \ (stored \cup EventsOf(buf) \cup crashLost) \subseteq overflowed
    /\ dropped = Cardinality(overflowed)

\* What flushEvents deletes on the server's word is in event_logs AND has been through detection (a
\* crash between commit and ProcessEvent is made up for by the redelivery), and detection and automatic
\* quarantine act only on events event_logs has.
ActedOnStored ==
    /\ trimmed \subseteq stored \cap processed
    /\ processed \cup responded \subseteq stored /\ responded \subseteq Critical

\* What the store-and-forward buffer has to survive.  (An ack that trims nothing
\* leaves the same state as a restart of an otherwise idle server; it is an ack.)
Outage ==
    \/ FlushFails \/ SenderRestarts
    \/ ServerRestarts /\ \A h \in Handlers : ~ReceiveAck(h)
    \/ \E h \in Handlers, committed \in BOOLEAN : SaveEventsFails(h, committed)

\* collector package comment: when the connection is back (no outage from some
\* point on) everything in the buffer is sent, stale handlers notwithstanding.
BufferDrains ==
    <>[][~Outage]_eventVars => \A e \in Events : e \in EventsOf(buf) ~> e \notin EventsOf(buf)
=============================================================================
