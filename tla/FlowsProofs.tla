------------------------------- MODULE FlowsProofs -------------------------------
(***************************************************************************)
(* The three streams, for any number of events, policies and observers.    *)
(* Store-and-forward: no event is lost in silence, what the agent deletes  *)
(* was stored and went through detection, and a response names stored      *)
(* critical events only.  Policy distribution: an agent that holds the     *)
(* label of a rule's bump holds the rule, and no wake-up is lost.  The     *)
(* export tap: the lock-free depth is exact, a reservation is always       *)
(* honoured, Stop leaves nothing behind and telemetry leaves the slots     *)
(* above the watermark to the findings.                                    *)
(***************************************************************************)
EXTENDS Flows, FiniteSetTheorems, FunctionTheorems, SequenceTheorems, TLAPS

-----------------------------------------------------------------------------
(* Events: EventForwarding *)

\* The buffer holds the youngest events, numbered without a gap.
BufInv ==
    /\ Len(buf) <= nextSeq /\ nextSeq <= produced
    /\ \A i \in DOMAIN buf : /\ buf[i].seq = nextSeq - Len(buf) + i
                             /\ buf[i].ev = produced - Len(buf) + i

\* A call the agent waits for is under way with a batch, and what its ack will
\* cover is in that batch.
WaitInv == waitsFor # NoHandler =>
    /\ phase[waitsFor] # "free" /\ batch[waitsFor] # <<>> /\ LastAccepted(waitsFor) <= nextSeq
    /\ \A i \in DOMAIN buf : buf[i].seq <= LastAccepted(waitsFor) => buf[i].ev \in EventsOf(batch[waitsFor])

\* How far a handler has come with its batch.
HandlerInv == \A h \in Handlers :
    /\ phase[h] # "free" => batch[h] # <<>>
    /\ phase[h] = "save" => looked[h] = 0
    /\ EventsOf(batch[h]) \subseteq 1 .. produced
    /\ phase[h] \in {"process", "respond", "reply"} => EventsOf(batch[h]) \subseteq stored
    /\ phase[h] = "process" => looked[h] < Len(batch[h]) /\ \A i \in 1 .. looked[h] : batch[h][i].ev \in processed
    /\ phase[h] \in {"respond", "reply"} => EventsOf(batch[h]) \subseteq processed

\* Overflow took the oldest, each counted once; every other event is somewhere.
LossInv ==
    /\ overflowed \subseteq 1 .. (produced - Len(buf))
    /\ dropped = Cardinality(overflowed)
    /\ (1 .. produced) \ (stored \cup EventsOf(buf) \cup crashLost) \subseteq overflowed

EventInv == EventTypeOK /\ BufInv /\ WaitInv /\ HandlerInv /\ LossInv /\ ActedOnStored

-----------------------------------------------------------------------------
\* A part of the buffer keeps its entries.
LEMMA PartOfBuffer ==
    ASSUME NEW s \in Seq(Entries), NEW m \in 1 .. Len(s) + 1, NEW n \in 0 .. Len(s)
    PROVE  /\ SubSeq(s, m, n) \in Seq(Entries)
           /\ Len(SubSeq(s, m, n)) = IF m <= n THEN n - m + 1 ELSE 0
           /\ \A i \in 1 .. n - m + 1 : SubSeq(s, m, n)[i] = s[m + i - 1]
  <1>1. \A i \in m .. n : s[i] \in Entries
    OBVIOUS
  <1> QED
    BY <1>1, SubSeqProperties

\* The empty buffer of a new process satisfies the invariant.
LEMMA InitEventInv == EventInit => EventInv
  <1> SUFFICES ASSUME EventInit PROVE EventInv
    OBVIOUS
  <1> USE BoundsAssumption DEF EventInit
  <1>1. EventTypeOK
    BY DEF EventTypeOK, Events, Entries
  <1>2. BufInv /\ WaitInv /\ ActedOnStored
    BY DEF BufInv, WaitInv, ActedOnStored
  <1>3. HandlerInv
    BY DEF HandlerInv, EventsOf
  <1>4. LossInv
    BY FS_EmptySet DEF LossInv, EventsOf
  <1> QED
    BY <1>1, <1>2, <1>3, <1>4 DEF EventInv

\* Add numbers the event behind the others and counts the oldest if it drops it.
LEMMA AddEventInv == EventInv /\ Add => EventInv'
  <1> SUFFICES ASSUME EventInv, Add PROVE EventInv'
    OBVIOUS
  <1> USE BoundsAssumption DEF EventInv
  <1> DEFINE e == [seq |-> nextSeq + 1, ev |-> produced + 1]
             all == Append(buf, e)
             over == IF Len(all) > Cap THEN Len(all) - Cap ELSE 0
  <1>1. /\ produced \in Nat /\ nextSeq \in Nat /\ Len(buf) \in Nat /\ produced < MaxEvents
        /\ buf \in Seq(Entries) /\ Len(buf) <= nextSeq /\ nextSeq <= produced /\ Len(buf) <= Cap
        /\ produced' = produced + 1 /\ nextSeq' = nextSeq + 1
    BY DEF Add, EventTypeOK, BufInv
  <1>0. PICK n \in Nat, d \in Nat :
          /\ n = produced - Len(buf) /\ d = nextSeq - Len(buf)
          /\ produced = n + Len(buf) /\ nextSeq = d + Len(buf)
    <2>1. produced - Len(buf) \in Nat /\ nextSeq - Len(buf) \in Nat
      BY <1>1
    <2> QED
      BY <1>1, <2>1
  <1>2. e \in Entries
    BY <1>1 DEF Entries, Events
  <1>3. /\ all \in Seq(Entries) /\ Len(all) = Len(buf) + 1
        /\ \A i \in 1 .. Len(buf) : all[i] = buf[i]
        /\ all[Len(buf) + 1] = e
    BY <1>1, <1>2, AppendProperties
  <1>4. PICK k \in 0 .. 1 :
          /\ k = 1 <=> Len(buf) = Cap
          /\ buf' = SubSeq(all, k + 1, Len(all)) /\ dropped' = dropped + k
          /\ overflowed' = overflowed \cup EventsOf(SubSeq(all, 1, k))
    <2>1. over \in 0 .. 1 /\ (over = 1 <=> Len(buf) = Cap)
      BY <1>1, <1>3
    <2> QED
      BY <2>1 DEF Add
  <1>5. UNCHANGED <<waitsFor, crashLost, trimmed, ingestVars>>
    BY DEF Add
  <1> HIDE DEF all, over
  <1>6. /\ buf' \in Seq(Entries) /\ Len(buf') = Len(buf) + 1 - k
        /\ \A i \in 1 .. Len(buf') : buf'[i] = all[k + i]
    BY <1>1, <1>3, <1>4, <1>5, PartOfBuffer
  <1>7. \A i \in 1 .. Len(all) : all[i].seq = d + i /\ all[i].ev = n + i
    <2>1. e.seq = nextSeq + 1 /\ e.ev = produced + 1
      OBVIOUS
    <2>3. \A i \in 1 .. Len(buf) : buf[i].seq = d + i /\ buf[i].ev = n + i
      <3>1. DOMAIN buf = 1 .. Len(buf)
        BY <1>1
      <3> QED
        BY <3>1, <1>0 DEF BufInv
    <2> HIDE DEF e
    <2>2. ASSUME NEW i \in 1 .. Len(all) PROVE all[i].seq = d + i /\ all[i].ev = n + i
      <3>1. CASE i \in 1 .. Len(buf)
        BY <3>1, <2>3, <1>3
      <3>2. CASE i = Len(buf) + 1
        <4>1. all[i] = e
          BY <3>2, <1>3
        <4>2. nextSeq + 1 = d + i /\ produced + 1 = n + i
          BY <3>2, <1>0, <1>1
        <4> QED
          BY <4>1, <4>2, <2>1
      <3> QED
        BY <3>1, <3>2, <1>1, <1>3
    <2> QED
      BY <2>2
  <1> HIDE DEF e
  <1>8. EventsOf(SubSeq(all, 1, k)) = {all[i].ev : i \in 1 .. k}
    <2>1. /\ Len(SubSeq(all, 1, k)) = k /\ SubSeq(all, 1, k) \in Seq(Entries)
          /\ \A i \in 1 .. k : SubSeq(all, 1, k)[i] = all[i]
      BY <1>1, <1>3, <1>4, PartOfBuffer
    <2> QED
      BY <2>1 DEF EventsOf
  <1>9. /\ k = 0 => overflowed' = overflowed
        /\ k = 1 => overflowed' = overflowed \cup {n + 1}
    <2>1. CASE k = 0
      BY <2>1, <1>4, <1>5, <1>8
    <2>2. CASE k = 1
      <3>1. {all[i].ev : i \in 1 .. 1} = {n + 1}
        BY <1>0, <1>1, <1>3, <1>7
      <3> QED
        BY <2>2, <3>1, <1>4, <1>5, <1>8
    <2> QED
      BY <2>1, <2>2
  <1>10. /\ produced' - Len(buf') = n + k /\ nextSeq' - Len(buf') = d + k
         /\ Len(buf') <= nextSeq' /\ nextSeq' <= produced' /\ produced' \in Nat /\ nextSeq' \in Nat
         /\ Len(buf') \in Nat /\ DOMAIN buf' = 1 .. Len(buf')
         /\ \A i \in 1 .. Len(buf') : buf'[i].seq = d + k + i /\ buf'[i].ev = n + k + i
    <2>1. Len(buf') = Len(buf) + 1 - k /\ Len(buf') \in Nat /\ DOMAIN buf' = 1 .. Len(buf')
      BY <1>1, <1>6
    <2>2. /\ produced' - Len(buf') = n + k /\ nextSeq' - Len(buf') = d + k
          /\ Len(buf') <= nextSeq' /\ nextSeq' <= produced' /\ produced' \in Nat /\ nextSeq' \in Nat
      BY <2>1, <1>0, <1>1, <1>4
    <2>3. ASSUME NEW i \in 1 .. Len(buf') PROVE buf'[i].seq = d + k + i /\ buf'[i].ev = n + k + i
      <3>1. k + i \in 1 .. Len(all)
        BY <2>1, <1>1, <1>3, <1>4
      <3>2. buf'[i] = all[k + i]
        BY <1>6
      <3>3. all[k + i].seq = d + (k + i) /\ all[k + i].ev = n + (k + i)
        BY <3>1, <1>7
      <3> QED
        BY <3>2, <3>3, <2>1, <1>0, <1>4
    <2> QED
      BY <2>1, <2>2, <2>3
  <1>20. BufInv'
    BY <1>10 DEF BufInv
  <1>11. IsFiniteSet(overflowed) /\ Cardinality(overflowed) \in Nat
    <2>1. IsFiniteSet(1 .. (produced - Len(buf)))
      BY <1>1, FS_Interval
    <2> QED
      BY <2>1, FS_Subset, FS_CardinalityType DEF LossInv
  <1>12. overflowed' \subseteq 1 .. (n + k)
    <2>1. overflowed \in SUBSET (1 .. n)
      BY <1>0 DEF LossInv
    <2>3. CASE k = 0
      <3>1. overflowed' = overflowed /\ n + k = n
        BY <2>3, <1>0, <1>9
      <3> QED
        BY <2>1, <3>1
    <2>4. CASE k = 1
      <3>1. overflowed' = overflowed \cup {n + 1}
        BY <2>4, <1>9
      <3> QED
        BY <2>1, <3>1, <2>4
    <2> QED
      BY <2>3, <2>4
  <1>13. dropped' = Cardinality(overflowed')
    <2>1. n + 1 \notin overflowed
      BY <1>0 DEF LossInv
    <2>2. CASE k = 0
      <3>1. overflowed' = overflowed /\ dropped' = dropped + 0 /\ dropped = Cardinality(overflowed)
        BY <2>2, <1>4, <1>9 DEF LossInv
      <3> QED
        BY <3>1, <1>11
    <2>3. CASE k = 1
      <3>1. overflowed' = overflowed \cup {n + 1} /\ dropped' = dropped + 1 /\ dropped = Cardinality(overflowed)
        BY <2>3, <1>4, <1>9 DEF LossInv
      <3>2. Cardinality(overflowed \cup {n + 1}) = Cardinality(overflowed) + 1
        BY <2>1, <1>11, FS_AddElement
      <3> QED
        BY <3>1, <3>2
    <2> QED
      BY <2>2, <2>3
  <1>14. EventsOf(buf) \cup {produced + 1} \subseteq EventsOf(buf') \cup overflowed'
    <2>1. ASSUME NEW i \in 1 .. Len(all) PROVE all[i].ev \in EventsOf(buf') \cup overflowed'
      <3>1. CASE i <= k
        BY <3>1, <1>4, <1>5, <1>8
      <3>2. CASE i > k
        <4>1. i - k \in 1 .. Len(buf') /\ k + (i - k) = i
          BY <3>2, <1>1, <1>3, <1>4, <1>6
        <4>2. buf'[i - k] = all[i]
          BY <4>1, <1>6
        <4> QED
          BY <4>1, <4>2, <1>6 DEF EventsOf
      <3> QED
        BY <3>1, <3>2, <1>3, <1>4
    <2>2. \A x \in EventsOf(buf) : \E i \in 1 .. Len(all) : x = all[i].ev
      BY <1>1, <1>3 DEF EventsOf
    <2>3. produced + 1 = all[Len(buf) + 1].ev /\ Len(buf) + 1 \in 1 .. Len(all)
      BY <1>0, <1>1, <1>3, <1>7
    <2> QED
      BY <2>1, <2>2, <2>3
  <1>15. LossInv'
    <2>1. 1 .. produced' = (1 .. produced) \cup {produced + 1}
      BY <1>1
    <2>2. stored' = stored /\ crashLost' = crashLost /\ overflowed \subseteq overflowed'
      BY <1>4, <1>5 DEF ingestVars
    <2>3. (1 .. produced) \ (stored \cup EventsOf(buf) \cup crashLost) \subseteq overflowed
      BY DEF LossInv
    <2>4. (1 .. produced') \ (stored' \cup EventsOf(buf') \cup crashLost') \subseteq overflowed'
      BY <2>1, <2>2, <2>3, <1>14
    <2>5. overflowed' \subseteq 1 .. (produced' - Len(buf'))
      BY <1>10, <1>12
    <2> QED
      BY <2>4, <2>5, <1>13 DEF LossInv
  <1>16. EventTypeOK'
    <2>1. dropped' \in 0 .. MaxEvents /\ overflowed' \subseteq Events
      <3>1. overflowed' \subseteq 1 .. produced' /\ IsFiniteSet(1 .. produced') /\ Cardinality(1 .. produced') = produced'
        <4>1. n + k <= produced' /\ n + k \in Nat /\ produced' \in Nat
          <5>1. Len(buf') \in Nat /\ k \in Nat
            BY <1>4, <1>6
          <5>2. produced' = n + k + Len(buf')
            BY <5>1, <1>0, <1>1, <1>10
          <5> QED
            BY <5>1, <5>2, <1>0, <1>1
        <4> QED
          <5>1. 1 .. (n + k) \subseteq 1 .. produced'
            BY <4>1
          <5>2. IsFiniteSet(1 .. produced') /\ Cardinality(1 .. produced') = produced'
            BY <4>1, FS_Interval
          <5> QED
            BY <5>1, <5>2, <1>12
      <3>2. Cardinality(overflowed') <= produced' /\ Cardinality(overflowed') \in Nat
        BY <3>1, FS_Subset, FS_CardinalityType
      <3> QED
        BY <3>1, <3>2, <1>1, <1>13 DEF Events
    <2>2. UNCHANGED <<waitsFor, crashLost, trimmed, phase, batch, looked, stored, processed, responded>>
      BY <1>5 DEF ingestVars
    <2>3. nextSeq' \in 0 .. MaxEvents /\ produced' \in 0 .. MaxEvents /\ Len(buf') <= Cap
      BY <1>1, <1>4, <1>6
    <2> QED
      BY <1>6, <2>1, <2>2, <2>3 DEF EventTypeOK
  <1>17. WaitInv'
    <2> SUFFICES ASSUME waitsFor # NoHandler PROVE WaitInv'
      BY <1>5 DEF WaitInv
    <2>1. /\ phase[waitsFor] # "free" /\ batch[waitsFor] # <<>> /\ LastAccepted(waitsFor) <= nextSeq
          /\ \A i \in DOMAIN buf : buf[i].seq <= LastAccepted(waitsFor) => buf[i].ev \in EventsOf(batch[waitsFor])
      BY DEF WaitInv
    <2>2. LastAccepted(waitsFor) \in Nat /\ LastAccepted(waitsFor)' = LastAccepted(waitsFor)
      <3>1. batch[waitsFor] \in Seq(Entries)
        BY DEF EventTypeOK
      <3>2. batch[waitsFor][Len(batch[waitsFor])] \in Entries
        BY <3>1, <2>1
      <3> QED
        BY <3>2, <1>5 DEF LastAccepted, Entries, ingestVars
    <2>3. ASSUME NEW i \in DOMAIN buf', buf'[i].seq <= LastAccepted(waitsFor)
          PROVE  buf'[i].ev \in EventsOf(batch[waitsFor])
      <3>1. i + k \in 1 .. Len(all) /\ buf'[i] = all[k + i]
        <4>1. i \in 1 .. Len(buf') /\ Len(buf') = Len(buf) + 1 - k
          BY <1>6
        <4>2. i + k \in 1 .. Len(buf) + 1
          BY <4>1, <1>1, <1>4
        <4> QED
          BY <4>1, <4>2, <1>3, <1>6
      <3>2. CASE i + k <= Len(buf)
        BY <3>1, <3>2, <2>3, <2>1, <1>1, <1>3, <1>4
      <3>3. CASE i + k = Len(buf) + 1
        <4>1. buf'[i].seq = nextSeq + 1
          <5>1. i \in 1 .. Len(buf') /\ d + k + i = nextSeq + 1
            BY <1>10, <3>3, <1>0, <1>1, <1>4
          <5> QED
            BY <5>1, <1>10
        <4> QED
          BY <4>1, <2>3, <2>1, <2>2, <1>1
      <3> QED
        BY <3>1, <3>2, <3>3, <1>1, <1>3, <1>4
    <2> QED
      BY <1>1, <1>5, <2>1, <2>2, <2>3 DEF WaitInv, ingestVars, EventsOf
  <1>18. HandlerInv'
    <2>1. 1 .. produced \subseteq 1 .. produced'
      BY <1>1
    <2> QED
      BY <2>1, <1>5 DEF HandlerInv, ingestVars, EventsOf
  <1>19. ActedOnStored'
    BY <1>5 DEF ActedOnStored, ingestVars
  <1> QED
    BY <1>20, <1>15, <1>16, <1>17, <1>18, <1>19

\* A call that ends leaves nothing behind.
LEMMA EndedHandlerInv ==
    ASSUME EventTypeOK, HandlerInv, NEW h \in Handlers, HandlerEnds(h),
           produced' = produced, stored \subseteq stored', processed \subseteq processed'
    PROVE  /\ HandlerInv'
           /\ phase' \in [Handlers -> {"free", "save", "process", "respond", "reply"}]
           /\ batch' \in [Handlers -> Seq(Entries)] /\ looked' \in [Handlers -> Nat]
           /\ \A g \in Handlers : looked'[g] <= Len(batch'[g])
           /\ \A g \in Handlers \ {h} : phase'[g] = phase[g] /\ batch'[g] = batch[g]
  <1>1. /\ phase'[h] = "free" /\ batch'[h] = <<>> /\ looked'[h] = 0 /\ EventsOf(batch'[h]) = {}
        /\ \A g \in Handlers \ {h} : phase'[g] = phase[g] /\ batch'[g] = batch[g] /\ looked'[g] = looked[g]
    BY DEF HandlerEnds, EventTypeOK, EventsOf
  <1>2. ASSUME NEW g \in Handlers
        PROVE  /\ phase'[g] # "free" => batch'[g] # <<>>
               /\ phase'[g] = "save" => looked'[g] = 0
               /\ EventsOf(batch'[g]) \subseteq 1 .. produced
               /\ phase'[g] \in {"process", "respond", "reply"} => EventsOf(batch'[g]) \subseteq stored'
               /\ phase'[g] = "process" => /\ looked'[g] < Len(batch'[g])
                                           /\ \A i \in 1 .. looked'[g] : batch'[g][i].ev \in processed'
               /\ phase'[g] \in {"respond", "reply"} => EventsOf(batch'[g]) \subseteq processed'
    <2>1. CASE g = h
      BY <1>1, <2>1
    <2>2. CASE g # h
      BY <1>1, <2>2 DEF HandlerInv
    <2> QED
      BY <2>1, <2>2
  <1>3. HandlerInv'
    BY <1>2 DEF HandlerInv, EventsOf
  <1>4. /\ phase' \in [Handlers -> {"free", "save", "process", "respond", "reply"}]
        /\ batch' \in [Handlers -> Seq(Entries)] /\ looked' \in [Handlers -> Nat]
    BY DEF HandlerEnds, EventTypeOK
  <1>5. ASSUME NEW g \in Handlers PROVE looked'[g] <= Len(batch'[g])
    <2>1. CASE g = h
      BY <1>1, <2>1
    <2>2. CASE g # h
      BY <1>1, <2>2 DEF EventTypeOK
    <2> QED
      BY <2>1, <2>2
  <1> QED
    BY <1>1, <1>3, <1>4, <1>5

\* The call the agent waits for keeps its promise while its batch is left alone.
LEMMA KeptWaitInv ==
    ASSUME WaitInv, UNCHANGED <<buf, nextSeq>>,
           waitsFor' # NoHandler =>
               waitsFor' = waitsFor /\ phase'[waitsFor] # "free" /\ batch'[waitsFor] = batch[waitsFor]
    PROVE  WaitInv'
  BY DEF WaitInv, LastAccepted, EventsOf

\* FlushEvents sends a head of the buffer.
LEMMA FlushEventInv == ASSUME EventInv, NEW h \in Handlers, FlushEvents(h) PROVE EventInv'
  <1> USE BoundsAssumption, HandlersAssumption DEF EventInv
  <1>1. /\ waitsFor' = h /\ buf # <<>> /\ phase[h] = "free"
        /\ UNCHANGED <<produced, buf, nextSeq, dropped, overflowed, crashLost, trimmed, stored, processed, responded>>
        /\ buf \in Seq(Entries) /\ Len(buf) \in Nat \ {0}
    BY DEF FlushEvents, EventTypeOK
  <1>2. PICK m \in 1 .. Len(buf) : Pending(Limit) = SubSeq(buf, 1, m)
    <2>1. (IF Limit < Len(buf) THEN Limit ELSE Len(buf)) \in 1 .. Len(buf)
      BY <1>1
    <2> QED
      BY <2>1 DEF Pending
  <1> DEFINE b == Pending(Limit)
  <1>3. b \in Seq(Entries) /\ Len(b) = m /\ b # <<>> /\ DOMAIN b = 1 .. m /\ \A i \in 1 .. m : b[i] = buf[i]
    <2>1. b = SubSeq(buf, 1, m) /\ m \in Nat \ {0} /\ m <= Len(buf)
      BY <1>1, <1>2
    <2> HIDE DEF b
    <2>2. b \in Seq(Entries) /\ Len(b) = m /\ \A i \in 1 .. m : b[i] = buf[i]
      BY <1>1, <2>1, PartOfBuffer
    <2> QED
      BY <2>1, <2>2
  <1>4. /\ batch' = [batch EXCEPT ![h] = b] /\ looked' = [looked EXCEPT ![h] = 0]
        /\ phase' = [phase EXCEPT ![h] = "save"]
    BY DEF FlushEvents
  <1> HIDE DEF b
  <1>5. /\ phase'[h] = "save" /\ batch'[h] = b /\ looked'[h] = 0
        /\ \A g \in Handlers \ {h} : phase'[g] = phase[g] /\ batch'[g] = batch[g] /\ looked'[g] = looked[g]
    BY <1>4 DEF EventTypeOK
  <1>6. PICK n \in Nat, d \in Nat :
          /\ produced = n + Len(buf) /\ nextSeq = d + Len(buf)
          /\ \A i \in 1 .. Len(buf) : buf[i].seq = d + i /\ buf[i].ev = n + i
    <2>1. /\ produced \in Nat /\ nextSeq \in Nat /\ Len(buf) <= nextSeq /\ nextSeq <= produced
          /\ DOMAIN buf = 1 .. Len(buf)
      BY <1>1 DEF EventTypeOK, BufInv
    <2>2. produced - Len(buf) \in Nat /\ nextSeq - Len(buf) \in Nat
      BY <1>1, <2>1
    <2>3. produced = (produced - Len(buf)) + Len(buf) /\ nextSeq = (nextSeq - Len(buf)) + Len(buf)
      BY <1>1, <2>1
    <2>4. \A i \in 1 .. Len(buf) : /\ buf[i].seq = (nextSeq - Len(buf)) + i
                                   /\ buf[i].ev = (produced - Len(buf)) + i
      BY <2>1 DEF BufInv
    <2> QED
      BY <2>2, <2>3, <2>4
  <1>7. EventTypeOK'
    <2>1. ASSUME NEW g \in Handlers PROVE looked'[g] <= Len(batch'[g])
      <3>1. CASE g = h
        BY <1>3, <1>5, <3>1
      <3>2. CASE g # h
        BY <1>5, <3>2 DEF EventTypeOK
      <3> QED
        BY <3>1, <3>2
    <2>2. /\ phase' \in [Handlers -> {"free", "save", "process", "respond", "reply"}]
          /\ batch' \in [Handlers -> Seq(Entries)] /\ looked' \in [Handlers -> Nat]
      BY <1>3, <1>4 DEF EventTypeOK
    <2> QED
      BY <1>1, <2>1, <2>2 DEF EventTypeOK
  <1>8. WaitInv'
    <2>1. LastAccepted(h)' = d + m /\ d + m <= nextSeq
      <3>1. LastAccepted(h)' = b[m].seq
        BY <1>3, <1>5 DEF LastAccepted
      <3>2. b[m].seq = d + m
        BY <1>1, <1>2, <1>3, <1>6
      <3>3. d + m <= nextSeq
        BY <1>1, <1>2, <1>6
      <3> QED
        BY <3>1, <3>2, <3>3
    <2>2. ASSUME NEW i \in DOMAIN buf, buf[i].seq <= d + m PROVE buf[i].ev \in EventsOf(b)
      <3>1. i \in 1 .. m
        <4>1. i \in 1 .. Len(buf)
          BY <1>1
        <4>2. d + i <= d + m
          BY <4>1, <1>6, <2>2
        <4> QED
          BY <4>1, <4>2, <1>2, <1>6
      <3> QED
        BY <3>1, <1>3 DEF EventsOf
    <2> QED
      BY <1>1, <1>3, <1>5, <2>1, <2>2 DEF WaitInv, EventsOf
  <1>9. HandlerInv'
    <2>1. \A x \in EventsOf(b) : x \in 1 .. produced
      <3>1. ASSUME NEW i \in 1 .. m PROVE b[i].ev \in 1 .. produced
        <4>1. b[i].ev = n + i
          <5>1. i \in 1 .. Len(buf)
            BY <1>1, <1>2
          <5> QED
            BY <5>1, <1>3, <1>6
        <4> QED
          BY <4>1, <1>1, <1>2, <1>6
      <3> QED
        BY <3>1, <1>3 DEF EventsOf
    <2>2. \A g \in Handlers \ {h} : EventsOf(batch'[g]) = EventsOf(batch[g])
      BY <1>5
    <2>3. /\ EventsOf(batch'[h]) = EventsOf(b)
          /\ \A g \in Handlers : EventsOf(batch[g])' = EventsOf(batch'[g])
      BY <1>5 DEF EventsOf
    <2>4. ASSUME NEW g \in Handlers
          PROVE /\ phase'[g] # "free" => batch'[g] # <<>>
                /\ phase'[g] = "save" => looked'[g] = 0
                /\ EventsOf(batch'[g]) \subseteq 1 .. produced
                /\ phase'[g] \in {"process", "respond", "reply"} => EventsOf(batch'[g]) \subseteq stored
                /\ phase'[g] = "process" => /\ looked'[g] < Len(batch'[g])
                                            /\ \A i \in 1 .. looked'[g] : batch'[g][i].ev \in processed
                /\ phase'[g] \in {"respond", "reply"} => EventsOf(batch'[g]) \subseteq processed
      <3>1. CASE g = h
        BY <1>3, <1>5, <2>1, <2>3, <3>1
      <3>2. CASE g # h
        BY <1>5, <2>2, <3>2 DEF HandlerInv
      <3> QED
        BY <3>1, <3>2
    <2> QED
      BY <1>1, <2>3, <2>4 DEF HandlerInv
  <1>10. BufInv' /\ LossInv' /\ ActedOnStored'
    BY <1>1 DEF BufInv, LossInv, ActedOnStored, EventsOf
  <1> QED
    BY <1>7, <1>8, <1>9, <1>10

\* ReceiveAck trims what the batch of the call covers, and that was processed.
LEMMA AckEventInv == ASSUME EventInv, NEW h \in Handlers, ReceiveAck(h) PROVE EventInv'
  <1> USE BoundsAssumption, HandlersAssumption DEF EventInv
  <1>1. /\ waitsFor = h /\ phase[h] = "reply" /\ waitsFor' = NoHandler /\ HandlerEnds(h)
        /\ UNCHANGED <<produced, nextSeq, dropped, overflowed, crashLost, stored, processed, responded>>
        /\ buf \in Seq(Entries) /\ Len(buf) \in Nat
    BY DEF ReceiveAck, EventTypeOK, HandlerEnds
  <1>2. PICK k \in 0 .. Len(buf) :
          /\ Ack(h, k) /\ buf' = SubSeq(buf, k + 1, Len(buf))
          /\ trimmed' = trimmed \cup EventsOf(SubSeq(buf, 1, k))
    BY DEF ReceiveAck
  <1>3. /\ buf' \in Seq(Entries) /\ Len(buf') = Len(buf) - k /\ DOMAIN buf' = 1 .. Len(buf')
        /\ \A i \in 1 .. Len(buf') : buf'[i] = buf[k + i]
    <2>1. k + 1 \in 1 .. Len(buf) + 1 /\ Len(buf) \in 0 .. Len(buf)
      BY <1>1
    <2>2. /\ buf' \in Seq(Entries)
          /\ Len(buf') = IF k + 1 <= Len(buf) THEN Len(buf) - (k + 1) + 1 ELSE 0
          /\ \A i \in 1 .. Len(buf) - (k + 1) + 1 : buf'[i] = buf[k + 1 + i - 1]
      BY <1>1, <1>2, <2>1, PartOfBuffer
    <2>3. Len(buf') = Len(buf) - k
      BY <1>1, <2>2
    <2> QED
      BY <1>1, <2>2, <2>3
  <1>4. EventsOf(SubSeq(buf, 1, k)) = {buf[i].ev : i \in 1 .. k}
    <2>1. /\ Len(SubSeq(buf, 1, k)) = k /\ SubSeq(buf, 1, k) \in Seq(Entries)
          /\ \A i \in 1 .. k : SubSeq(buf, 1, k)[i] = buf[i]
      BY <1>1, <1>2, PartOfBuffer
    <2>2. DOMAIN SubSeq(buf, 1, k) = 1 .. k
      BY <2>1
    <2> QED
      BY <2>1, <2>2 DEF EventsOf
  <1>5. {buf[i].ev : i \in 1 .. k} \subseteq stored \cap processed
    <2>1. \A i \in 1 .. k : buf[i].seq <= LastAccepted(h)
      BY <1>2 DEF Ack
    <2>2. \A i \in 1 .. k : i \in DOMAIN buf
      BY <1>1
    <2>3. \A i \in 1 .. k : buf[i].ev \in EventsOf(batch[h])
      BY <1>1, <2>1, <2>2 DEF WaitInv
    <2>4. EventsOf(batch[h]) \subseteq stored \cap processed
      BY <1>1 DEF HandlerInv
    <2> QED
      BY <2>3, <2>4
  <1>6. EventsOf(buf) \subseteq EventsOf(buf') \cup stored
    <2>1. ASSUME NEW i \in 1 .. Len(buf) PROVE buf[i].ev \in EventsOf(buf') \cup stored
      <3>1. CASE i <= k
        BY <1>5, <3>1
      <3>2. CASE i > k
        <4>1. i - k \in 1 .. Len(buf') /\ k + (i - k) = i
          BY <1>1, <1>3, <3>2
        <4>2. buf'[i - k] = buf[i]
          BY <1>3, <4>1
        <4> QED
          BY <1>3, <4>1, <4>2 DEF EventsOf
      <3> QED
        BY <3>1, <3>2
    <2> QED
      BY <1>1, <2>1 DEF EventsOf
  <1>7. BufInv'
    <2>1. /\ produced \in Nat /\ nextSeq \in Nat /\ Len(buf) <= nextSeq /\ nextSeq <= produced
          /\ DOMAIN buf = 1 .. Len(buf)
      BY <1>1 DEF EventTypeOK, BufInv
    <2>2. ASSUME NEW i \in 1 .. Len(buf')
          PROVE  buf'[i].seq = nextSeq - Len(buf') + i /\ buf'[i].ev = produced - Len(buf') + i
      <3>1. k + i \in DOMAIN buf
        BY <1>1, <1>3, <2>1
      <3>2. buf[k + i].seq = nextSeq - Len(buf) + (k + i) /\ buf[k + i].ev = produced - Len(buf) + (k + i)
        BY <3>1 DEF BufInv
      <3>3. nextSeq - Len(buf) + (k + i) = nextSeq - Len(buf') + i /\ produced - Len(buf) + (k + i) = produced - Len(buf') + i
        BY <1>1, <1>3, <2>1
      <3> QED
        BY <1>3, <3>2, <3>3
    <2>3. Len(buf') <= nextSeq
      BY <1>1, <1>3, <2>1
    <2> QED
      BY <1>1, <1>3, <2>1, <2>2, <2>3 DEF BufInv
  <1>8. LossInv'
    <2>1. 1 .. (produced - Len(buf)) \subseteq 1 .. (produced - Len(buf'))
      BY <1>1, <1>3 DEF EventTypeOK
    <2> QED
      BY <1>1, <1>6, <2>1 DEF LossInv
  <1>9. ActedOnStored' /\ trimmed' \subseteq Events
    BY <1>1, <1>2, <1>4, <1>5 DEF ActedOnStored, EventTypeOK
  <1>10. EventTypeOK' /\ HandlerInv'
    <2>1. Len(buf') <= Cap
      BY <1>1, <1>3 DEF EventTypeOK
    <2> QED
      BY <1>1, <1>3, <1>9, <2>1, EndedHandlerInv DEF EventTypeOK
  <1>11. WaitInv'
    BY <1>1 DEF WaitInv
  <1> QED
    BY <1>7, <1>8, <1>9, <1>10, <1>11

\* A failed flush or a dead server ends calls; a dead agent also loses its buffer.
LEMMA OutageEventInv ==
    ASSUME EventInv, FlushFails \/ SenderRestarts \/ ServerRestarts
    PROVE  EventInv'
  <1> USE BoundsAssumption, HandlersAssumption DEF EventInv
  <1>1. CASE FlushFails
    <2>1. /\ waitsFor' = NoHandler /\ UNCHANGED <<produced, buf, nextSeq, dropped, overflowed, crashLost, trimmed>>
          /\ UNCHANGED <<phase, batch, looked, stored, processed, responded>>
      BY <1>1 DEF FlushFails, ingestVars
    <2>2. EventTypeOK' /\ WaitInv'
      BY <2>1 DEF EventTypeOK, WaitInv
    <2>3. HandlerInv' /\ BufInv' /\ LossInv' /\ ActedOnStored'
      BY <2>1 DEF HandlerInv, BufInv, LossInv, ActedOnStored, EventsOf
    <2> QED
      BY <2>2, <2>3
  <1>2. CASE SenderRestarts
    <2>1. /\ buf' = <<>> /\ nextSeq' = 0 /\ dropped' = 0 /\ overflowed' = {} /\ waitsFor' = NoHandler
          /\ crashLost' = crashLost \cup ((1 .. produced) \ stored)
          /\ UNCHANGED <<produced, trimmed, phase, batch, looked, stored, processed, responded>>
      BY <1>2 DEF SenderRestarts, ingestVars
    <2>2. 1 .. produced \subseteq Events /\ produced \in Nat
      BY DEF EventTypeOK, Events
    <2>3. EventTypeOK'
      BY <2>1, <2>2 DEF EventTypeOK
    <2>4. BufInv' /\ WaitInv' /\ HandlerInv' /\ ActedOnStored'
      BY <2>1, <2>2 DEF BufInv, WaitInv, HandlerInv, ActedOnStored, EventsOf
    <2>5. LossInv'
      BY <2>1, FS_EmptySet DEF LossInv
    <2> QED
      BY <2>3, <2>4, <2>5
  <1>3. CASE ServerRestarts
    <2>1. /\ phase' = [h \in Handlers |-> "free"] /\ batch' = [h \in Handlers |-> <<>>]
          /\ looked' = [h \in Handlers |-> 0] /\ waitsFor' = NoHandler
          /\ UNCHANGED <<produced, buf, nextSeq, dropped, overflowed, crashLost, trimmed, stored, processed, responded>>
      BY <1>3 DEF ServerRestarts
    <2>2. EventTypeOK'
      BY <2>1 DEF EventTypeOK
    <2>3. HandlerInv'
      BY <2>1 DEF HandlerInv, EventsOf
    <2>4. BufInv' /\ WaitInv' /\ ActedOnStored' /\ LossInv'
      BY <2>1 DEF BufInv, WaitInv, ActedOnStored, LossInv, EventsOf
    <2> QED
      BY <2>2, <2>3, <2>4
  <1> QED
    BY <1>1, <1>2, <1>3

\* A handler moves on with its batch; the others stand still.
LEMMA MovedHandlerInv ==
    ASSUME EventTypeOK, HandlerInv, NEW h \in Handlers,
           NEW p \in {"process", "respond", "reply"}, NEW l \in 0 .. Len(batch[h]),
           phase' = [phase EXCEPT ![h] = p], looked' = [looked EXCEPT ![h] = l], batch' = batch,
           produced' = produced, stored \subseteq stored', processed \subseteq processed',
           phase[h] # "free", EventsOf(batch[h]) \subseteq stored',
           p = "process" => l < Len(batch[h]) /\ \A i \in 1 .. l : batch[h][i].ev \in processed',
           p \in {"respond", "reply"} => EventsOf(batch[h]) \subseteq processed'
    PROVE  /\ HandlerInv'
           /\ phase' \in [Handlers -> {"free", "save", "process", "respond", "reply"}]
           /\ looked' \in [Handlers -> Nat]
           /\ \A g \in Handlers : looked'[g] <= Len(batch'[g])
           /\ \A g \in Handlers : phase[g] # "free" => phase'[g] # "free"
  <1>1. /\ phase'[h] = p /\ looked'[h] = l
        /\ \A g \in Handlers \ {h} : phase'[g] = phase[g] /\ looked'[g] = looked[g]
    BY DEF EventTypeOK
  <1>2. batch[h] \in Seq(Entries) /\ Len(batch[h]) \in Nat /\ batch[h] # <<>>
    BY DEF EventTypeOK, HandlerInv
  <1>3. ASSUME NEW g \in Handlers
        PROVE  /\ phase'[g] # "free" => batch[g] # <<>>
               /\ phase'[g] = "save" => looked'[g] = 0
               /\ EventsOf(batch[g]) \subseteq 1 .. produced
               /\ phase'[g] \in {"process", "respond", "reply"} => EventsOf(batch[g]) \subseteq stored'
               /\ phase'[g] = "process" => /\ looked'[g] < Len(batch[g])
                                           /\ \A i \in 1 .. looked'[g] : batch[g][i].ev \in processed'
               /\ phase'[g] \in {"respond", "reply"} => EventsOf(batch[g]) \subseteq processed'
    <2>1. CASE g = h
      BY <1>1, <1>2, <2>1 DEF HandlerInv
    <2>2. CASE g # h
      BY <1>1, <2>2 DEF HandlerInv
    <2> QED
      BY <2>1, <2>2
  <1>4. HandlerInv'
    BY <1>3 DEF HandlerInv, EventsOf
  <1>5. /\ phase' \in [Handlers -> {"free", "save", "process", "respond", "reply"}]
        /\ looked' \in [Handlers -> Nat]
    BY <1>2 DEF EventTypeOK
  <1>6. ASSUME NEW g \in Handlers
        PROVE  looked'[g] <= Len(batch'[g]) /\ (phase[g] # "free" => phase'[g] # "free")
    <2>1. CASE g = h
      BY <1>1, <1>2, <2>1
    <2>2. CASE g # h
      BY <1>1, <2>2 DEF EventTypeOK
    <2> QED
      BY <2>1, <2>2
  <1> QED
    BY <1>4, <1>5, <1>6

\* The parts of the invariant that only the agent's own steps disturb.
LEMMA AgentSideInv ==
    ASSUME EventInv, UNCHANGED <<produced, buf, nextSeq, dropped, overflowed, crashLost, trimmed>>,
           stored \subseteq stored', processed \subseteq processed'
    PROVE  BufInv' /\ LossInv' /\ (trimmed' \subseteq stored' \cap processed')
  BY DEF EventInv, BufInv, LossInv, ActedOnStored, EventsOf

\* The steps of a running ReportEvents call.
LEMMA HandlerEventInv == ASSUME EventInv, NEW h \in Handlers, HandlerStep(h) PROVE EventInv'
  <1> USE BoundsAssumption, HandlersAssumption DEF EventInv
  <1>0. /\ batch[h] \in Seq(Entries) /\ Len(batch[h]) \in Nat /\ EventsOf(batch[h]) \subseteq Events
        /\ looked[h] \in 0 .. Len(batch[h]) /\ looked[h] \in Nat
    BY DEF EventTypeOK, HandlerInv, Events
  <1>1. CASE SaveEvents(h)
    <2>1. /\ phase[h] = "save" /\ phase' = [phase EXCEPT ![h] = "process"]
          /\ stored' = stored \cup EventsOf(batch[h])
          /\ UNCHANGED <<produced, buf, nextSeq, dropped, waitsFor, overflowed, crashLost, trimmed>>
          /\ UNCHANGED <<batch, looked, processed, responded>>
      BY <1>1 DEF SaveEvents, senderVars
    <2>2. looked' = [looked EXCEPT ![h] = 0] /\ 0 < Len(batch[h])
      BY <1>0, <2>1 DEF EventTypeOK, HandlerInv
    <2>3. /\ HandlerInv' /\ phase' \in [Handlers -> {"free", "save", "process", "respond", "reply"}]
          /\ \A g \in Handlers : phase[g] # "free" => phase'[g] # "free"
      <3>1. /\ "process" \in {"process", "respond", "reply"} /\ 0 \in 0 .. Len(batch[h])
            /\ phase[h] # "free" /\ EventsOf(batch[h]) \subseteq stored'
            /\ stored \subseteq stored' /\ processed \subseteq processed'
            /\ \A i \in 1 .. 0 : batch[h][i].ev \in processed'
        BY <1>0, <2>1
      <3> QED
        BY <2>1, <2>2, <3>1, MovedHandlerInv
    <2>4. WaitInv'
      BY <2>1, <2>3, KeptWaitInv DEF EventTypeOK, WaitInv
    <2>5. EventTypeOK' /\ ActedOnStored'
      BY <1>0, <2>1, <2>3 DEF EventTypeOK, ActedOnStored
    <2> QED
      BY <2>1, <2>3, <2>4, <2>5, AgentSideInv
  <1>2. CASE ProcessEvent(h)
    <2> DEFINE n == looked[h] + 1
               p == IF n = Len(batch[h]) THEN "respond" ELSE "process"
    <2>1. /\ phase[h] = "process" /\ n \in 1 .. Len(batch[h])
          /\ processed' = processed \cup {batch[h][n].ev} /\ looked' = [looked EXCEPT ![h] = n]
          /\ UNCHANGED <<produced, buf, nextSeq, dropped, waitsFor, overflowed, crashLost, trimmed>>
          /\ UNCHANGED <<batch, stored, responded>>
      BY <1>0, <1>2 DEF ProcessEvent, senderVars
    <2>2. phase' = [phase EXCEPT ![h] = p]
      <3>1. looked'[h] = n
        BY <2>1 DEF EventTypeOK
      <3>2. CASE n = Len(batch[h])
        BY <1>2, <3>1, <3>2 DEF ProcessEvent
      <3>3. CASE n # Len(batch[h])
        <4>1. phase' = phase /\ p = "process"
          BY <1>2, <3>1, <3>3 DEF ProcessEvent
        <4> QED
          BY <2>1, <4>1 DEF EventTypeOK
      <3> QED
        BY <3>2, <3>3
    <2>3. \A i \in 1 .. n : batch[h][i].ev \in processed'
      <3>1. \A i \in 1 .. looked[h] : batch[h][i].ev \in processed
        BY <2>1 DEF HandlerInv
      <3> QED
        BY <1>0, <2>1, <3>1
    <2>4. p = "respond" => EventsOf(batch[h]) \subseteq processed'
      BY <1>0, <2>1, <2>3 DEF EventsOf
    <2>5. EventsOf(batch[h]) \subseteq stored' /\ batch[h][n].ev \in stored /\ batch[h][n].ev \in Events
      <3>1. EventsOf(batch[h]) \subseteq stored
        BY <2>1 DEF HandlerInv
      <3>2. batch[h][n].ev \in EventsOf(batch[h])
        BY <1>0, <2>1 DEF EventsOf
      <3> QED
        BY <1>0, <2>1, <3>1, <3>2
    <2>6. p \in {"process", "respond", "reply"} /\ (p = "process" => n < Len(batch[h])) /\ n \in 0 .. Len(batch[h])
      BY <1>0, <2>1
    <2> HIDE DEF p, n
    <2>7. /\ HandlerInv' /\ phase' \in [Handlers -> {"free", "save", "process", "respond", "reply"}]
          /\ looked' \in [Handlers -> Nat] /\ \A g \in Handlers : looked'[g] <= Len(batch'[g])
          /\ \A g \in Handlers : phase[g] # "free" => phase'[g] # "free"
      <3>1. p \in {"respond", "reply"} => EventsOf(batch[h]) \subseteq processed'
        BY <2>4, <2>6 DEF p
      <3> QED
        BY <2>1, <2>2, <2>3, <2>5, <2>6, <3>1, MovedHandlerInv
    <2>8. WaitInv'
      BY <2>1, <2>7, KeptWaitInv DEF EventTypeOK, WaitInv
    <2>9. EventTypeOK' /\ ActedOnStored'
      BY <2>1, <2>5, <2>7 DEF EventTypeOK, ActedOnStored
    <2> QED
      BY <2>1, <2>7, <2>8, <2>9, AgentSideInv
  <1>3. CASE ReplyLost(h)
    <2>1. /\ waitsFor # h /\ HandlerEnds(h)
          /\ UNCHANGED <<produced, buf, nextSeq, dropped, waitsFor, overflowed, crashLost, trimmed>>
          /\ UNCHANGED <<stored, processed, responded>>
      BY <1>3 DEF ReplyLost, senderVars
    <2>2. HandlerInv' /\ WaitInv'
      BY <2>1, EndedHandlerInv, KeptWaitInv DEF EventTypeOK, WaitInv
    <2>3. EventTypeOK' /\ ActedOnStored'
      BY <2>1, EndedHandlerInv DEF EventTypeOK, ActedOnStored
    <2> QED
      BY <2>1, <2>2, <2>3, AgentSideInv
  <1>4. ASSUME NEW c \in BOOLEAN, SaveEventsFails(h, c) PROVE EventInv'
    <2>1. /\ HandlerEnds(h) /\ stored \subseteq stored' /\ stored' \subseteq stored \cup EventsOf(batch[h])
          /\ waitsFor' = IF waitsFor = h THEN NoHandler ELSE waitsFor
          /\ UNCHANGED <<produced, buf, nextSeq, dropped, overflowed, crashLost, trimmed, processed, responded>>
      BY <1>4 DEF SaveEventsFails
    <2>2. HandlerInv' /\ WaitInv'
      BY <2>1, EndedHandlerInv, KeptWaitInv DEF EventTypeOK, WaitInv
    <2>3. EventTypeOK' /\ ActedOnStored'
      BY <1>0, <2>1, EndedHandlerInv DEF EventTypeOK, ActedOnStored
    <2> QED
      BY <2>1, <2>2, <2>3, AgentSideInv
  <1>5. ASSUME NEW ok \in BOOLEAN, AutoQuarantine(h, ok) PROVE EventInv'
    <2>1. /\ phase[h] = "respond"
          /\ UNCHANGED <<produced, buf, nextSeq, dropped, waitsFor, overflowed, crashLost, trimmed>>
          /\ UNCHANGED <<stored, processed>>
      BY <1>5 DEF AutoQuarantine, senderVars
    <2>2. EventsOf(batch[h]) \subseteq stored \cap processed
      BY <2>1 DEF HandlerInv
    <2>3. responded' \subseteq responded \cup (EventsOf(batch[h]) \cap Critical)
      BY <1>5 DEF AutoQuarantine, EventsOf
    <2>4. /\ HandlerInv' /\ phase' \in [Handlers -> {"free", "save", "process", "respond", "reply"}]
          /\ batch' \in [Handlers -> Seq(Entries)] /\ looked' \in [Handlers -> Nat]
          /\ \A g \in Handlers : looked'[g] <= Len(batch'[g])
          /\ waitsFor # NoHandler => phase'[waitsFor] # "free" /\ batch'[waitsFor] = batch[waitsFor]
      <3>1. CASE waitsFor = h
        <4>1. phase' = [phase EXCEPT ![h] = "reply"] /\ batch' = batch /\ looked' = looked
          BY <1>5, <3>1 DEF AutoQuarantine
        <4>2. looked' = [looked EXCEPT ![h] = looked[h]]
          BY <4>1 DEF EventTypeOK
        <4>3. /\ HandlerInv' /\ phase' \in [Handlers -> {"free", "save", "process", "respond", "reply"}]
              /\ \A g \in Handlers : phase[g] # "free" => phase'[g] # "free"
          BY <1>0, <2>1, <2>2, <4>1, <4>2, MovedHandlerInv
        <4> QED
          BY <2>1, <4>1, <4>3, <3>1 DEF EventTypeOK
      <3>2. CASE waitsFor # h
        <4>1. HandlerEnds(h)
          BY <1>5, <3>2 DEF AutoQuarantine
        <4> QED
          BY <2>1, <3>2, <4>1, EndedHandlerInv DEF EventTypeOK, WaitInv
      <3> QED
        BY <3>1, <3>2
    <2>5. WaitInv'
      BY <2>1, <2>4, KeptWaitInv
    <2>6. EventTypeOK' /\ ActedOnStored'
      BY <1>0, <2>1, <2>2, <2>3, <2>4 DEF EventTypeOK, ActedOnStored
    <2> QED
      BY <2>1, <2>4, <2>5, <2>6, AgentSideInv
  <1> QED
    BY <1>1, <1>2, <1>3, <1>4, <1>5 DEF HandlerStep

-----------------------------------------------------------------------------
\* EventInv is inductive: whichever of the two processes moves, dies or gives up.
THEOREM EventInductive == EventSpec => []EventInv
  <1>1. EventInv /\ [EventNext]_eventVars => EventInv'
    <2> SUFFICES ASSUME EventInv, [EventNext]_eventVars PROVE EventInv'
      OBVIOUS
    <2>1. CASE Add
      BY <2>1, AddEventInv
    <2>2. CASE FlushFails \/ SenderRestarts \/ ServerRestarts
      BY <2>2, OutageEventInv
    <2>3. ASSUME NEW h \in Handlers, FlushEvents(h) \/ ReceiveAck(h) \/ HandlerStep(h) PROVE EventInv'
      BY <2>3, FlushEventInv, AckEventInv, HandlerEventInv
    <2>4. CASE UNCHANGED eventVars
      <3>1. /\ UNCHANGED <<produced, nextSeq, buf, dropped, overflowed, crashLost, trimmed, waitsFor>>
            /\ UNCHANGED <<phase, batch, looked, stored, processed, responded>>
        BY <2>4 DEF eventVars, senderVars, ingestVars
      <3>2. EventTypeOK' /\ BufInv'
        BY <3>1 DEF EventInv, EventTypeOK, BufInv
      <3>3. WaitInv'
        BY <3>1 DEF EventInv, WaitInv, EventsOf, LastAccepted
      <3>4. HandlerInv' /\ LossInv' /\ ActedOnStored'
        BY <3>1 DEF EventInv, HandlerInv, LossInv, ActedOnStored, EventsOf
      <3> QED
        BY <3>2, <3>3, <3>4 DEF EventInv
    <2> QED
      BY <2>1, <2>2, <2>3, <2>4 DEF EventNext
  <1> QED
    BY <1>1, InitEventInv, PTL DEF EventSpec

\* Every variable of the exchange keeps its type.
THEOREM EventTypes == EventSpec => []EventTypeOK
  BY EventInductive, PTL DEF EventInv

\* collector package comment: what the agent does not hold and the server did not
\* store was counted as dropped, unless the agent process died with it.
THEOREM EventNoSilentLoss == EventSpec => []NoSilentLoss
  <1>1. EventInv => NoSilentLoss
    BY DEF EventInv, LossInv, NoSilentLoss
  <1> QED
    BY <1>1, EventInductive, PTL

\* What an ack deletes was stored and has been through detection, and a response
\* was made to stored critical events only.
THEOREM EventActedOnStored == EventSpec => []ActedOnStored
  BY EventInductive, PTL DEF EventInv

-----------------------------------------------------------------------------
(* Policies: PolicyPush *)

Bumped == {r \in Rules : labelOf[r] # 0}

\* Labels come from a clock: none is ahead of it, and a label that the clock
\* shows was given to some rule or typed.
ClockInv ==
    /\ TypedLabels <= stamp /\ stamp <= TypedLabels + Cardinality(Bumped)
    /\ stamp > TypedLabels => \E r \in Rules : labelOf[r] = stamp
    /\ \A r \in Rules : labelOf[r] <= stamp /\ (labelOf[r] # 0 => labelOf[r] > TypedLabels)
    /\ \A p \in Policies : version[p] <= stamp
    /\ \A s \in Streams : /\ lastVer[s] <= stamp /\ read[s].ver <= stamp
                          /\ \A i \in DOMAIN wire[s] : wire[s][i].ver <= stamp
    /\ engine.ver <= stamp

\* How far the AddPolicyRule call of a rule is.
RuleInv == \A r \in Rules :
    /\ ruleCall[r] = "none" <=> home[r] = NoPolicy
    /\ ruleCall[r] \in {"none", "bump"} => labelOf[r] = 0

OnlyLabel(r) == labelOf[r] # 0 /\ \A q \in Rules \ {r} : labelOf[q] # labelOf[r]

\* A label that was handed out once leads to the rule on its whole way.
CarryInv == \A r \in Rules : OnlyLabel(r) =>
    /\ \A p \in Policies : version[p] = labelOf[r] => p = home[r]
    /\ \A s \in Streams : /\ read[s].ver = labelOf[r] => read[s].pol = home[r]
                          /\ \A i \in DOMAIN wire[s] : wire[s][i].ver = labelOf[r] => r \in wire[s][i].rules
    /\ engine.ver = labelOf[r] => r \in engine.rules

\* Only the agent's own stream carries bundles, and its loop remembers the last.
WireInv ==
    /\ \A s \in Streams : s # conn => wire[s] = <<>>
    /\ conn # NoStream =>
         /\ spc[conn] # "closed"
         /\ lastVer[conn] = IF wire[conn] = <<>> THEN engine.ver ELSE wire[conn][Len(wire[conn])].ver

\* Some call has changed what CurrentPolicy returns and has still to publish it, or
\* never will.
Unpublished ==
    \/ \E r \in Rules : ruleCall[r] \in {"publish", "failed"} /\ home[r] \in assigned
    \/ \E p \in Policies : assignCall[p] = "publish"

\* A loop that nobody has to wake holds, or has just read, the current label.
WakeInv == assigned # {} /\ ~Unpublished => \A s \in Streams : ~notify[s] =>
    /\ spc[s] = "select" => lastVer[s] = version[Current]
    /\ spc[s] = "rules" => read[s].ver = version[Current]

PolicyInv == PolicyTypeOK /\ ClockInv /\ RuleInv /\ CarryInv /\ WireInv /\ WakeInv

-----------------------------------------------------------------------------
\* A finite set that is not empty has an element with the largest value.
LEMMA LargestExists ==
    ASSUME NEW S, IsFiniteSet(S), S # {}, NEW f, \A x \in S : f[x] \in Nat
    PROVE  \E x \in S : \A y \in S : f[y] <= f[x]
  <1> DEFINE Above(x) == {z \in S : f[z] > f[x]}
             T == {Above(x) : x \in S}
  <1>1. T \subseteq FiniteSubsetsOf(S) /\ T # {}
    <2>1. \A x \in S : Above(x) \in SUBSET S /\ IsFiniteSet(Above(x))
      BY FS_Subset
    <2> QED
      BY <2>1 DEF FiniteSubsetsOf
  <1>2. PICK m \in T : \A n \in T : <<n, m>> \notin StrictSubsetOrdering(S)
    <2>1. IsWellFoundedOn(StrictSubsetOrdering(S), FiniteSubsetsOf(S))
      BY FS_StrictSubsetOrderingWellFounded
    <2> HIDE DEF T
    <2> QED
      BY <1>1, <2>1, WFMin
  <1>3. PICK x \in S : m = Above(x)
    BY <1>2
  <1>4. ASSUME NEW y \in S, f[y] > f[x] PROVE FALSE
    <2>1. Above(y) \subseteq Above(x) /\ y \in Above(x) /\ y \notin Above(y)
      BY <1>4
    <2>2. <<Above(y), m>> \in StrictSubsetOrdering(S)
      BY <1>3, <2>1 DEF StrictSubsetOrdering
    <2> QED
      BY <1>2, <2>2
  <1> QED
    BY <1>4

\* CurrentPolicy finds the most recently updated of the assigned policies.
LEMMA CurrentIsNewest ==
    ASSUME PolicyTypeOK, assigned # {}
    PROVE  Current \in assigned /\ \A q \in assigned : updated[q] <= updated[Current]
  <1>1. IsFiniteSet(assigned) /\ \A q \in assigned : updated[q] \in Nat
    BY SetsAssumption, FS_Subset DEF PolicyTypeOK
  <1>2. \E p \in assigned : \A q \in assigned : updated[q] <= updated[p]
    BY <1>1, LargestExists
  <1> QED
    BY <1>2 DEF Current

LEMMA NewestIsCurrent ==
    ASSUME PolicyTypeOK, NEW p \in assigned, \A q \in assigned : updated[q] <= updated[p]
    PROVE  Current = p
  <1>1. Current \in assigned /\ updated[p] <= updated[Current] /\ updated[Current] <= updated[p]
    BY CurrentIsNewest
  <1> QED
    BY <1>1 DEF PolicyTypeOK

\* Labels and bundles as the provers need them.
LEMMA LabelTypes ==
    /\ Labels \subseteq Nat /\ TypedLabels \in Nat /\ Cardinality(Rules) \in Nat /\ 0 \in Labels
    /\ \A b \in Bundles : b.ver \in Labels /\ b.pol \in Policies \cup {NoPolicy} /\ b.rules \subseteq Rules
    /\ EmptyEngine \in Bundles /\ NothingRead \in [ver : Labels, pol : Policies \cup {NoPolicy}]
    /\ EmptyEngine.ver = 0 /\ NothingRead.ver = 0
  <1>1. Cardinality(Rules) \in Nat
    BY SetsAssumption, FS_CardinalityType
  <1> QED
    BY <1>1, LabelAssumption DEF Labels, Bundles, EmptyEngine, NothingRead

\* Nothing is assigned, sent or known at first.
LEMMA InitPolicyInv == PolicyInit => PolicyInv
  <1> SUFFICES ASSUME PolicyInit PROVE PolicyInv
    OBVIOUS
  <1> USE LabelTypes DEF PolicyInit
  <1>1. PolicyTypeOK
    <2>1. 1 .. TypedLabels \subseteq Labels \ {0} /\ TypedLabels \in Labels
      BY LabelAssumption DEF Labels
    <2>2. /\ version \in [Policies -> Labels \ {0}] /\ updated \in [Policies -> Nat]
          /\ wire \in [Streams -> Seq(Bundles)]
      BY <2>1
    <2> QED
      BY <2>1, <2>2 DEF PolicyTypeOK
  <1>2. ClockInv
    <2>1. Bumped = {}
      BY DEF Bumped
    <2>2. Cardinality(Bumped) = 0
      BY <2>1, FS_EmptySet
    <2> QED
      BY <2>2, LabelAssumption DEF ClockInv
  <1>3. RuleInv /\ CarryInv
    BY DEF RuleInv, CarryInv, OnlyLabel
  <1>4. WireInv /\ WakeInv
    BY DEF WireInv, WakeInv
  <1> QED
    BY <1>1, <1>2, <1>3, <1>4 DEF PolicyInv

\* Steps that change no label, no rule and nothing on its way to the agent.
LEMMA LabelsStay ==
    ASSUME PolicyInv, UNCHANGED <<version, stamp, labelOf, home, lastVer, read, wire, engine>>
    PROVE  ClockInv' /\ CarryInv'
  BY DEF PolicyInv, ClockInv, CarryInv, Bumped, OnlyLabel

\* The console: assign and publish, insert, bump and publish.
LEMMA AssignPolicyInv ==
    ASSUME PolicyInv, NEW p \in Policies, AssignPolicy(p) \/ PublishAssignment(p)
    PROVE  PolicyInv'
  <1> USE DEF PolicyInv
  <1>1. UNCHANGED <<version, updated, home, stamp, ruleCall, labelOf, spc, lastVer, read, wire, conn, engine>>
    BY DEF AssignPolicy, PublishAssignment, dbVars, streamVars, receiverVars
  <1>2. /\ assigned' \subseteq Policies /\ assignCall' \in [Policies -> {"none", "publish", "done"}]
        /\ notify' \in [Streams -> BOOLEAN]
    BY DEF AssignPolicy, PublishAssignment, dbVars, streamVars, PolicyTypeOK, Publish
  <1>3. PolicyTypeOK' /\ RuleInv' /\ WireInv' /\ ClockInv' /\ CarryInv'
    BY <1>1, <1>2, LabelsStay DEF PolicyTypeOK, RuleInv, WireInv
  <1>4. WakeInv'
    <2>1. CASE AssignPolicy(p)
      <3>1. assignCall'[p] = "publish"
        BY <2>1 DEF AssignPolicy, PolicyTypeOK
      <3> QED
        BY <3>1 DEF WakeInv, Unpublished
    <2>2. CASE PublishAssignment(p)
      <3>1. \A s \in Streams : ~notify'[s] => spc'[s] = "closed"
        BY <1>1, <2>2 DEF PublishAssignment, Publish, Subscribed
      <3> QED
        BY <3>1 DEF WakeInv
    <2> QED
      BY <2>1, <2>2
  <1> QED
    BY <1>3, <1>4

LEMMA InsertRuleInv ==
    ASSUME PolicyInv, NEW r \in Rules, NEW p \in Policies, InsertRule(r, p)
    PROVE  PolicyInv'
  <1> USE NullsAssumption DEF PolicyInv
  <1>1. /\ ruleCall[r] = "none" /\ home' = [home EXCEPT ![r] = p] /\ ruleCall' = [ruleCall EXCEPT ![r] = "bump"]
        /\ UNCHANGED <<version, updated, assigned, stamp, assignCall, labelOf>>
        /\ UNCHANGED <<spc, notify, lastVer, read, wire, conn, engine>>
    BY DEF InsertRule, streamVars, receiverVars
  <1>2. /\ home'[r] = p /\ ruleCall'[r] = "bump" /\ labelOf[r] = 0
        /\ \A q \in Rules \ {r} : home'[q] = home[q] /\ ruleCall'[q] = ruleCall[q]
    BY <1>1 DEF PolicyTypeOK, RuleInv
  <1>3. PolicyTypeOK' /\ WireInv'
    BY <1>1 DEF PolicyTypeOK, WireInv
  <1>4. ClockInv'
    BY <1>1 DEF ClockInv, Bumped
  <1>5. RuleInv'
    BY <1>1, <1>2 DEF RuleInv
  <1>6. CarryInv'
    BY <1>1, <1>2 DEF CarryInv, OnlyLabel
  <1>7. WakeInv'
    <2>1. Unpublished => Unpublished'
      BY <1>1, <1>2 DEF Unpublished
    <2> QED
      BY <1>1, <2>1 DEF WakeInv, Current
  <1> QED
    BY <1>3, <1>4, <1>5, <1>6, <1>7

LEMMA PublishRuleInv ==
    ASSUME PolicyInv, NEW r \in Rules, PublishRule(r) \/ AddPolicyRuleFails(r)
    PROVE  PolicyInv'
  <1> USE DEF PolicyInv
  <1>1. /\ UNCHANGED <<version, updated, home, assigned, stamp, assignCall, labelOf>>
        /\ UNCHANGED <<spc, lastVer, read, wire, conn, engine>>
    BY DEF PublishRule, AddPolicyRuleFails, dbVars, streamVars, receiverVars
  <1>2. /\ ruleCall[r] \in {"bump", "publish"} /\ ruleCall'[r] \in {"done", "failed"}
        /\ ruleCall' \in [Rules -> {"none", "bump", "publish", "done", "failed"}]
        /\ \A q \in Rules \ {r} : ruleCall'[q] = ruleCall[q]
    BY DEF PublishRule, AddPolicyRuleFails, PolicyTypeOK
  <1>3. notify' \in [Streams -> BOOLEAN]
    <2>1. notify' = notify \/ notify' = Publish
      BY DEF PublishRule, AddPolicyRuleFails, streamVars
    <2>2. notify \in [Streams -> BOOLEAN]
      BY DEF PolicyTypeOK
    <2>3. Publish \in [Streams -> BOOLEAN]
      BY <2>2 DEF Publish
    <2> QED
      BY <2>1, <2>2, <2>3
  <1>4. PolicyTypeOK' /\ WireInv' /\ ClockInv' /\ CarryInv'
    BY <1>1, <1>2, <1>3, LabelsStay DEF PolicyTypeOK, WireInv
  <1>5. RuleInv'
    BY <1>1, <1>2 DEF RuleInv
  <1>6. WakeInv'
    <2>1. CASE PublishRule(r) /\ home[r] \in assigned
      <3>1. \A s \in Streams : ~notify'[s] => spc'[s] = "closed"
        BY <1>1, <2>1 DEF PublishRule, Publish, Subscribed
      <3> QED
        BY <3>1 DEF WakeInv
    <2>2. CASE ~(PublishRule(r) /\ home[r] \in assigned)
      <3>1. notify' = notify /\ (ruleCall'[r] = "failed" \/ home[r] \notin assigned)
        BY <2>2 DEF PublishRule, AddPolicyRuleFails, streamVars, PolicyTypeOK
      <3>2. Unpublished => Unpublished'
        BY <1>1, <1>2, <3>1 DEF Unpublished
      <3> QED
        BY <1>1, <3>1, <3>2 DEF WakeInv, Current
    <2> QED
      BY <2>1, <2>2
  <1> QED
    BY <1>4, <1>5, <1>6

\* A bump gives the policy a label that is fresh, or that is not the only one of
\* its kind any more.
LEMMA BumpPolicyInv ==
    ASSUME PolicyInv, NEW r \in Rules, NEW elapsed \in {0, 1}, BumpPolicyVersion(r, elapsed)
    PROVE  PolicyInv'
  <1> USE LabelTypes, NullsAssumption, LabelAssumption DEF PolicyInv
  <1>1. /\ ruleCall[r] = "bump" /\ stamp + elapsed > TypedLabels /\ stamp' = stamp + elapsed
        /\ version' = [version EXCEPT ![home[r]] = stamp'] /\ labelOf' = [labelOf EXCEPT ![r] = stamp']
        /\ ruleCall' = [ruleCall EXCEPT ![r] = "publish"]
        /\ UNCHANGED <<home, assigned, assignCall, spc, notify, lastVer, read, wire, conn, engine>>
    BY DEF BumpPolicyVersion, streamVars, receiverVars
  <1>2. /\ home[r] \in Policies /\ labelOf[r] = 0 /\ labelOf'[r] = stamp' /\ version'[home[r]] = stamp'
        /\ \A q \in Rules \ {r} : labelOf'[q] = labelOf[q]
        /\ \A p \in Policies \ {home[r]} : version'[p] = version[p]
    BY <1>1 DEF PolicyTypeOK, RuleInv
  <1>3. stamp \in Nat /\ stamp' \in Nat /\ stamp <= stamp' /\ stamp' # 0 /\ stamp' > TypedLabels
    BY <1>1 DEF PolicyTypeOK
  <1>4. /\ stamp' <= TypedLabels + Cardinality(Bumped') /\ Cardinality(Bumped') <= Cardinality(Rules)
        /\ Cardinality(Bumped') \in Nat
    <2>1. IsFiniteSet(Bumped) /\ Cardinality(Bumped) \in Nat
      BY SetsAssumption, FS_Subset, FS_CardinalityType DEF Bumped
    <2>2. Bumped' = Bumped \cup {r} /\ r \notin Bumped
      BY <1>2, <1>3 DEF Bumped
    <2>3. Cardinality(Bumped') = Cardinality(Bumped) + 1
      BY <2>1, <2>2, FS_AddElement
    <2>4. Bumped' \in SUBSET Rules
      BY DEF Bumped
    <2>5. Cardinality(Bumped') <= Cardinality(Rules)
      BY <2>4, SetsAssumption, FS_Subset
    <2> QED
      BY <1>1, <1>3, <2>1, <2>3, <2>5 DEF ClockInv
  <1>5. PICK m \in Nat : updated' = [updated EXCEPT ![home[r]] = 1 + m] /\ \A p \in Policies : updated[p] <= m
    <2> DEFINE m == CHOOSE n \in {updated[p] : p \in Policies} : \A p \in Policies : updated[p] <= n
    <2>1. \E p \in Policies : \A q \in Policies : updated[q] <= updated[p]
      <3>1. Policies # {} /\ \A q \in Policies : updated[q] \in Nat
        BY <1>2 DEF PolicyTypeOK
      <3> QED
        BY <3>1, SetsAssumption, LargestExists
    <2>2. m \in {updated[p] : p \in Policies} /\ \A p \in Policies : updated[p] <= m
      BY <2>1
    <2>3. updated' = [updated EXCEPT ![home[r]] = 1 + m]
      BY DEF BumpPolicyVersion
    <2> HIDE DEF m
    <2>4. m \in Nat
      BY <2>2 DEF PolicyTypeOK
    <2> QED
      BY <2>2, <2>3, <2>4
  <1>6. PolicyTypeOK'
    <2>1. stamp' \in Labels \ {0}
      <3>1. stamp' <= TypedLabels + Cardinality(Rules)
        BY <1>3, <1>4
      <3> QED
        BY <1>3, <3>1 DEF Labels
    <2>2. updated' \in [Policies -> Nat] /\ \A p, q \in Policies : updated'[p] = updated'[q] => p = q
      <3>1. \A p \in Policies : updated'[p] = IF p = home[r] THEN 1 + m ELSE updated[p]
        BY <1>5 DEF PolicyTypeOK
      <3>2. updated' \in [Policies -> Nat]
        <4>1. updated \in [Policies -> Nat] /\ 1 + m \in Nat
          BY DEF PolicyTypeOK
        <4> QED
          BY <4>1, <1>5
      <3>3. \A p \in Policies : updated[p] # 1 + m
        <4>1. \A p \in Policies : updated[p] \in Nat /\ updated[p] <= m
          BY <1>5 DEF PolicyTypeOK
        <4> QED
          BY <4>1
      <3> QED
        BY <3>1, <3>2, <3>3 DEF PolicyTypeOK
    <2>3. version' \in [Policies -> Labels \ {0}] /\ labelOf' \in [Rules -> Labels] /\ stamp' \in Labels
          /\ ruleCall' \in [Rules -> {"none", "bump", "publish", "done", "failed"}]
      BY <1>1, <2>1 DEF PolicyTypeOK
    <2> QED
      BY <1>1, <2>2, <2>3 DEF PolicyTypeOK
  <1>7. ClockInv'
    <2>1. /\ \A q \in Rules : labelOf[q] \in Nat /\ labelOf[q] <= stamp
          /\ \A p \in Policies : version[p] \in Nat /\ version[p] <= stamp
          /\ \A s \in Streams : /\ lastVer[s] \in Nat /\ lastVer[s] <= stamp /\ read[s].ver \in Nat /\ read[s].ver <= stamp
                                /\ \A i \in DOMAIN wire[s] : wire[s][i].ver \in Nat /\ wire[s][i].ver <= stamp
          /\ engine.ver \in Nat /\ engine.ver <= stamp
      <3>1. \A s \in Streams : \A i \in DOMAIN wire[s] : wire[s][i] \in Bundles
        BY DEF PolicyTypeOK
      <3> QED
        BY <3>1 DEF ClockInv, PolicyTypeOK
    <2>2. /\ \A q \in Rules : labelOf'[q] <= stamp' /\ (labelOf'[q] # 0 => labelOf'[q] > TypedLabels)
          /\ \A p \in Policies : version'[p] <= stamp'
      BY <1>2, <1>3, <2>1 DEF ClockInv
    <2>3. /\ \A s \in Streams : /\ lastVer[s] <= stamp' /\ read[s].ver <= stamp'
                                /\ \A i \in DOMAIN wire[s] : wire[s][i].ver <= stamp'
          /\ engine.ver <= stamp'
      BY <1>3, <2>1
    <2> QED
      BY <1>1, <1>2, <1>3, <1>4, <2>2, <2>3 DEF ClockInv
  <1>8. RuleInv'
    <2>1. ruleCall'[r] = "publish" /\ \A q \in Rules \ {r} : ruleCall'[q] = ruleCall[q]
      BY <1>1 DEF PolicyTypeOK
    <2> QED
      BY <1>1, <1>2, <2>1 DEF RuleInv
  <1>9. CarryInv'
    <2> SUFFICES ASSUME NEW q \in Rules, OnlyLabel(q)'
                 PROVE /\ \A p \in Policies : version'[p] = labelOf'[q] => p = home[q]
                       /\ \A s \in Streams : /\ read[s].ver = labelOf'[q] => read[s].pol = home[q]
                                             /\ \A i \in DOMAIN wire[s] : wire[s][i].ver = labelOf'[q] => q \in wire[s][i].rules
                       /\ engine.ver = labelOf'[q] => q \in engine.rules
      BY <1>1 DEF CarryInv
    <2>1. CASE q = r
      <3>1. elapsed = 1
        <4>1. elapsed = 0 => \E x \in Rules : labelOf[x] = stamp'
          BY <1>1, <1>3 DEF ClockInv
        <4>2. \A x \in Rules \ {r} : labelOf[x] # stamp'
          BY <2>1, <1>2 DEF OnlyLabel
        <4> QED
          BY <4>1, <4>2, <1>2, <1>3
      <3>2. stamp < stamp'
        BY <3>1, <1>1, <1>3
      <3>3. /\ \A p \in Policies : version[p] \in Nat /\ version[p] <= stamp
            /\ \A s \in Streams : /\ read[s].ver \in Nat /\ read[s].ver <= stamp
                                  /\ \A i \in DOMAIN wire[s] : wire[s][i].ver \in Nat /\ wire[s][i].ver <= stamp
            /\ engine.ver \in Nat /\ engine.ver <= stamp
        <4>1. \A s \in Streams : \A i \in DOMAIN wire[s] : wire[s][i] \in Bundles
          BY DEF PolicyTypeOK
        <4> QED
          BY <4>1 DEF ClockInv, PolicyTypeOK
      <3>4. /\ \A p \in Policies : version[p] # stamp'
            /\ \A s \in Streams : read[s].ver # stamp' /\ \A i \in DOMAIN wire[s] : wire[s][i].ver # stamp'
            /\ engine.ver # stamp'
        BY <3>2, <3>3, <1>3
      <3> QED
        BY <2>1, <3>4, <1>2
    <2>2. CASE q # r
      <3>1. OnlyLabel(q) /\ labelOf'[q] = labelOf[q] /\ labelOf[q] # stamp'
        <4>1. labelOf'[q] = labelOf[q] /\ labelOf[q] # 0 /\ \A x \in Rules \ {q} : labelOf'[x] # labelOf[q]
          BY <2>2, <1>2 DEF OnlyLabel
        <4>2. \A x \in Rules \ {q} : labelOf[x] # labelOf[q]
          BY <4>1, <1>2
        <4> QED
          BY <2>2, <4>1, <4>2, <1>2 DEF OnlyLabel
      <3> QED
        BY <3>1, <1>2 DEF CarryInv
    <2> QED
      BY <2>1, <2>2
  <1>10. WireInv'
    BY <1>1 DEF WireInv
  <1>11. WakeInv'
    <2> SUFFICES ASSUME assigned' # {}, ~Unpublished'
                 PROVE \A s \in Streams : ~notify'[s] =>
                           /\ spc'[s] = "select" => lastVer'[s] = version'[Current']
                           /\ spc'[s] = "rules" => read'[s].ver = version'[Current']
      BY DEF WakeInv
    <2>1. ruleCall'[r] = "publish" /\ \A q \in Rules \ {r} : ruleCall'[q] = ruleCall[q]
      BY <1>1 DEF PolicyTypeOK
    <2>2. home[r] \notin assigned /\ ~Unpublished
      BY <1>1, <2>1 DEF Unpublished
    <2>7. assigned # {}
      BY <1>1
    <2>3. Current \in assigned /\ \A q \in assigned : updated[q] <= updated[Current]
      BY <2>7, CurrentIsNewest
    <2>4. assigned' = assigned /\ \A q \in assigned : updated'[q] = updated[q]
      BY <1>1, <1>5, <2>2 DEF PolicyTypeOK
    <2>5. Current' = Current
      <3>1. Current' \in assigned /\ \A q \in assigned : updated[q] <= updated[Current']
        <4>1. IsFiniteSet(assigned') /\ assigned' # {} /\ \A q \in assigned' : updated'[q] \in Nat
          <5>1. assigned' \subseteq Policies /\ \A q \in Policies : updated'[q] \in Nat
            BY <1>6 DEF PolicyTypeOK
          <5>2. IsFiniteSet(assigned')
            BY <5>1, SetsAssumption, FS_Subset
          <5> QED
            BY <5>1, <5>2, <2>4, <2>7
        <4>2. Current' \in assigned' /\ \A q \in assigned' : updated'[q] <= updated'[Current']
          <5> DEFINE A == assigned'
                     u == updated'
          <5>1. \E p \in A : \A q \in A : u[q] <= u[p]
            <6>1. IsFiniteSet(A) /\ A # {} /\ \A q \in A : u[q] \in Nat
              BY <4>1
            <6> HIDE DEF A, u
            <6> QED
              BY <6>1, LargestExists
          <5> QED
            BY <5>1 DEF Current
        <4> QED
          BY <2>4, <4>2
      <3> QED
        BY <3>1, NewestIsCurrent
    <2>6. version'[Current'] = version[Current]
      BY <1>2, <2>2, <2>3, <2>5 DEF PolicyTypeOK
    <2> QED
      BY <1>1, <2>2, <2>6, <2>7 DEF WakeInv
  <1> QED
    BY <1>6, <1>7, <1>8, <1>9, <1>10, <1>11

\* A stream that is opened asks for what the agent does not have.
LEMMA OpenStreamInv ==
    ASSUME PolicyInv, NEW s \in Streams, StreamPolicies(s)
    PROVE  PolicyInv'
  <1> USE LabelTypes, NullsAssumption DEF PolicyInv
  <1>1. /\ conn = NoStream /\ conn' = s /\ spc' = [spc EXCEPT ![s] = "query"]
        /\ notify' = [notify EXCEPT ![s] = FALSE] /\ lastVer' = [lastVer EXCEPT ![s] = engine.ver]
        /\ UNCHANGED <<version, updated, home, assigned, stamp, ruleCall, assignCall, labelOf, read, wire, engine>>
    BY DEF StreamPolicies, dbVars, callVars
  <1>2. /\ spc'[s] = "query" /\ lastVer'[s] = engine.ver /\ wire[s] = <<>>
        /\ \A x \in Streams \ {s} : spc'[x] = spc[x] /\ notify'[x] = notify[x] /\ lastVer'[x] = lastVer[x]
    BY <1>1 DEF PolicyTypeOK, WireInv
  <1>3. PolicyTypeOK'
    BY <1>1 DEF PolicyTypeOK
  <1>4. ClockInv' /\ RuleInv' /\ CarryInv'
    BY <1>1, <1>2 DEF ClockInv, RuleInv, CarryInv, OnlyLabel, Bumped
  <1>5. WireInv'
    BY <1>1, <1>2 DEF WireInv
  <1>6. WakeInv'
    <2>1. Unpublished' = Unpublished /\ Current' = Current
      BY <1>1 DEF Unpublished, Current
    <2> QED
      BY <1>1, <1>2, <2>1 DEF WakeInv
  <1> QED
    BY <1>3, <1>4, <1>5, <1>6

\* CurrentPolicy reads the label of the policy that is current at that moment.
LEMMA ReadVersionInv ==
    ASSUME PolicyInv, NEW s \in Streams, ReadVersion(s)
    PROVE  PolicyInv'
  <1> USE LabelTypes, NullsAssumption DEF PolicyInv
  <1> DEFINE b == IF assigned = {} THEN NothingRead ELSE [ver |-> version[Current], pol |-> Current]
             n == IF assigned = {} THEN "select" ELSE "rules"
  <1>1. /\ spc[s] = "query" /\ read' = [read EXCEPT ![s] = b] /\ spc' = [spc EXCEPT ![s] = n]
        /\ UNCHANGED <<version, updated, home, assigned, stamp, ruleCall, assignCall, labelOf>>
        /\ UNCHANGED <<notify, lastVer, wire, conn, engine>>
    BY DEF ReadVersion, dbVars, callVars, receiverVars
  <1>2. /\ b \in [ver : Labels, pol : Policies \cup {NoPolicy}] /\ n \in {"select", "rules"}
        /\ assigned # {} => /\ b.ver = version[Current] /\ b.pol = Current /\ n = "rules"
                            /\ Current \in Policies
        /\ assigned = {} => b.ver = 0
    <2>1. CASE assigned = {}
      BY <2>1
    <2>2. CASE assigned # {}
      <3>1. Current \in Policies /\ version[Current] \in Labels
        BY <2>2, CurrentIsNewest DEF PolicyTypeOK
      <3> QED
        BY <2>2, <3>1
    <2> QED
      BY <2>1, <2>2
  <1> HIDE DEF b, n
  <1>3. /\ spc'[s] = n /\ read'[s] = b
        /\ \A x \in Streams \ {s} : spc'[x] = spc[x] /\ read'[x] = read[x]
    BY <1>1 DEF PolicyTypeOK
  <1>4. PolicyTypeOK'
    BY <1>1, <1>2 DEF PolicyTypeOK
  <1>5. WireInv' /\ RuleInv'
    BY <1>1, <1>2, <1>3 DEF WireInv, RuleInv
  <1>6. ClockInv'
    <2>1. b.ver <= stamp
      BY <1>2 DEF ClockInv, PolicyTypeOK
    <2> QED
      BY <1>1, <1>3, <2>1 DEF ClockInv, Bumped
  <1>7. CarryInv'
    <2>1. \A q \in Rules : OnlyLabel(q) /\ b.ver = labelOf[q] => b.pol = home[q]
      BY <1>2 DEF CarryInv, OnlyLabel
    <2> QED
      BY <1>1, <1>3, <2>1 DEF CarryInv, OnlyLabel
  <1>8. WakeInv'
    <2>1. Unpublished' = Unpublished /\ Current' = Current
      BY <1>1 DEF Unpublished, Current
    <2> QED
      BY <1>1, <1>2, <1>3, <2>1 DEF WakeInv
  <1> QED
    BY <1>4, <1>5, <1>6, <1>7, <1>8

\* The rules that are read after the label contain whatever the label stands for.
LEMMA SendIfNewerInv ==
    ASSUME PolicyInv, NEW s \in Streams, SendIfNewer(s)
    PROVE  PolicyInv'
  <1> USE LabelTypes, NullsAssumption DEF PolicyInv
  <1> DEFINE b == [ver |-> read[s].ver, pol |-> read[s].pol, rules |-> RulesOf(read[s].pol)]
  <1>1. /\ spc[s] = "rules" /\ spc' = [spc EXCEPT ![s] = "select"] /\ read' = [read EXCEPT ![s] = NothingRead]
        /\ UNCHANGED <<version, updated, home, assigned, stamp, ruleCall, assignCall, labelOf>>
        /\ UNCHANGED <<notify, conn, engine>>
        /\ lastVer' = [lastVer EXCEPT ![s] = b.ver]
        /\ wire' = IF b.ver # lastVer[s] /\ conn = s THEN [wire EXCEPT ![s] = Append(@, b)] ELSE wire
    BY DEF SendIfNewer, dbVars, callVars, receiverVars, PolicyTypeOK
  <1>2. /\ b \in Bundles /\ b.ver = read[s].ver /\ b.rules = {q \in Rules : home[q] = read[s].pol}
        /\ b.ver \in Labels /\ b.ver <= stamp
    <2>1. read[s].ver \in Labels /\ read[s].pol \in Policies \cup {NoPolicy}
      BY DEF PolicyTypeOK
    <2> QED
      BY <2>1 DEF Bundles, RulesOf, ClockInv
  <1> HIDE DEF b
  <1>3. wire[s] \in Seq(Bundles) /\ Len(wire[s]) \in Nat
    BY DEF PolicyTypeOK
  <1>4. PICK w \in Seq(Bundles) :
          /\ wire' = [wire EXCEPT ![s] = w]
          /\ \A i \in DOMAIN w : (i \in DOMAIN wire[s] /\ w[i] = wire[s][i]) \/ w[i] = b
          /\ (w = wire[s] /\ (conn = s => b.ver = lastVer[s])) \/ (w # <<>> /\ w[Len(w)] = b /\ conn = s)
    <2>1. CASE b.ver # lastVer[s] /\ conn = s
      <3> DEFINE w == Append(wire[s], b)
      <3>1. /\ w \in Seq(Bundles) /\ Len(w) = Len(wire[s]) + 1 /\ w[Len(wire[s]) + 1] = b
            /\ \A i \in 1 .. Len(wire[s]) : w[i] = wire[s][i]
        BY <1>2, <1>3, AppendProperties
      <3>2. wire' = [wire EXCEPT ![s] = w]
        BY <1>1, <2>1
      <3> HIDE DEF w
      <3>3. \A i \in DOMAIN w : (i \in DOMAIN wire[s] /\ w[i] = wire[s][i]) \/ w[i] = b
        <4> SUFFICES ASSUME NEW i \in DOMAIN w PROVE (i \in DOMAIN wire[s] /\ w[i] = wire[s][i]) \/ w[i] = b
          OBVIOUS
        <4>1. DOMAIN w = 1 .. Len(w) /\ DOMAIN wire[s] = 1 .. Len(wire[s])
          BY <1>3, <3>1
        <4>2. i \in 1 .. Len(wire[s]) \/ i = Len(wire[s]) + 1
          BY <1>3, <3>1, <4>1
        <4> QED
          BY <3>1, <4>1, <4>2
      <3>4. w # <<>> /\ w[Len(w)] = b
        BY <1>3, <3>1
      <3> QED
        BY <2>1, <3>1, <3>2, <3>3, <3>4
    <2>2. CASE ~(b.ver # lastVer[s] /\ conn = s)
      <3>1. wire' = [wire EXCEPT ![s] = wire[s]]
        BY <1>1, <2>2 DEF PolicyTypeOK
      <3>2. conn = s => b.ver = lastVer[s]
        BY <2>2
      <3> DEFINE w == wire[s]
      <3>3. /\ w \in Seq(Bundles) /\ w = wire[s] /\ wire' = [wire EXCEPT ![s] = w]
            /\ \A i \in DOMAIN w : i \in DOMAIN wire[s] /\ w[i] = wire[s][i]
        BY <1>3, <3>1
      <3> HIDE DEF w
      <3>4. \A i \in DOMAIN w : (i \in DOMAIN wire[s] /\ w[i] = wire[s][i]) \/ w[i] = b
        BY <3>3
      <3>5. (w = wire[s] /\ (conn = s => b.ver = lastVer[s])) \/ (w # <<>> /\ w[Len(w)] = b /\ conn = s)
        BY <3>2, <3>3
      <3>6. w \in Seq(Bundles) /\ wire' = [wire EXCEPT ![s] = w]
        BY <3>3
      <3> QED
        BY <3>4, <3>5, <3>6
    <2> QED
      BY <2>1, <2>2
  <1>5. /\ spc'[s] = "select" /\ lastVer'[s] = b.ver /\ wire'[s] = w /\ read'[s] = NothingRead
        /\ \A x \in Streams \ {s} : /\ spc'[x] = spc[x] /\ lastVer'[x] = lastVer[x]
                                    /\ wire'[x] = wire[x] /\ read'[x] = read[x]
    BY <1>1, <1>4 DEF PolicyTypeOK
  <1>6. PolicyTypeOK'
    BY <1>1, <1>2, <1>4 DEF PolicyTypeOK
  <1>7. RuleInv' /\ ClockInv'
    <2>1. \A i \in DOMAIN w : w[i].ver <= stamp
      BY <1>2, <1>4 DEF ClockInv
    <2>2. 0 <= stamp
      BY DEF PolicyTypeOK
    <2> QED
      BY <1>1, <1>2, <1>5, <2>1, <2>2 DEF RuleInv, ClockInv, Bumped
  <1>8. CarryInv'
    <2> SUFFICES ASSUME NEW q \in Rules, OnlyLabel(q)
                 PROVE \A x \in Streams :
                         /\ read'[x].ver = labelOf[q] => read'[x].pol = home[q]
                         /\ \A i \in DOMAIN wire'[x] : wire'[x][i].ver = labelOf[q] => q \in wire'[x][i].rules
      BY <1>1 DEF CarryInv, OnlyLabel
    <2>1. b.ver = labelOf[q] => q \in b.rules
      <3>1. read[s].ver = labelOf[q] => read[s].pol = home[q]
        BY DEF CarryInv
      <3> QED
        BY <1>2, <3>1
    <2>2. \A i \in DOMAIN w : w[i].ver = labelOf[q] => q \in w[i].rules
      BY <1>4, <2>1 DEF CarryInv
    <2>3. labelOf[q] # 0
      BY DEF OnlyLabel
    <2> SUFFICES ASSUME NEW x \in Streams
                 PROVE  /\ read'[x].ver = labelOf[q] => read'[x].pol = home[q]
                        /\ \A i \in DOMAIN wire'[x] : wire'[x][i].ver = labelOf[q] => q \in wire'[x][i].rules
      OBVIOUS
    <2>4. CASE x = s
      BY <1>5, <2>2, <2>3, <2>4
    <2>5. CASE x # s
      <3>1. wire'[x] = wire[x] /\ read'[x] = read[x]
        BY <1>5, <2>5
      <3> QED
        BY <3>1 DEF CarryInv
    <2> QED
      BY <2>4, <2>5
  <1>9. WireInv'
    <2>1. \A x \in Streams : x # conn => wire'[x] = <<>>
      BY <1>4, <1>5 DEF WireInv
    <2>2. ASSUME conn # NoStream
          PROVE  /\ spc'[conn] # "closed"
                 /\ lastVer'[conn] = IF wire'[conn] = <<>> THEN engine.ver ELSE wire'[conn][Len(wire'[conn])].ver
      <3>1. CASE conn = s
        BY <1>4, <1>5, <2>2, <3>1 DEF WireInv
      <3>2. CASE conn # s
        BY <1>5, <2>2, <3>2 DEF WireInv, PolicyTypeOK
      <3> QED
        BY <3>1, <3>2
    <2> QED
      BY <1>1, <2>1, <2>2 DEF WireInv
  <1>10. WakeInv'
    <2>1. Unpublished' = Unpublished /\ Current' = Current
      BY <1>1 DEF Unpublished, Current
    <2> QED
      BY <1>1, <1>2, <1>5, <2>1 DEF WakeInv
  <1> QED
    BY <1>6, <1>7, <1>8, <1>9, <1>10

\* A loop that wakes up or ends asks for nothing it would not be sent.
LEMMA LoopInv ==
    ASSUME PolicyInv, NEW s \in Streams, Wake(s) \/ StreamEnds(s)
    PROVE  PolicyInv'
  <1> USE LabelTypes, NullsAssumption DEF PolicyInv
  <1>0. UNCHANGED <<version, updated, home, assigned, stamp, ruleCall, assignCall, labelOf, engine>>
    BY DEF Wake, StreamEnds, dbVars, callVars, receiverVars
  <1>1. /\ spc'[s] \in {"query", "closed"} /\ notify'[s] = FALSE
        /\ \A x \in Streams \ {s} : /\ spc'[x] = spc[x] /\ notify'[x] = notify[x] /\ lastVer'[x] = lastVer[x]
                                    /\ read'[x] = read[x] /\ wire'[x] = wire[x]
    BY DEF Wake, StreamEnds, dbVars, callVars, receiverVars, PolicyTypeOK
  <1>2. PolicyTypeOK'
    <2>1. spc' \in [Streams -> {"closed", "query", "rules", "select"}] /\ notify' \in [Streams -> BOOLEAN]
      BY DEF Wake, StreamEnds, PolicyTypeOK
    <2>2. lastVer' \in [Streams -> Labels] /\ read' \in [Streams -> [ver : Labels, pol : Policies \cup {NoPolicy}]]
      <3>1. CASE Wake(s)
        BY <3>1 DEF Wake, PolicyTypeOK
      <3>2. CASE StreamEnds(s)
        BY <3>2 DEF StreamEnds, PolicyTypeOK
      <3> QED
        BY <3>1, <3>2
    <2>3. wire' \in [Streams -> Seq(Bundles)] /\ conn' \in Streams \cup {NoStream}
      <3>1. CASE Wake(s)
        BY <3>1 DEF Wake, receiverVars, PolicyTypeOK
      <3>2. CASE StreamEnds(s)
        BY <3>2 DEF StreamEnds, PolicyTypeOK
      <3> QED
        BY <3>1, <3>2
    <2> QED
      BY <1>0, <2>1, <2>2, <2>3 DEF PolicyTypeOK
  <1>3. \/ lastVer'[s] = lastVer[s] /\ read'[s] = read[s] /\ wire'[s] = wire[s] /\ conn' = conn /\ spc'[s] = "query"
        \/ lastVer'[s] = 0 /\ read'[s] = NothingRead /\ wire'[s] = <<>> /\ conn' = IF conn = s THEN NoStream ELSE conn
    BY DEF Wake, StreamEnds, receiverVars, PolicyTypeOK
  <1>4. RuleInv' /\ ClockInv'
    <2>1. 0 <= stamp
      BY DEF PolicyTypeOK
    <2> QED
      BY <1>0, <1>1, <1>3, <2>1 DEF RuleInv, ClockInv, Bumped
  <1>5. CarryInv'
    <2> SUFFICES ASSUME NEW q \in Rules, OnlyLabel(q)
                 PROVE \A x \in Streams :
                         /\ read'[x].ver = labelOf[q] => read'[x].pol = home[q]
                         /\ \A i \in DOMAIN wire'[x] : wire'[x][i].ver = labelOf[q] => q \in wire'[x][i].rules
      BY <1>0 DEF CarryInv, OnlyLabel
    <2>1. labelOf[q] # 0
      BY DEF OnlyLabel
    <2> QED
      BY <1>1, <1>3, <2>1 DEF CarryInv
  <1>6. WireInv'
    <2>1. \A x \in Streams : x # conn' => wire'[x] = <<>>
      BY <1>1, <1>3 DEF WireInv
    <2>2. ASSUME conn' # NoStream
          PROVE  /\ spc'[conn'] # "closed"
                 /\ lastVer'[conn'] = IF wire'[conn'] = <<>> THEN engine.ver ELSE wire'[conn'][Len(wire'[conn'])].ver
      <3>1. conn' = conn /\ conn \in Streams
        BY <1>3, <2>2 DEF PolicyTypeOK
      <3>2. CASE conn = s
        BY <1>3, <2>2, <3>1, <3>2 DEF WireInv
      <3>3. CASE conn # s
        BY <1>1, <2>2, <3>1, <3>3 DEF WireInv
      <3> QED
        BY <3>2, <3>3
    <2> QED
      BY <1>0, <2>1, <2>2 DEF WireInv
  <1>7. WakeInv'
    <2>1. Unpublished' = Unpublished /\ Current' = Current
      BY <1>0 DEF Unpublished, Current
    <2> QED
      BY <1>0, <1>1, <2>1 DEF WakeInv
  <1> QED
    BY <1>2, <1>4, <1>5, <1>6, <1>7

\* The agent reads one bundle.
LEMMA RecvInv == ASSUME PolicyInv, Recv PROVE PolicyInv'
  <1> USE LabelTypes, NullsAssumption DEF PolicyInv
  <1> DEFINE q == wire[conn]
  <1>1. /\ conn \in Streams /\ q \in Seq(Bundles) /\ q # <<>>
        /\ engine' = Head(q) /\ wire' = [wire EXCEPT ![conn] = Tail(q)]
        /\ UNCHANGED <<version, updated, home, assigned, stamp, ruleCall, assignCall, labelOf>>
        /\ UNCHANGED <<spc, notify, lastVer, read, conn>>
    BY DEF Recv, dbVars, callVars, PolicyTypeOK
  <1>2. /\ wire'[conn] = Tail(q) /\ \A x \in Streams \ {conn} : wire'[x] = wire[x]
    BY <1>1 DEF PolicyTypeOK
  <1> HIDE DEF q
  <1>3. /\ Len(q) \in Nat \ {0} /\ Head(q) = q[1] /\ q[1] \in Bundles /\ Tail(q) \in Seq(Bundles)
        /\ Len(Tail(q)) = Len(q) - 1 /\ DOMAIN q = 1 .. Len(q) /\ DOMAIN Tail(q) = 1 .. Len(q) - 1
        /\ \A i \in 1 .. Len(q) - 1 : Tail(q)[i] = q[i + 1]
    BY <1>1
  <1>4. PolicyTypeOK'
    BY <1>1, <1>3 DEF PolicyTypeOK
  <1>5. \A i \in DOMAIN Tail(q) : i + 1 \in DOMAIN q /\ Tail(q)[i] = q[i + 1]
    BY <1>3
  <1>6. 1 \in DOMAIN q
    BY <1>3
  <1>7. RuleInv' /\ ClockInv'
    <2>1. \A i \in DOMAIN q : q[i].ver <= stamp
      BY <1>1 DEF ClockInv, q
    <2> QED
      BY <1>1, <1>2, <1>3, <1>5, <1>6, <2>1 DEF RuleInv, ClockInv, Bumped
  <1>8. CarryInv'
    <2> SUFFICES ASSUME NEW r \in Rules, OnlyLabel(r)
                 PROVE /\ \A x \in Streams :
                            \A i \in DOMAIN wire'[x] : wire'[x][i].ver = labelOf[r] => r \in wire'[x][i].rules
                       /\ engine'.ver = labelOf[r] => r \in engine'.rules
      BY <1>1 DEF CarryInv, OnlyLabel
    <2>1. \A i \in DOMAIN q : q[i].ver = labelOf[r] => r \in q[i].rules
      BY <1>1 DEF CarryInv, q
    <2> QED
      BY <1>1, <1>2, <1>3, <1>5, <1>6, <2>1 DEF CarryInv
  <1>9. WireInv'
    <2>1. \A x \in Streams : x # conn => wire'[x] = <<>>
      BY <1>2 DEF WireInv
    <2>2. spc[conn] # "closed" /\ lastVer[conn] = q[Len(q)].ver
      BY <1>1 DEF WireInv, q
    <2>3. lastVer[conn] = IF Tail(q) = <<>> THEN engine'.ver ELSE Tail(q)[Len(Tail(q))].ver
      <3>1. CASE Len(q) = 1
        <4>1. Tail(q) = <<>>
          BY <1>3, <3>1
        <4> QED
          BY <1>1, <1>3, <2>2, <3>1, <4>1
      <3>2. CASE Len(q) # 1
        <4>1. Tail(q) # <<>> /\ Len(q) - 1 \in 1 .. Len(q) - 1 /\ (Len(q) - 1) + 1 = Len(q)
          <5>1. Len(q) - 1 \in Nat \ {0} /\ Len(Tail(q)) # 0
            BY <1>3, <3>2
          <5> QED
            BY <5>1, <1>3
        <4> QED
          BY <1>3, <2>2, <4>1
      <3> QED
        BY <3>1, <3>2
    <2> QED
      BY <1>1, <1>2, <2>1, <2>2, <2>3 DEF WireInv
  <1>10. WakeInv'
    <2>1. Unpublished' = Unpublished /\ Current' = Current
      BY <1>1 DEF Unpublished, Current
    <2> QED
      BY <1>1, <2>1 DEF WakeInv
  <1> QED
    BY <1>4, <1>7, <1>8, <1>9, <1>10

\* The agent loses its connection, or its bundle with it.
LEMMA DisconnectInv == ASSUME PolicyInv, ConnectionLost \/ ReceiverRestarts PROVE PolicyInv'
  <1> USE LabelTypes, NullsAssumption DEF PolicyInv
  <1>1. /\ UNCHANGED <<version, updated, home, assigned, stamp, ruleCall, assignCall, labelOf>>
        /\ UNCHANGED <<spc, notify, lastVer, read>>
        /\ conn' = NoStream /\ engine' \in {engine, EmptyEngine}
    BY DEF ConnectionLost, ReceiverRestarts, dbVars, callVars
  <1>2. wire' \in [Streams -> Seq(Bundles)] /\ \A x \in Streams : wire'[x] = <<>>
    <2>1. CASE ConnectionLost
      BY <2>1 DEF ConnectionLost, PolicyTypeOK, WireInv
    <2>2. CASE ReceiverRestarts
      BY <2>2 DEF ReceiverRestarts
    <2> QED
      BY <2>1, <2>2
  <1>3. PolicyTypeOK'
    BY <1>1, <1>2 DEF PolicyTypeOK
  <1>4. RuleInv' /\ ClockInv'
    <2>1. 0 <= stamp
      BY DEF PolicyTypeOK
    <2> QED
      BY <1>1, <1>2, <2>1 DEF RuleInv, ClockInv, Bumped
  <1>5. CarryInv'
    BY <1>1, <1>2 DEF CarryInv, OnlyLabel
  <1>6. WireInv'
    BY <1>1, <1>2 DEF WireInv
  <1>7. WakeInv'
    <2>1. Unpublished' = Unpublished /\ Current' = Current
      BY <1>1 DEF Unpublished, Current
    <2> QED
      BY <1>1, <2>1 DEF WakeInv
  <1> QED
    BY <1>3, <1>4, <1>5, <1>6, <1>7

-----------------------------------------------------------------------------
\* PolicyInv is inductive: console calls, stream loops and the agent interleave.
THEOREM PolicyInductive == PolicySpec => []PolicyInv
  <1>1. PolicyInv /\ [PolicyNext]_policyVars => PolicyInv'
    <2> SUFFICES ASSUME PolicyInv, [PolicyNext]_policyVars PROVE PolicyInv'
      OBVIOUS
    <2>1. ASSUME NEW p \in Policies, AssignPolicy(p) \/ PublishAssignment(p) PROVE PolicyInv'
      BY <2>1, AssignPolicyInv
    <2>2. ASSUME NEW r \in Rules, NEW p \in Policies, InsertRule(r, p) PROVE PolicyInv'
      BY <2>2, InsertRuleInv
    <2>3. ASSUME NEW r \in Rules, NEW elapsed \in {0, 1}, BumpPolicyVersion(r, elapsed) PROVE PolicyInv'
      BY <2>3, BumpPolicyInv
    <2>4. ASSUME NEW r \in Rules, PublishRule(r) \/ AddPolicyRuleFails(r) PROVE PolicyInv'
      BY <2>4, PublishRuleInv
    <2>5. ASSUME NEW s \in Streams, StreamPolicies(s) \/ ReadVersion(s) \/ SendIfNewer(s) PROVE PolicyInv'
      BY <2>5, OpenStreamInv, ReadVersionInv, SendIfNewerInv
    <2>6. ASSUME NEW s \in Streams, Wake(s) \/ StreamEnds(s) PROVE PolicyInv'
      BY <2>6, LoopInv
    <2>7. CASE Recv \/ ConnectionLost \/ ReceiverRestarts
      BY <2>7, RecvInv, DisconnectInv
    <2>8. CASE UNCHANGED policyVars
      BY <2>8 DEF policyVars, dbVars, callVars, streamVars, receiverVars, PolicyInv, PolicyTypeOK, ClockInv, RuleInv,
         CarryInv, WireInv, WakeInv, Bumped, OnlyLabel, Unpublished, Current
    <2> QED
      BY <2>1, <2>2, <2>3, <2>4, <2>5, <2>6, <2>7, <2>8 DEF PolicyNext
  <1> QED
    BY <1>1, InitPolicyInv, PTL DEF PolicySpec

\* Every variable of the distribution keeps its type; no label is ever out of range.
THEOREM PolicyTypes == PolicySpec => []PolicyTypeOK
  BY PolicyInductive, PTL DEF PolicyInv

\* AddPolicyRule inserts before it bumps and CurrentPolicy reads the label before the
\* rules: the label of a rule's bump comes with the rule.
THEOREM LabelsCarryRules == PolicySpec => []LabelImpliesRules
  <1>1. PolicyInv => LabelImpliesRules
    BY DEF PolicyInv, CarryInv, OnlyLabel, LabelImpliesRules
  <1> QED
    BY <1>1, PolicyInductive, PTL

\* Coalesced wake-ups suffice: an agent that nobody is about to wake has the label
\* of the current policy, for every number of old streams and overlapping calls.
THEOREM WakeUpsSuffice == PolicySpec => []NoLostWakeup
  <1>1. PolicyInv => NoLostWakeup
    <2> SUFFICES ASSUME PolicyInv, CallsSettled, StreamIdle, assigned # {} PROVE engine.ver = version[Current]
      BY DEF NoLostWakeup
    <2>1. ~Unpublished
      BY DEF Unpublished, CallsSettled
    <2>2. conn \in Streams /\ lastVer[conn] = version[Current]
      BY <2>1 DEF PolicyInv, PolicyTypeOK, WakeInv, StreamIdle
    <2> QED
      BY <2>2 DEF PolicyInv, WireInv, StreamIdle
  <1> QED
    BY <1>1, PolicyInductive, PTL

-----------------------------------------------------------------------------
(* The export tap: TelemetryPlane *)

\* The set of reservations is finite, so it can be counted.
LEMMA ReservedFinite == IsFiniteSet(Reserved) /\ Cardinality(Reserved) \in Nat
  <1>1. Reserved \subseteq Observers
    BY DEF Reserved
  <1>2. IsFiniteSet(Reserved)
    BY <1>1, FS_Subset, ObserversAssumption
  <1> QED
    BY <1>2, FS_CardinalityType

\* A successful compare-and-swap of Acquire adds one reservation.
LEMMA ReserveOne ==
    ASSUME TapTypeOK, NEW o \in Observers, obs[o] # "enqueue",
           obs' = [obs EXCEPT ![o] = "enqueue"]
    PROVE  Cardinality(Reserved') = Cardinality(Reserved) + 1
  <1>1. Reserved' = Reserved \cup {o}
    BY DEF Reserved, TapTypeOK
  <1>2. o \notin Reserved
    BY DEF Reserved
  <1> QED
    BY <1>1, <1>2, ReservedFinite, FS_AddElement

\* A send or a drop in ObserveProcessed uses one reservation up.
LEMMA UnreserveOne ==
    ASSUME TapTypeOK, NEW o \in Observers, obs[o] = "enqueue",
           obs' = [obs EXCEPT ![o] = "idle"]
    PROVE  Cardinality(Reserved') = Cardinality(Reserved) - 1
  <1>1. Reserved' = Reserved \ {o}
    BY DEF Reserved, TapTypeOK
  <1>2. o \in Reserved
    BY DEF Reserved
  <1> QED
    BY <1>1, <1>2, ReservedFinite, FS_RemoveElement

\* The other steps of an observer reserve nothing.
LEMMA ReserveNone ==
    ASSUME TapTypeOK, NEW o \in Observers, obs[o] # "enqueue",
           NEW step \in {"idle", "load", "cas"},
           obs' = [obs EXCEPT ![o] = step]
    PROVE  Reserved' = Reserved
  BY DEF Reserved, TapTypeOK

\* An observer that holds a slot leaves room for its record in the queue.
LEMMA RoomForReservation ==
    ASSUME TapInv, NEW o \in Reserved
    PROVE  Len(ch) < MaxQueueDepth /\ depth > 0
  <1>1. Cardinality(Reserved) # 0
    BY ReservedFinite, FS_EmptySet
  <1>2. Cardinality(Reserved) \in Nat /\ Len(ch) \in Nat /\ Busy \in {0, 1}
    BY ReservedFinite DEF TapInv, TapTypeOK, Busy
  <1>3. depth = Len(ch) + Cardinality(Reserved) + Busy /\ depth <= MaxQueueDepth
    BY DepthAssumption DEF TapInv, TapTypeOK, DepthIsExact
  <1> QED
    BY <1>1, <1>2, <1>3, DepthAssumption

-----------------------------------------------------------------------------
\* New's plane satisfies the invariant.
LEMMA InitTapInv == Init => TapInv
  <1> SUFFICES ASSUME Init PROVE TapInv
    OBVIOUS
  <1>a. ch \in Seq(Priorities) /\ Len(ch) <= MaxQueueDepth
    BY DepthAssumption DEF Init
  <1>b. depth \in 0 .. MaxQueueDepth /\ loaded \in [Observers -> 0 .. MaxQueueDepth]
    BY DepthAssumption DEF Init
  <1>c. /\ obs \in [Observers -> {"idle", "load", "cas", "enqueue"}]
        /\ prio \in [Observers -> Priorities]
    BY DEF Init, Priorities
  <1>d. /\ running \in BOOLEAN /\ done \in BOOLEAN
        /\ caller \in {"idle", "close", "wait"}
        /\ worker \in {"off", "select", "drain"}
        /\ rec \in Priorities \cup {None}
    BY DEF Init
  <1>1. TapTypeOK
    BY <1>a, <1>b, <1>c, <1>d DEF TapTypeOK
  <1>2. Reserved = {}
    BY DEF Init, Reserved
  <1>3. DepthIsExact
    BY <1>2, FS_EmptySet DEF Init, DepthIsExact, Busy
  <1>4. LifeInv /\ CasInv
    BY DEF Init, LifeInv, CasInv
  <1> QED
    BY <1>1, <1>3, <1>4 DEF TapInv

\* Every step of Start, Stop, run, emit and ObserveProcessed preserves it.
LEMMA NextTapInv == TapInv /\ [Next]_vars => TapInv'
  <1> SUFFICES ASSUME TapInv, [Next]_vars PROVE TapInv'
    OBVIOUS
  <1> USE DEF TapInv
  <1>0. /\ Cardinality(Reserved) \in Nat /\ Len(ch) \in Nat
        /\ depth \in 0 .. MaxQueueDepth /\ MaxQueueDepth \in Nat
    BY ReservedFinite, DepthAssumption DEF TapTypeOK
  <1>1. CASE Start \/ Stop \/ CloseDone \/ StopReturns \/ DoneSeen \/ Drained
    <2>1. UNCHANGED <<rec, ch, depth, obsVars>>
      BY <1>1 DEF Start, Stop, CloseDone, StopReturns, DoneSeen, Drained
    <2>2. TapTypeOK'
      BY <1>1, <2>1 DEF TapTypeOK, Start, Stop, CloseDone, StopReturns, DoneSeen, Drained, lifeVars, obsVars
    <2>3. DepthIsExact'
      BY <2>1 DEF DepthIsExact, Reserved, Busy, obsVars
    <2>4. LifeInv'
      BY <1>1, <2>1 DEF LifeInv, TapTypeOK, Start, Stop, CloseDone, StopReturns, DoneSeen, Drained, lifeVars
    <2>5. CasInv'
      BY <2>1 DEF CasInv, obsVars
    <2> QED
      BY <2>2, <2>3, <2>4, <2>5
  <1>2. CASE Receive
    <2>1. /\ rec = None /\ rec' = Head(ch) /\ ch' = Tail(ch) /\ ch # <<>>
          /\ UNCHANGED <<lifeVars, worker, depth, obsVars>> /\ worker # "off"
      BY <1>2 DEF Receive
    <2>2. ch' \in Seq(Priorities) /\ Len(ch') = Len(ch) - 1 /\ rec' \in Priorities
      BY <2>1 DEF TapTypeOK
    <2>3. TapTypeOK'
      BY <1>0, <2>1, <2>2 DEF TapTypeOK, lifeVars, obsVars
    <2>4. Busy = 0 /\ Busy' = 1 /\ Reserved' = Reserved
      BY <2>1, <2>2 DEF Busy, None, Priorities, Reserved, obsVars
    <2>5. DepthIsExact'
      BY <1>0, <2>1, <2>2, <2>4 DEF DepthIsExact
    <2>6. LifeInv'
      BY <2>1 DEF LifeInv, lifeVars
    <2>7. CasInv'
      BY <2>1 DEF CasInv, obsVars
    <2> QED
      BY <2>3, <2>5, <2>6, <2>7
  <1>3. CASE Emit
    <2>1. /\ rec # None /\ rec' = None
          /\ UNCHANGED <<lifeVars, worker, ch, obsVars>>
      BY <1>3 DEF Emit
    <2>2. Busy = 1 /\ Busy' = 0 /\ Reserved' = Reserved
      BY <2>1 DEF Busy, Reserved, obsVars
    <2>3. depth' = depth - 1 /\ depth > 0
      BY <1>0, <1>3, <2>2 DEF Emit, Release, DepthIsExact
    <2>4. TapTypeOK'
      BY <1>0, <2>1, <2>3 DEF TapTypeOK, lifeVars, obsVars
    <2>5. DepthIsExact'
      BY <1>0, <2>1, <2>2, <2>3 DEF DepthIsExact
    <2>6. LifeInv'
      BY <2>1 DEF LifeInv, lifeVars
    <2>7. CasInv'
      BY <2>1 DEF CasInv, obsVars
    <2> QED
      BY <2>4, <2>5, <2>6, <2>7
  <1>4. ASSUME NEW o \in Observers, \E p \in Priorities : ObserveProcessed(o, p)
        PROVE  TapInv'
    <2>1. /\ obs[o] = "idle" /\ obs' = [obs EXCEPT ![o] = "load"]
          /\ UNCHANGED <<lifeVars, worker, rec, ch, depth, loaded>>
      BY <1>4 DEF ObserveProcessed, At
    <2>2. TapTypeOK'
      BY <1>4, <2>1 DEF TapTypeOK, ObserveProcessed, lifeVars
    <2>3. DepthIsExact'
      BY <2>1, ReserveNone DEF DepthIsExact, Busy
    <2>4. LifeInv'
      BY <2>1 DEF LifeInv, lifeVars
    <2>5. CasInv'
      BY <1>4, <2>1 DEF CasInv, TapTypeOK, ObserveProcessed
    <2> QED
      BY <2>2, <2>3, <2>4, <2>5
  <1>5. ASSUME NEW o \in Observers, Load(o) \/ Cancelled(o)
        PROVE  TapInv'
    <2>1. PICK step \in {"idle", "cas"} :
             /\ obs[o] = "load" /\ obs' = [obs EXCEPT ![o] = step]
             /\ UNCHANGED <<lifeVars, worker, rec, ch, depth, prio>>
      BY <1>5 DEF Load, Cancelled, At
    <2>2. TapTypeOK'
      BY <1>0, <1>5, <2>1 DEF TapTypeOK, Load, Cancelled, lifeVars
    <2>3. DepthIsExact'
      BY <2>1, ReserveNone DEF DepthIsExact, Busy
    <2>4. LifeInv'
      BY <2>1 DEF LifeInv, lifeVars
    <2>5. CasInv'
      BY <1>5, <2>1 DEF CasInv, TapTypeOK, Load, Cancelled, At
    <2> QED
      BY <2>2, <2>3, <2>4, <2>5
  <1>6. ASSUME NEW o \in Observers, CompareAndSwap(o)
        PROVE  TapInv'
    <2>1. obs[o] = "cas" /\ UNCHANGED <<lifeVars, worker, rec, ch, prio, loaded>>
      BY <1>6 DEF CompareAndSwap
    <2>2. LifeInv' /\ CasInv'
      BY <1>6, <2>1 DEF LifeInv, CasInv, TapTypeOK, CompareAndSwap, At, lifeVars
    <2>3. CASE depth = loaded[o]
      <3>1. depth' = depth + 1 /\ obs' = [obs EXCEPT ![o] = "enqueue"]
        BY <1>6, <2>3 DEF CompareAndSwap, At
      <3>2. Cardinality(Reserved') = Cardinality(Reserved) + 1
        BY <2>1, <3>1, ReserveOne
      <3>3. DepthIsExact'
        BY <1>0, <2>1, <3>1, <3>2 DEF DepthIsExact, Busy
      <3>4. depth < MaxQueueDepth
        BY <2>1, <2>3 DEF CasInv, Admits
      <3>5. TapTypeOK'
        BY <1>0, <2>1, <3>1, <3>4 DEF TapTypeOK, lifeVars
      <3> QED
        BY <2>2, <3>3, <3>5
    <2>4. CASE depth # loaded[o]
      <3>1. depth' = depth /\ obs' = [obs EXCEPT ![o] = "load"]
        BY <1>6, <2>4 DEF CompareAndSwap, At
      <3>2. DepthIsExact'
        BY <2>1, <3>1, ReserveNone DEF DepthIsExact, Busy
      <3>3. TapTypeOK'
        BY <2>1, <3>1 DEF TapTypeOK, lifeVars
      <3> QED
        BY <2>2, <3>2, <3>3
    <2> QED
      BY <2>3, <2>4
  <1>7. ASSUME NEW o \in Observers, Enqueue(o)
        PROVE  TapInv'
    <2>1. /\ obs[o] = "enqueue" /\ obs' = [obs EXCEPT ![o] = "idle"]
          /\ UNCHANGED <<lifeVars, worker, rec, prio, loaded>>
      BY <1>7 DEF Enqueue, At
    <2>2. Cardinality(Reserved') = Cardinality(Reserved) - 1 /\ Busy' = Busy /\ Busy \in {0, 1}
      BY <2>1, UnreserveOne DEF Busy
    <2>3. Len(ch) < MaxQueueDepth /\ depth > 0
      BY <2>1, RoomForReservation DEF Reserved
    <2>4. CasInv'
      BY <2>1 DEF CasInv, TapTypeOK
    <2>5. CASE running
      <3>1. ch' = Append(ch, prio[o]) /\ depth' = depth /\ prio[o] \in Priorities
        BY <1>7, <2>3, <2>5 DEF Enqueue, TapTypeOK
      <3>2. ch' \in Seq(Priorities) /\ Len(ch') = Len(ch) + 1
        BY <3>1 DEF TapTypeOK
      <3>3. TapTypeOK'
        BY <1>0, <2>1, <2>3, <3>1, <3>2 DEF TapTypeOK, lifeVars
      <3>4. DepthIsExact'
        BY <1>0, <2>2, <3>1, <3>2 DEF DepthIsExact
      <3>5. LifeInv'
        BY <2>1, <2>5 DEF LifeInv, lifeVars
      <3> QED
        BY <2>4, <3>3, <3>4, <3>5
    <2>6. CASE ~running
      <3>1. ch' = ch /\ depth' = depth - 1
        BY <1>0, <1>7, <2>3, <2>6 DEF Enqueue, Release
      <3>2. TapTypeOK'
        BY <1>0, <2>1, <2>3, <3>1 DEF TapTypeOK, lifeVars
      <3>3. DepthIsExact'
        BY <1>0, <2>2, <3>1 DEF DepthIsExact
      <3>4. LifeInv'
        BY <2>1, <3>1 DEF LifeInv, lifeVars
      <3> QED
        BY <2>4, <3>2, <3>3, <3>4
    <2> QED
      BY <2>5, <2>6
  <1>8. CASE UNCHANGED vars
    BY <1>8 DEF vars, lifeVars, obsVars, TapTypeOK, LifeInv, DepthIsExact, Reserved, Busy, CasInv
  <1> QED
    BY <1>1, <1>2, <1>3, <1>4, <1>5, <1>6, <1>7, <1>8 DEF Next

\* Every reachable state of the tap satisfies the invariant.
THEOREM TapInductive == Spec => []TapInv
  <1> QED
    BY InitTapInv, NextTapInv, PTL DEF Spec

\* The tap's state is well typed: in particular the queue and the depth of the
\* BackpressureController never exceed the configured queue depth.
THEOREM TapTypeCorrect == Spec => []TapTypeOK
  <1>1. TapInv => TapTypeOK
    BY DEF TapInv
  <1> QED
    BY <1>1, TapInductive, PTL

\* currentDepth counts the slots in use exactly, for any number of goroutines in
\* Acquire, Release and emit.
THEOREM DepthCountsSlots == Spec => []DepthIsExact
  <1>1. TapInv => DepthIsExact
    BY DEF TapInv
  <1> QED
    BY <1>1, TapInductive, PTL

\* The default branch of ObserveProcessed's send is dead code: whoever acquired a
\* slot finds room in the queue.
THEOREM ReservationsAreHonoured == Spec => []ReservationSuffices
  <1>1. TapInv => ReservationSuffices
    BY RoomForReservation DEF ReservationSuffices
  <1> QED
    BY <1>1, TapInductive, PTL

\* The tap accounts for its slots.
THEOREM SlotsAreAccounted == Spec => []TapAccounts
  <1> QED
    BY TapTypeCorrect, DepthCountsSlots, ReservationsAreHonoured, PTL DEF TapAccounts

\* When Stop has returned every accepted record has been emitted.
THEOREM StopDrains == Spec => []StoppedIsDrained
  <1>1. TapInv => StoppedIsDrained
    BY DEF TapInv, LifeInv, StoppedIsDrained
  <1> QED
    BY <1>1, TapInductive, PTL

-----------------------------------------------------------------------------
(* Headroom for the findings *)

\* The three places of a telemetry record that holds a slot.
InfoAt(s) == {i \in DOMAIN s : s[i] = "INFO"}
InfoHeld == {o \in Reserved : prio[o] = "INFO"}
InfoBusy == IF rec = "INFO" THEN 1 ELSE 0

\* The watermark is inductive together with the exact depth that Acquire tests.
HeadroomInv == TapInv /\ FindingsKeepHeadroom

\* The telemetry in a queue can be counted and is at most the queue.
LEMMA InfoAtBounded ==
    ASSUME NEW s \in Seq(Priorities)
    PROVE  /\ IsFiniteSet(InfoAt(s)) /\ Cardinality(InfoAt(s)) \in Nat
           /\ Cardinality(InfoAt(s)) <= Len(s)
  <1>1. Len(s) \in Nat /\ InfoAt(s) \in SUBSET (1 .. Len(s))
    BY DEF InfoAt
  <1>2. IsFiniteSet(1 .. Len(s)) /\ Cardinality(1 .. Len(s)) = Len(s)
    <2>1. 1 \in Int /\ Len(s) \in Int
      BY <1>1
    <2>2. /\ IsFiniteSet(1 .. Len(s))
          /\ Cardinality(1 .. Len(s)) = IF 1 > Len(s) THEN 0 ELSE Len(s) - 1 + 1
      BY <2>1, FS_Interval
    <2> QED
      BY <1>1, <2>2
  <1>3. IsFiniteSet(InfoAt(s)) /\ Cardinality(InfoAt(s)) <= Cardinality(1 .. Len(s))
    BY <1>1, <1>2, FS_Subset
  <1> QED
    BY <1>2, <1>3, FS_CardinalityType

\* A send adds its record.
LEMMA InfoAtAppend ==
    ASSUME NEW s \in Seq(Priorities), NEW p \in Priorities
    PROVE  Cardinality(InfoAt(Append(s, p)))
             = Cardinality(InfoAt(s)) + (IF p = "INFO" THEN 1 ELSE 0)
  <1>1. /\ Len(s) \in Nat /\ DOMAIN s = 1 .. Len(s)
        /\ DOMAIN Append(s, p) = 1 .. Len(s) + 1
        /\ \A i \in 1 .. Len(s) : Append(s, p)[i] = s[i]
        /\ Append(s, p)[Len(s) + 1] = p
    OBVIOUS
  <1>2. IsFiniteSet(InfoAt(s)) /\ Len(s) + 1 \notin InfoAt(s)
    <2>1. IsFiniteSet(InfoAt(s))
      BY InfoAtBounded
    <2>2. Len(s) + 1 \notin InfoAt(s)
      BY <1>1 DEF InfoAt
    <2> QED
      BY <2>1, <2>2
  <1>3. CASE p = "INFO"
    <2>1. InfoAt(Append(s, p)) = InfoAt(s) \cup {Len(s) + 1}
      BY <1>1, <1>3 DEF InfoAt
    <2> QED
      BY <1>2, <1>3, <2>1, FS_AddElement
  <1>4. CASE p # "INFO"
    <2>1. InfoAt(Append(s, p)) = InfoAt(s)
      BY <1>1, <1>4 DEF InfoAt
    <2> QED
      BY <1>4, <2>1, InfoAtBounded
  <1> QED
    BY <1>3, <1>4

\* The worker takes the first record away.
LEMMA InfoAtTail ==
    ASSUME NEW s \in Seq(Priorities), s # <<>>
    PROVE  Cardinality(InfoAt(Tail(s)))
             = Cardinality(InfoAt(s)) - (IF Head(s) = "INFO" THEN 1 ELSE 0)
  <1>1. /\ Len(s) \in Nat \ {0} /\ DOMAIN s = 1 .. Len(s) /\ Head(s) = s[1]
        /\ DOMAIN Tail(s) = 1 .. Len(s) - 1
        /\ \A i \in 1 .. Len(s) - 1 : Tail(s)[i] = s[i + 1]
        /\ Tail(s) \in Seq(Priorities)
    OBVIOUS
  <1>2. IsFiniteSet(InfoAt(s)) /\ IsFiniteSet(InfoAt(Tail(s)))
    BY <1>1, InfoAtBounded
  <1> DEFINE Rest == InfoAt(s) \ {1}
             next == [i \in InfoAt(Tail(s)) |-> i + 1]
  <1>3. next \in [InfoAt(Tail(s)) -> Rest]
    BY <1>1 DEF InfoAt
  <1>4. \A i, j \in InfoAt(Tail(s)) : next[i] = next[j] => i = j
    BY <1>1 DEF InfoAt
  <1>5. \A k \in Rest : \E i \in InfoAt(Tail(s)) : next[i] = k
    <2> TAKE k \in Rest
    <2>1. k \in 2 .. Len(s) /\ k - 1 \in 1 .. Len(s) - 1 /\ s[k] = "INFO"
      BY <1>1 DEF InfoAt
    <2>2. k - 1 \in InfoAt(Tail(s)) /\ (k - 1) + 1 = k
      BY <1>1, <2>1 DEF InfoAt
    <2>3. next[k - 1] = k
      BY <2>2
    <2> QED
      BY <2>2, <2>3
  <1>6. next \in Bijection(InfoAt(Tail(s)), Rest)
    BY <1>3, <1>4, <1>5, Fun_IsBij
  <1>7. ExistsBijection(InfoAt(Tail(s)), Rest)
    BY <1>6 DEF ExistsBijection
  <1>8. Cardinality(Rest) = Cardinality(InfoAt(Tail(s)))
    BY <1>2, <1>7, FS_Bijection
  <1>9. 1 \in InfoAt(s) <=> Head(s) = "INFO"
    BY <1>1 DEF InfoAt
  <1>10. Cardinality(InfoAt(s)) \in Nat
    BY InfoAtBounded
  <1>11. Cardinality(Rest) = IF 1 \in InfoAt(s) THEN Cardinality(InfoAt(s)) - 1
                                                ELSE Cardinality(InfoAt(s))
    BY <1>2, FS_RemoveElement
  <1> QED
    BY <1>8, <1>9, <1>10, <1>11

\* The telemetry among the reservations can be counted and is at most them.
LEMMA InfoHeldBounded ==
    /\ IsFiniteSet(InfoHeld) /\ Cardinality(InfoHeld) \in Nat
    /\ Cardinality(InfoHeld) <= Cardinality(Reserved)
  <1>1. InfoHeld \in SUBSET Reserved
    BY DEF InfoHeld
  <1> QED
    BY <1>1, ReservedFinite, FS_Subset, FS_CardinalityType

\* The slots of telemetry are the queued, the reserved and the emitted one; they
\* are among the slots in use.
LEMMA InfoSlotsSum ==
    ASSUME TapInv
    PROVE  /\ Cardinality(InfoAt(ch)) \in Nat /\ Cardinality(InfoHeld) \in Nat
           /\ InfoSlots = Cardinality(InfoAt(ch)) + Cardinality(InfoHeld) + InfoBusy
           /\ InfoSlots \in Nat /\ InfoSlots <= depth
  <1>1. /\ Cardinality(InfoAt(ch)) \in Nat /\ Cardinality(InfoAt(ch)) <= Len(ch)
        /\ Len(ch) \in Nat
    BY InfoAtBounded DEF TapInv, TapTypeOK
  <1>2. Cardinality(InfoHeld) \in Nat /\ Cardinality(InfoHeld) <= Cardinality(Reserved)
    BY InfoHeldBounded
  <1>3. InfoBusy \in {0, 1} /\ Busy \in {0, 1} /\ InfoBusy <= Busy
    BY DEF InfoBusy, Busy, None
  <1>4. InfoSlots = Cardinality(InfoAt(ch)) + Cardinality(InfoHeld) + InfoBusy
    BY DEF InfoSlots, InfoAt, InfoHeld, InfoBusy
  <1>5. depth = Len(ch) + Cardinality(Reserved) + Busy /\ Cardinality(Reserved) \in Nat
    BY ReservedFinite DEF TapInv, DepthIsExact
  <1> QED
    BY <1>1, <1>2, <1>3, <1>4, <1>5

\* A step that adds no telemetry keeps the headroom.
LEMMA FewerKeepHeadroom ==
    ASSUME NEW n \in Nat, NEW m \in Nat, m <= n, n > 0 => ~High(n - 1)
    PROVE  m > 0 => ~High(m - 1)
  <1> SUFFICES ASSUME m > 0 PROVE ~High(m - 1)
    OBVIOUS
  <1>1. ~High(n - 1) /\ m - 1 <= n - 1
    OBVIOUS
  <1> QED
    BY <1>1, DepthAssumption DEF High

\* Telemetry takes a slot only below the watermark, so Acquire's check of a depth
\* that may be stale still keeps the slots above it for findings.
LEMMA NextHeadroomInv == HeadroomInv /\ [Next]_vars => HeadroomInv'
  <1> SUFFICES ASSUME HeadroomInv, [Next]_vars PROVE HeadroomInv'
    OBVIOUS
  <1>1. TapInv /\ TapInv'
    BY NextTapInv DEF HeadroomInv
  <1>2. /\ Cardinality(InfoAt(ch)) \in Nat /\ Cardinality(InfoHeld) \in Nat
        /\ InfoSlots = Cardinality(InfoAt(ch)) + Cardinality(InfoHeld) + InfoBusy
        /\ InfoSlots \in Nat /\ InfoSlots <= depth
    BY <1>1, InfoSlotsSum
  <1>3. /\ Cardinality(InfoAt(ch'))  \in Nat
        /\ InfoSlots' = Cardinality(InfoAt(ch')) + Cardinality(InfoHeld') + InfoBusy'
        /\ InfoSlots' \in Nat
    <2>1. ch' \in Seq(Priorities)
      BY <1>1 DEF TapInv, TapTypeOK
    <2>2. InfoHeld' \in SUBSET Observers
      BY DEF InfoHeld, Reserved
    <2>3. Cardinality(InfoHeld') \in Nat
      BY <2>2, ObserversAssumption, FS_Subset, FS_CardinalityType
    <2>4. InfoSlots' = Cardinality(InfoAt(ch')) + Cardinality(InfoHeld') + InfoBusy'
      BY DEF InfoSlots, InfoAt, InfoHeld, InfoBusy
    <2>5. Cardinality(InfoAt(ch')) \in Nat
      BY <2>1, InfoAtBounded
    <2>6. InfoBusy' \in {0, 1}
      BY DEF InfoBusy
    <2> QED
      BY <2>3, <2>4, <2>5, <2>6
  <1>4. (InfoSlots > 0 => ~High(InfoSlots - 1)) /\ InfoBusy \in {0, 1}
    BY DEF HeadroomInv, FindingsKeepHeadroom, InfoBusy
  <1>5. SUFFICES \/ InfoSlots' <= InfoSlots
                 \/ ~High(InfoSlots' - 1)
    BY <1>1, <1>2, <1>3, <1>4, FewerKeepHeadroom DEF HeadroomInv, FindingsKeepHeadroom
  <1>6. CASE UNCHANGED <<rec, ch, obs, prio>>
    <2>1. InfoHeld' = InfoHeld /\ InfoBusy' = InfoBusy /\ ch' = ch
      BY <1>6 DEF InfoHeld, Reserved, InfoBusy
    <2> QED
      BY <1>2, <1>3, <2>1
  <1>7. CASE Receive
    <2>1. /\ rec = None /\ rec' = Head(ch) /\ ch' = Tail(ch) /\ ch # <<>>
          /\ obs' = obs /\ prio' = prio
      BY <1>7 DEF Receive, obsVars
    <2>2. InfoHeld' = InfoHeld
      BY <2>1 DEF InfoHeld, Reserved
    <2>3. InfoBusy = 0 /\ InfoBusy' = IF Head(ch) = "INFO" THEN 1 ELSE 0
      BY <2>1 DEF InfoBusy, None
    <2>4. Cardinality(InfoAt(ch')) = Cardinality(InfoAt(ch)) - InfoBusy'
      BY <1>1, <2>1, <2>3, InfoAtTail DEF TapInv, TapTypeOK
    <2> QED
      BY <1>2, <1>3, <2>2, <2>3, <2>4
  <1>8. CASE Emit
    <2>1. rec' = None /\ ch' = ch /\ obs' = obs /\ prio' = prio
      BY <1>8 DEF Emit, obsVars
    <2>2. InfoHeld' = InfoHeld /\ InfoBusy' = 0
      BY <2>1 DEF InfoHeld, Reserved, InfoBusy, None
    <2> QED
      BY <1>2, <1>3, <1>4, <2>1, <2>2
  <1>9. ASSUME NEW o \in Observers, NEW p \in Priorities, ObserveProcessed(o, p)
        PROVE  InfoSlots' <= InfoSlots
    <2>1. /\ obs[o] = "idle" /\ obs' = [obs EXCEPT ![o] = "load"]
          /\ prio' = [prio EXCEPT ![o] = p] /\ rec' = rec /\ ch' = ch
      BY <1>9 DEF ObserveProcessed, At
    <2>2. InfoHeld' = InfoHeld /\ InfoBusy' = InfoBusy
      BY <1>1, <2>1 DEF InfoHeld, Reserved, InfoBusy, TapInv, TapTypeOK
    <2> QED
      BY <1>2, <1>3, <2>1, <2>2
  <1>10. ASSUME NEW o \in Observers, Load(o) \/ Cancelled(o)
         PROVE  InfoSlots' <= InfoSlots
    <2>1. PICK step \in {"idle", "cas"} :
             /\ obs[o] = "load" /\ obs' = [obs EXCEPT ![o] = step]
             /\ prio' = prio /\ rec' = rec /\ ch' = ch
      BY <1>10 DEF Load, Cancelled, At
    <2>2. InfoHeld' = InfoHeld /\ InfoBusy' = InfoBusy
      BY <1>1, <2>1 DEF InfoHeld, Reserved, InfoBusy, TapInv, TapTypeOK
    <2> QED
      BY <1>2, <1>3, <2>1, <2>2
  <1>11. ASSUME NEW o \in Observers, CompareAndSwap(o)
         PROVE  InfoSlots' <= InfoSlots \/ ~High(InfoSlots' - 1)
    <2>1. obs[o] = "cas" /\ rec' = rec /\ ch' = ch /\ prio' = prio
      BY <1>11 DEF CompareAndSwap
    <2>2. InfoBusy' = InfoBusy
      BY <2>1 DEF InfoBusy
    <2>3. CASE depth = loaded[o] /\ prio[o] = "INFO"
      <3>1. obs' = [obs EXCEPT ![o] = "enqueue"]
        BY <1>11, <2>3 DEF CompareAndSwap, At
      <3>2. InfoHeld' = InfoHeld \cup {o} /\ o \notin InfoHeld
        BY <1>1, <2>1, <2>3, <3>1 DEF InfoHeld, Reserved, TapInv, TapTypeOK
      <3>3. Cardinality(InfoHeld') = Cardinality(InfoHeld) + 1
        BY <3>2, InfoHeldBounded, FS_AddElement
      <3>4. InfoSlots' = InfoSlots + 1
        BY <1>2, <1>3, <1>4, <2>1, <2>2, <3>3
      <3>5. ~High(depth) /\ depth \in Nat
        BY <1>1, <2>1, <2>3, DepthAssumption DEF TapInv, TapTypeOK, CasInv, Admits
      <3>6. InfoSlots' - 1 <= depth /\ InfoSlots' - 1 \in Nat
        BY <1>2, <3>4
      <3>7. ~High(InfoSlots' - 1)
        BY <3>5, <3>6, DepthAssumption DEF High
      <3> QED
        BY <3>7
    <2>4. CASE ~(depth = loaded[o] /\ prio[o] = "INFO")
      <3>1. PICK step \in {"enqueue", "load"} :
               /\ obs' = [obs EXCEPT ![o] = step]
               /\ step = "enqueue" => prio[o] # "INFO"
        BY <1>11, <2>4 DEF CompareAndSwap, At
      <3>2. InfoHeld' = InfoHeld
        BY <1>1, <2>1, <3>1 DEF InfoHeld, Reserved, TapInv, TapTypeOK
      <3> QED
        BY <1>2, <1>3, <2>1, <2>2, <3>2
    <2> QED
      BY <2>3, <2>4
  <1>12. ASSUME NEW o \in Observers, Enqueue(o)
         PROVE  InfoSlots' <= InfoSlots
    <2>1. /\ obs[o] = "enqueue" /\ obs' = [obs EXCEPT ![o] = "idle"]
          /\ rec' = rec /\ prio' = prio
          /\ ch' \in {ch, Append(ch, prio[o])}
      BY <1>12 DEF Enqueue, At
    <2>2. InfoBusy' = InfoBusy /\ prio[o] \in Priorities /\ ch \in Seq(Priorities)
      BY <1>1, <2>1 DEF InfoBusy, TapInv, TapTypeOK
    <2>3. InfoHeld' = InfoHeld \ {o}
      BY <1>1, <2>1 DEF InfoHeld, Reserved, TapInv, TapTypeOK
    <2>4. o \in InfoHeld <=> prio[o] = "INFO"
      BY <2>1 DEF InfoHeld, Reserved
    <2>5. Cardinality(InfoHeld')
            = Cardinality(InfoHeld) - (IF prio[o] = "INFO" THEN 1 ELSE 0)
      <3>1. /\ IsFiniteSet(InfoHeld)
            /\ Cardinality(InfoHeld \ {o}) = IF o \in InfoHeld THEN Cardinality(InfoHeld) - 1
                                                               ELSE Cardinality(InfoHeld)
        BY InfoHeldBounded, FS_RemoveElement
      <3> QED
        BY <1>2, <2>3, <2>4, <3>1
    <2>6. Cardinality(InfoAt(ch'))
            <= Cardinality(InfoAt(ch)) + (IF prio[o] = "INFO" THEN 1 ELSE 0)
      <3>1. Cardinality(InfoAt(Append(ch, prio[o])))
              = Cardinality(InfoAt(ch)) + (IF prio[o] = "INFO" THEN 1 ELSE 0)
        BY <2>2, InfoAtAppend
      <3>2. CASE ch' = ch
        BY <1>2, <3>2
      <3>3. CASE ch' = Append(ch, prio[o])
        BY <1>2, <3>1, <3>3
      <3> QED
        BY <2>1, <3>2, <3>3
    <2> QED
      BY <1>2, <1>3, <1>4, <2>2, <2>5, <2>6
  <1>13. CASE Start \/ Stop \/ CloseDone \/ StopReturns \/ DoneSeen \/ Drained
    BY <1>6, <1>13 DEF Start, Stop, CloseDone, StopReturns, DoneSeen, Drained, obsVars
  <1>14. CASE UNCHANGED vars
    BY <1>6, <1>14 DEF vars, obsVars
  <1> QED
    BY <1>7, <1>8, <1>9, <1>10, <1>11, <1>12, <1>13, <1>14 DEF Next

\* Raw telemetry is shed before findings: however many goroutines race through
\* Acquire with depths they loaded earlier, telemetry never holds more slots than
\* the high watermark allows.
THEOREM TelemetryLeavesHeadroom == Spec => []FindingsKeepHeadroom
  <1>1. Init => HeadroomInv
    <2> SUFFICES ASSUME Init PROVE HeadroomInv
      OBVIOUS
    <2>1. TapInv
      BY InitTapInv
    <2>2. InfoSlots \in Nat /\ InfoSlots <= 0
      BY <2>1, InfoSlotsSum DEF Init
    <2> QED
      BY <2>1, <2>2 DEF HeadroomInv, FindingsKeepHeadroom
  <1>2. HeadroomInv => FindingsKeepHeadroom
    BY DEF HeadroomInv
  <1> QED
    BY <1>1, <1>2, NextHeadroomInv, PTL DEF Spec

-----------------------------------------------------------------------------
(* The process they live in: Flows *)

\* Run side by side the streams keep what each of them promises alone: a behaviour of the process is a
\* behaviour of every one of them.
THEOREM FlowsKeepTheirPromises ==
    FlowSpec => [](/\ NoSilentLoss /\ ActedOnStored /\ LabelImpliesRules /\ NoLostWakeup
                   /\ TapAccounts /\ StoppedIsDrained /\ FindingsKeepHeadroom)
  <1>1. FlowInit => EventInit /\ PolicyInit /\ Init
    BY DEF FlowInit
  <1>2. [FlowNext]_flowVars => [EventNext]_eventVars /\ [PolicyNext]_policyVars /\ [Next]_vars
    <2>1. UNCHANGED flowVars => UNCHANGED <<eventVars, policyVars, vars>>
      BY DEF flowVars
    <2> QED
      BY <2>1 DEF FlowNext, EventsFlow, PolicyFlows, TapFlows
  <1>3. FlowSpec => EventSpec /\ PolicySpec /\ Spec
    BY <1>1, <1>2, PTL DEF FlowSpec, EventSpec, PolicySpec, Spec
  <1> QED
    BY <1>3, EventNoSilentLoss, EventActedOnStored, LabelsCarryRules, WakeUpsSuffice, SlotsAreAccounted,
       StopDrains, TelemetryLeavesHeadroom, PTL
=============================================================================
