------------------------------ MODULE IngestPath ------------------------------
(* The paths of an event around the detection gates: the ingest API with its   *)
(* deduplication and dead-letter queue, the periodic analysers that read the   *)
(* stored events back and emit findings, and the live bus to the consoles.     *)
EXTENDS Integers, SequencesExt

CONSTANTS MaxSends,   \* times the client sends its batch
          MaxRounds,  \* the clock of the retry loop and of the analysers
          QueueMax,   \* capacity of the dead-letter queue
          DedupWindow, \* how long an identity is remembered
          DedupMax,   \* identities remembered
          BusCap,     \* buffer of a subscriber (32 in the code)
          MaxNotices  \* notices published

ASSUME PathAssumption == MaxSends \in Nat /\ MaxRounds \in Nat /\ QueueMax \in Nat \ {0} /\ DedupWindow \in Nat /\ DedupMax \in Nat \ {0} /\ BusCap \in Nat \ {0} /\ MaxNotices \in Nat

VARIABLES ing,    \* the ingest API and its queue
          scan,   \* one analyser loop
          live    \* the bus
pathVars == <<ing, scan, live>>

-----------------------------------------------------------------------------
(* handleIngest: records 1 and 2 of two sources, sent until the answer is 200  *)
Records == {1, 2}
IngInit ==
  \E dlq, dedup \in BOOLEAN :
    ing = [dlq |-> dlq, dedup |-> dedup, clock |-> 0, seen |-> <<>>, taken |-> [r \in Records |-> <<>>], sends |-> 0, answer |-> 0, left |-> {}, batch |-> {},
           saved |-> [r \in Records |-> 0], done |-> [r \in Records |-> 0], queue |-> <<>>, due |-> <<>>, again |-> <<>>, dropped |-> 0, gone |-> {}]

\* dedup: what is older than the window goes first, then the oldest above the bound
Duplicate(seen, r, now) ==
  LET fresh == SelectSeq(seen, LAMBDA x : now - x.at <= DedupWindow)
      all == Append(fresh, [id |-> r, at |-> now])
  IN IF \E k \in DOMAIN fresh : fresh[k].id = r THEN [dup |-> TRUE, seen |-> fresh]
     ELSE [dup |-> FALSE, seen |-> IF Len(all) > DedupMax THEN Tail(all) ELSE all]
\* Duplicates are marked before anything is stored.
Ingest ==
  /\ ing.sends < MaxSends /\ ing.answer \in {0, 500} /\ ing.left = {} /\ ing.batch = {}
  /\ LET one == Duplicate(ing.seen, 1, ing.clock) two == Duplicate(one.seen, 2, ing.clock)
         fresh == IF ing.dedup THEN {r \in Records : ~(IF r = 1 THEN one ELSE two).dup} ELSE Records
     IN ing' = [ing EXCEPT !.sends = @ + 1, !.seen = IF ing.dedup THEN two.seen ELSE @, !.left = fresh, !.answer = IF fresh = {} THEN 200 ELSE 1,
                           !.taken = [r \in Records |-> IF r \in fresh THEN Append(@[r], ing.clock) ELSE @[r]]]
\* Enqueue drops from the front above its capacity.
Trim(q) == IF Len(q) > QueueMax THEN SubSeq(q, Len(q) - QueueMax + 1, Len(q)) ELSE q
Cut(q) == IF Len(q) > QueueMax THEN ToSet(SubSeq(q, 1, Len(q) - QueueMax)) ELSE {}
Keep(i, q) == [i EXCEPT !.queue = Trim(q), !.dropped = @ + Len(q) - Len(Trim(q)), !.gone = @ \cup {x.rec : x \in Cut(q)}]
Enqueue(i, r) == Keep(i, Append(i.queue, [rec |-> r, attempts |-> 0, next |-> i.clock]))
\* One source after the other, in any order; without a queue the first failure ends the request and
\* what was stored is not processed.
SaveSource ==
  \E r \in ing.left, ok \in BOOLEAN :
    LET i == [ing EXCEPT !.left = @ \ {r}]
    IN ing' = IF ok THEN [i EXCEPT !.saved[r] = @ + 1, !.batch = @ \cup {r}]
              ELSE IF ing.dlq THEN Enqueue(i, r)
              ELSE [i EXCEPT !.left = {}, !.batch = {}, !.answer = 500]
\* The stored batches are processed after all of them are stored; the answer may get lost.
Process ==
  /\ ing.answer = 1 /\ ing.left = {}
  /\ \E arrives \in BOOLEAN :
       ing' = [ing EXCEPT !.done = [r \in Records |-> IF r \in ing.batch THEN @[r] + 1 ELSE @[r]], !.batch = {},
                          !.answer = IF arrives THEN 200 ELSE 500]

\* dlq.Retry: what is due leaves the queue, is tried without the lock, and what fails goes to the back.
backoff(attempts) == IF attempts = 0 THEN 1 ELSE 2
RetryTake ==
  /\ ing.due = <<>> /\ ing.again = <<>> /\ \E k \in DOMAIN ing.queue : ing.queue[k].next <= ing.clock
  /\ ing' = [ing EXCEPT !.due = SelectSeq(ing.queue, LAMBDA x : x.next <= ing.clock), !.queue = SelectSeq(ing.queue, LAMBDA x : x.next > ing.clock)]
RetryOne ==
  /\ ing.due # <<>>
  /\ LET x == Head(ing.due) i == [ing EXCEPT !.due = Tail(@)]
     IN \E ok \in BOOLEAN :
          ing' = IF ok THEN [i EXCEPT !.saved[x.rec] = @ + 1, !.done[x.rec] = @ + 1]
                 ELSE [i EXCEPT !.again = Append(@, [x EXCEPT !.attempts = Min({@ + 1, 2}), !.next = ing.clock + backoff(x.attempts + 1)])]
RetryPut == ing.due = <<>> /\ ing.again # <<>> /\ ing' = [Keep(ing, ing.queue \o ing.again) EXCEPT !.again = <<>>]
RetryTick == ing.clock < MaxRounds /\ ing' = [ing EXCEPT !.clock = @ + 1]

IngNext == Ingest \/ SaveSource \/ Process \/ RetryTake \/ RetryOne \/ RetryPut \/ RetryTick

\* With the queue, every record that was taken in is stored and processed, or waits in the queue, or
\* was dropped and counted: a store that fails, a full queue, a retry that fails again and records
\* that arrive during a retry lose nothing silently.
IngestKeeps ==
  ing.dlq /\ ing.answer = 200 =>
    /\ \A r \in Records : ing.saved[r] = ing.done[r] /\ (ing.saved[r] > 0 \/ r \in {x.rec : x \in ToSet(ing.queue) \cup ToSet(ing.due) \cup ToSet(ing.again)} \cup ing.gone)
    /\ ing.dropped >= Cardinality(ing.gone)
\* A record is processed at most once for each time it is taken in, whatever mix of direct saves,
\* retries and lost answers; with deduplication, two takings are more than its window apart.
ProcessedOnce ==
  \A r \in Records : LET t == ing.taken[r] IN
    /\ ing.done[r] <= Len(t) /\ (ing.dedup => \A k \in 1..(Len(t) - 1) : t[k + 1] - t[k] > DedupWindow)

-----------------------------------------------------------------------------
(* An analyser loop: every interval it reads the events of the last window,    *)
(* analyses them and emits what it has not alerted yet.                       *)
(* lookup: what the device record says; stamps: the tenants on the events.     *)
Loops == [beacon |-> <<"beacon", "fanout">>, dns |-> <<"dnstunnel">>, bruteforce |-> <<"bruteforce", "bfsuccess">>]
srvTactic == [beacon |-> "Command and Control", dnstunnel |-> "Command and Control", fanout |-> "Discovery", bruteforce |-> "Credential Access", bfsuccess |-> "Credential Access"]
ScanInit ==
  \E loop \in DOMAIN Loops, lookup \in {"error", "", "acme"}, stamps \in SUBSET {"acme", "globex"}, enforce \in BOOLEAN, cfg \in {<<1, 3>>, <<2, 1>>} :
    scan = [loop |-> loop, lookup |-> lookup, stamps |-> stamps, enforce |-> enforce, every |-> cfg[1], window |-> cfg[2],
            clock |-> 0, seen |-> {}, alerted |-> {}, findings |-> <<>>, notified |-> <<>>, tactics |-> {}, skips |-> 0, failed |-> {}]
tenantHints(stamps) == CASE stamps = {} -> "" [] Cardinality(stamps) = 1 -> CHOOSE t \in stamps : TRUE [] OTHER -> "conflict"
resolve(s, hint) ==
  IF s.lookup = "error" THEN [ok |-> FALSE, tenant |-> ""]
  ELSE IF s.lookup # "" THEN [ok |-> TRUE, tenant |-> s.lookup]
  ELSE IF hint = "conflict" THEN [ok |-> FALSE, tenant |-> ""]
  ELSE IF hint # "" THEN [ok |-> TRUE, tenant |-> hint]
  ELSE [ok |-> ~s.enforce, tenant |-> "default"]
\* A finding goes out once it is stored; one that must be heard of (always) goes out anyway.
emit(s, key, hint, stored, always) ==
  LET r == resolve(s, hint)
  IN IF ~r.ok THEN [s EXCEPT !.skips = @ + 1]
     ELSE IF ~stored THEN [s EXCEPT !.failed = @ \cup {<<key, s.clock>>}, !.notified = IF always THEN Append(@, key) ELSE @]
     ELSE [s EXCEPT !.findings = Append(@, [key |-> key, tenant |-> r.tenant]), !.notified = Append(@, key)]
\* The incident is tracked and its tactic joins the chain, which speaks up at the second one.
trackIncident(s, key, tenant, stored) ==
  LET t == [s EXCEPT !.tactics = @ \cup {srvTactic[key]}]
  IN IF Cardinality(t.tactics) >= 2 /\ Cardinality(s.tactics) < 2 THEN emit(t, "chain", tenant, stored, TRUE) ELSE t
\* two events within a unit make a burst
Burst(times) == \E t \in times : Cardinality({u \in times : u \in t..(t + 1)}) >= 2
Seen(s, key, since) == {t \in 0..s.clock : <<key, t>> \in s.seen /\ t >= since}
report(s, key, stored) ==
  LET done == emit(s, key, tenantHints(s.stamps), stored[key], FALSE)
  IN IF ~Burst(Seen(s, key, s.clock - s.window)) \/ key \in s.alerted THEN s
     ELSE IF Len(done.findings) = Len(s.findings) THEN done
     ELSE trackIncident([done EXCEPT !.alerted = @ \cup {key}], key, Last(done.findings).tenant, stored["chain"])
beaconLoop(s, stored) == report(report(s, "beacon", stored), "fanout", stored)
dnsTunnelLoop(s, stored) == report(s, "dnstunnel", stored)
bruteForceLoop(s, stored) == report(report(s, "bruteforce", stored), "bfsuccess", stored)
Watched == ToSet(Loops[scan.loop])
EventStored == \E key \in Watched : <<key, scan.clock>> \notin scan.seen /\ scan' = [scan EXCEPT !.seen = @ \cup {<<key, scan.clock>>}]
\* Time passes; the ticker fires at the multiples of its interval.
ScanTick ==
  /\ scan.clock < MaxRounds
  /\ \E stored \in [Watched \cup {"chain"} -> BOOLEAN] :
       LET s == [scan EXCEPT !.clock = @ + 1]
       IN scan' = IF s.clock % s.every # 0 THEN s
                  ELSE CASE s.loop = "beacon" -> beaconLoop(s, stored) [] s.loop = "dns" -> dnsTunnelLoop(s, stored) [] OTHER -> bruteForceLoop(s, stored)
ScanNext == EventStored \/ ScanTick

\* A finding is stored and notified once, under the tenant of the device's record or, for a device
\* without one, under the tenant all its events carry; a device whose tenant cannot be told has none.
\* Only the chain may be notified without being stored, and it has two stored findings behind it.
FindingsOnceInTenant ==
  LET keys == {f.key : f \in ToSet(scan.findings)} IN
  /\ Cardinality(keys) = Len(scan.findings) /\ Cardinality(ToSet(scan.notified)) = Len(scan.notified)
  /\ keys \subseteq ToSet(scan.notified) /\ ToSet(scan.notified) \ keys \subseteq {"chain"}
  /\ "chain" \in ToSet(scan.notified) => Cardinality(keys \ {"chain"}) >= 2
  /\ \A f \in ToSet(scan.findings) : /\ scan.lookup # "error" /\ (scan.lookup # "" => f.tenant = scan.lookup)
                                     /\ (scan.lookup = "" /\ scan.stamps # {}) => {f.tenant} = scan.stamps
                                     /\ (scan.lookup = "" /\ scan.stamps = {}) => ~scan.enforce
\* A burst is seen whole when the window exceeds its length by the interval: with the tenant known,
\* the next round alerts, or its save fails and the round after tries again.
BurstsReported ==
  [][\A key \in Watched :
       (/\ scan.window - 1 >= scan.every /\ resolve(scan, tenantHints(scan.stamps)).ok /\ key \notin scan.alerted
        /\ scan'.clock = scan.clock + 1 /\ scan'.clock % scan.every = 0 /\ Burst(Seen(scan, key, scan.clock - 1)))
       => key \in scan'.alerted \/ <<key, scan'.clock>> \in scan'.failed]_scan

-----------------------------------------------------------------------------
(* eventbus *)
Subs == {"s1", "s2"}
LiveInit == live = [published |-> 0, sub |-> [s \in Subs |-> [open |-> FALSE, from |-> 0, buf |-> <<>>, got |-> <<>>, missed |-> {}]]]
Subscribe(s) == ~live.sub[s].open /\ live.sub[s].from = 0 /\ live' = [live EXCEPT !.sub[s] = [@ EXCEPT !.open = TRUE, !.from = live.published + 1]]
Cancel(s) == live.sub[s].open /\ live' = [live EXCEPT !.sub[s] = [@ EXCEPT !.open = FALSE]]
\* A full subscriber is passed over.
Deliver(subs, n) ==
  [s \in Subs |-> IF ~subs[s].open THEN subs[s] ELSE IF Len(subs[s].buf) < BusCap THEN [subs[s] EXCEPT !.buf = Append(@, n)] ELSE [subs[s] EXCEPT !.missed = @ \cup {n}]]
Publish == live.published < MaxNotices /\ live' = [live EXCEPT !.published = @ + 1, !.sub = Deliver(@, live.published + 1)]
Read(s) == live.sub[s].buf # <<>> /\ live' = [live EXCEPT !.sub[s] = [@ EXCEPT !.buf = Tail(@), !.got = Append(live.sub[s].got, Head(live.sub[s].buf))]]
LiveNext == Publish \/ \E s \in Subs : Subscribe(s) \/ Cancel(s) \/ Read(s)
\* A subscriber gets the notices published while it is subscribed, in order; one is missing only if
\* its own buffer was full, so a slow console costs no other console anything.
ConsolesIndependent ==
  \A s \in Subs : LET u == live.sub[s] all == u.got \o u.buf IN
    /\ \A i, j \in DOMAIN all : i < j => all[i] < all[j]
    /\ u.open => ToSet(all) \cup u.missed = u.from..live.published
    /\ u.missed # {} => Len(all) >= BusCap
=============================================================================
