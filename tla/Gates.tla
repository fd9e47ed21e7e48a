-------------------------------- MODULE Gates --------------------------------
(* What stands between a rule that matched and an alert: detection bits, the   *)
(* threshold, the correlator, and the attack-chain detector behind them.       *)
(*                                                                            *)
(* Handlers run ProcessEvent concurrently (agent streams, the ingest API, the  *)
(* retry loop); each store has a lock of its own, so two handlers interleave   *)
(* between the stores, and inside Observe around the call that opens the       *)
(* incident.                                                                  *)
EXTENDS Integers, SequencesExt

CONSTANTS Handlers,     \* concurrent ProcessEvent calls
          MaxGateClock, \* the server's clock
          MaxHits,      \* detections in a behaviour
          MaxAgentTime  \* event times of the chain part

ASSUME GateAssumption == MaxGateClock \in Nat /\ MaxHits \in Nat /\ MaxAgentTime \in Nat

VARIABLES gateClock, hits, bits, ctr, open, job,
          trail,       \* ghost: what the gates let through, in order
          latest,      \* ghost: the latest time Observe has run with
          rewound,     \* ghost: Observe has run with an earlier time after that
          chain, fires, \* chain: device -> signals and last firing; fires: ghost
          evicted      \* ghost: devices the sweep forgot
gateVars == <<gateClock, hits, bits, ctr, open, job, trail, latest, rewound>>
chainVars == <<chain, fires, evicted>>

-----------------------------------------------------------------------------
(* Three rules: one that sets a bit, one that needs it, one that fires once   *)
(* while its own bit is unset, and one with a threshold per tenant.            *)
Tenant == [d1 |-> "t", d2 |-> "t", d3 |-> "u"]
NoBits == [track |-> "", require |-> {}, requireNot |-> {}, set |-> {}, ttl |-> 1]
RuleBits == [mark |-> [NoBits EXCEPT !.set = {"B"}], after |-> [NoBits EXCEPT !.require = {"B"}],
             once |-> [NoBits EXCEPT !.track = "global", !.requireNot = {"M"}, !.set = {"M"}], count |-> NoBits]
RuleCount == [mark |-> 1, after |-> 1, once |-> 1, count |-> 2]
CountWindow == 1
CorrWindow == 1
Detections == {<<"d1", "mark">>, <<"d1", "after">>, <<"d2", "after">>, <<"d1", "once">>, <<"d1", "count">>, <<"d2", "count">>, <<"d3", "count">>}

ScopeKey(track, dev) == CASE track = "tenant" -> <<"tenant", Tenant[dev]>> [] track = "global" -> <<"global", "">> [] OTHER -> <<"device", dev>>

PutAt(f, k, v) == [x \in DOMAIN f \cup {k} |-> IF x = k THEN v ELSE f[x]]
Without(f, K) == [x \in DOMAIN f \ K |-> f[x]]

\* detbits: a bit holds up to and including its expiry
Expired(f, now) == {k \in DOMAIN f : now > f[k]}
IsSet(b, scope, bit, now) == <<scope, bit>> \in DOMAIN b /\ now <= b[<<scope, bit>>]
AllSet(b, scope, S, now) == \A bit \in S : IsSet(b, scope, bit, now)
NoneSet(b, scope, S, now) == \A bit \in S : ~IsSet(b, scope, bit, now)
BitsMax == 1
pruneBits(b, now) == IF Cardinality(DOMAIN b) <= BitsMax THEN b ELSE Without(b, Expired(b, now))
Set(b, scope, S, ttl, now) == FoldSet(LAMBDA bit, f : PutAt(f, <<scope, bit>>, now + ttl), pruneBits(b, now), S)

\* threshold: the counter starts with its first hit and goes when it fires
pruneCounters(c, now) == IF Cardinality(DOMAIN c) <= BitsMax THEN c ELSE Without(c, {k \in DOMAIN c : now - c[k].from > CountWindow})
ThresholdAllow(c, k, count, now) ==
  LET p == pruneCounters(c, now)
      old == IF k \in DOMAIN p /\ now - p[k].from <= CountWindow THEN p[k] ELSE [hits |-> 0, from |-> now]
  IN IF old.hits + 1 >= count THEN [ok |-> TRUE, ctr |-> Without(p, {k})] ELSE [ok |-> FALSE, ctr |-> PutAt(p, k, [old EXCEPT !.hits = @ + 1])]

Idle == [pc |-> "idle"]
GatesInit ==
  /\ gateClock = 0 /\ hits = 0 /\ bits = <<>> /\ ctr = <<>> /\ open = <<>> /\ job = [h \in Handlers |-> Idle] /\ trail = <<>> /\ latest = 0 /\ rewound = FALSE
ChainInit == chain = <<>> /\ fires = <<>> /\ evicted = {}

Note(what, dev, rule, at) == [what |-> what, dev |-> dev, rule |-> rule, at |-> at]

\* Admit, first the bits: the checks and the setting are separate calls on the store.
AdmitBits(h, d) ==
  LET b == RuleBits[d[2]] scope == ScopeKey(b.track, d[1])
      pass == AllSet(bits, scope, b.require, gateClock) /\ NoneSet(bits, scope, b.requireNot, gateClock)
  IN /\ job[h] = Idle /\ hits < MaxHits /\ hits' = hits + 1
     /\ bits' = Without(bits, {<<scope, bit>> : bit \in b.require \cup b.requireNot} \cap Expired(bits, gateClock))
     /\ job' = IF pass THEN [job EXCEPT ![h] = [pc |-> IF b.set = {} THEN "count" ELSE "set", dev |-> d[1], rule |-> d[2]]] ELSE job
     /\ trail' = IF pass /\ d[2] \in {"after", "once"} THEN Append(trail, Note("pass", d[1], d[2], gateClock)) ELSE trail
     /\ UNCHANGED <<gateClock, ctr, open, latest, rewound, chainVars>>
SetBits(h) ==
  /\ job[h].pc = "set"
  /\ bits' = Set(bits, ScopeKey(RuleBits[job[h].rule].track, job[h].dev), RuleBits[job[h].rule].set, RuleBits[job[h].rule].ttl, gateClock)
  /\ job' = [job EXCEPT ![h].pc = "count"] /\ trail' = Append(trail, Note("set", job[h].dev, job[h].rule, gateClock))
  /\ UNCHANGED <<gateClock, hits, ctr, open, latest, rewound, chainVars>>
\* then the threshold; a passing handler reads the time for the correlator before it has its lock
AdmitCount(h) ==
  LET j == job[h]
      r == IF RuleCount[j.rule] > 1 THEN ThresholdAllow(ctr, <<j.rule, ScopeKey("tenant", j.dev)>>, RuleCount[j.rule], gateClock) ELSE [ok |-> TRUE, ctr |-> ctr]
  IN /\ j.pc = "count" /\ ctr' = r.ctr
     /\ job' = [job EXCEPT ![h] = IF r.ok THEN [pc |-> "corr", dev |-> j.dev, rule |-> j.rule, at |-> gateClock] ELSE Idle]
     /\ trail' = IF RuleCount[j.rule] > 1 THEN Append(trail, Note(IF r.ok THEN "go" ELSE "hit", j.dev, j.rule, gateClock)) ELSE trail
     /\ UNCHANGED <<gateClock, hits, bits, open, latest, rewound, chainVars>>

Key(j) == <<j.dev, j.rule>>
Order(at) == latest' = Max({latest, at}) /\ rewound' = (rewound \/ at < latest)
\* Observe: an open window takes the hit in; otherwise the lock is released and the incident opened.
Fresh(o, k, at) == k \in DOMAIN o /\ at - o[k] <= CorrWindow
Observe1(h) ==
  LET j == job[h] kept == Without(open, {k \in DOMAIN open : j.at - open[k] > CorrWindow})
  IN /\ j.pc = "corr" /\ Order(j.at)
     /\ IF Fresh(kept, Key(j), j.at) THEN open' = PutAt(kept, Key(j), j.at) /\ job' = [job EXCEPT ![h] = Idle]
        ELSE open' = kept /\ job' = [job EXCEPT ![h].pc = "store"]
     /\ UNCHANGED <<gateClock, hits, bits, ctr, trail, chainVars>>
\* After the incident is opened the window is looked up again: another handler may have been faster.
Observe2Blind(h) ==
  LET j == job[h]
  IN /\ j.pc = "store" /\ Order(j.at) /\ open' = PutAt(open, Key(j), j.at) /\ job' = [job EXCEPT ![h] = Idle]
     /\ trail' = Append(trail, Note("alert", j.dev, j.rule, j.at))
     /\ UNCHANGED <<gateClock, hits, bits, ctr, chainVars>>
Observe2(h) ==
  LET j == job[h]
  IN /\ j.pc = "store" /\ Order(j.at) /\ open' = PutAt(open, Key(j), j.at) /\ job' = [job EXCEPT ![h] = Idle]
     /\ trail' = IF Fresh(open, Key(j), j.at) THEN trail ELSE Append(trail, Note("alert", j.dev, j.rule, j.at))
     /\ UNCHANGED <<gateClock, hits, bits, ctr, chainVars>>
GateTick == gateClock < MaxGateClock /\ gateClock' = gateClock + 1 /\ UNCHANGED <<hits, bits, ctr, open, job, trail, latest, rewound, chainVars>>

GatesNext == GateTick \/ \E h \in Handlers : SetBits(h) \/ AdmitCount(h) \/ Observe1(h) \/ Observe2(h) \/ \E d \in Detections : AdmitBits(h, d)

-----------------------------------------------------------------------------
(* The chain detector, on the agents' own event times.                        *)
ChainWindow == 2
ChainThreshold == 2
chainDevCap == 1
ChainSweep(c, dev, cutoff) ==
  IF Cardinality(DOMAIN c) <= chainDevCap THEN {} ELSE {d \in DOMAIN c \ {dev} : \A s \in DOMAIN c[d].signals : c[d].signals[s] <= cutoff}
ChainObserve(dev, signal, at) ==
  LET cutoff == at - ChainWindow
      old == IF dev \in DOMAIN chain THEN chain[dev] ELSE [signals |-> <<>>, fired |-> -9]
      sigs == PutAt(Without(old.signals, {s \in DOMAIN old.signals : old.signals[s] <= cutoff}), signal, at)
      fire == Cardinality(DOMAIN sigs) >= ChainThreshold /\ old.fired <= cutoff
      all == PutAt(chain, dev, [signals |-> sigs, fired |-> IF fire THEN at ELSE old.fired])
      gone == ChainSweep(all, dev, cutoff)
  IN /\ Len(fires) <= MaxHits
     /\ chain' = Without(all, gone) /\ evicted' = evicted \cup gone
     /\ fires' = Append(fires, [dev |-> dev, at |-> at, signal |-> signal, fire |-> fire])
     /\ UNCHANGED gateVars
ChainNext == \E dev \in {"d1", "d2"}, s \in {"exec", "exfil"}, at \in 0..MaxAgentTime : ChainObserve(dev, s, at)

-----------------------------------------------------------------------------
At(i, what) == trail[i].what = what
Earlier(i, what, P(_)) == \E j \in 1..(i - 1) : At(j, what) /\ P(trail[j])
\* A rule that needs a bit passes only if the bit was set for the same device no longer ago than its
\* life; a rule that forbids its own bit passes again only after that time, unless two handlers
\* checked before either had set it.
BitsGateHolds ==
  \A i \in DOMAIN trail : At(i, "pass") =>
    /\ trail[i].rule = "after" => Earlier(i, "set", LAMBDA e : e.rule = "mark" /\ e.dev = trail[i].dev /\ trail[i].at - e.at <= 1)
    /\ trail[i].rule = "once" => ~Earlier(i, "set", LAMBDA e : e.rule = "once" /\ trail[i].at - e.at <= 1)
\* Every passing of the threshold has used up its number of hits of that tenant, all within the
\* window and none counted for an earlier passing: hits of another tenant never add up.
HitsCountOnce ==
  LET gos == {i \in DOMAIN trail : At(i, "go") /\ trail[i].rule = "count"}
      hitsOf(u) == {i \in DOMAIN trail : (At(i, "hit") \/ At(i, "go")) /\ Tenant[trail[i].dev] = u}
  IN \A i \in gos : LET u == Tenant[trail[i].dev]
                        last == Max({0} \cup {g \in gos : g < i /\ Tenant[trail[g].dev] = u})
                        recent == {k \in hitsOf(u) : last < k /\ k <= i /\ trail[i].at - trail[k].at <= CountWindow}
                    IN Cardinality(recent) >= RuleCount["count"]
\* Two alerts for one device and rule are more than a window apart, also when two handlers open the
\* incident at once, as long as handlers reach the correlator in the order of the times they read
\* before its lock.
AlertsApart ==
  \A i, j \in DOMAIN trail : (i < j /\ At(i, "alert") /\ At(j, "alert") /\ trail[i].dev = trail[j].dev /\ trail[i].rule = trail[j].rule) =>
    trail[j].at - trail[i].at > CorrWindow \/ rewound
\* A chain fires on signals that all lie within the window of its event time, and for one device
\* firings are a window apart in event time, unless its state was swept in between.
ChainsFireOnce ==
  \A i \in DOMAIN fires : fires[i].fire =>
    /\ \E j \in 1..(i - 1) : fires[j].dev = fires[i].dev /\ fires[j].signal # fires[i].signal /\ fires[j].at > fires[i].at - ChainWindow
    /\ \A j \in 1..(i - 1) : (fires[j].fire /\ fires[j].dev = fires[i].dev /\ fires[j].dev \notin evicted) => fires[i].at - fires[j].at >= ChainWindow
=============================================================================
