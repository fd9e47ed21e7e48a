------------------------------- MODULE Analytics -------------------------------
(* The detection algorithms: the rule engine and its multi-pattern prefilter,  *)
(* the indicator and vulnerability sets, the sliding-window analysers and the  *)
(* scores.  They keep no state between calls, so a behaviour feeds one of them *)
(* an input that grows by one element at a time.                              *)
(*                                                                            *)
(* Texts are sequences over {"a", "b", "A", "_"}: "A" is the upper case of "a", *)
(* "_" is a blank.  Times are whole units; fractions are kept as integers over *)
(* a fixed denominator.                                                       *)
EXTENDS Integers, SequencesExt

CONSTANTS MaxText,   \* characters of a message
          MaxItems   \* observations handed to an analyser

ASSUME AnalyticsAssumption == MaxText \in Nat /\ MaxItems \in Nat

VARIABLES algo,   \* the algorithm at work
          input   \* what it has been given
analyticsVars == <<algo, input>>

-----------------------------------------------------------------------------
(* strings *)
Char == {"a", "b", "A", "_"}
ToLower(s) == [i \in DOMAIN s |-> IF s[i] = "A" THEN "a" ELSE s[i]]
TrimSpace(s) ==
  LET solid == {i \in DOMAIN s : s[i] # "_"} IN IF solid = {} THEN <<>> ELSE SubSeq(s, Min(solid), Max(solid))
\* the places, from 0, where p starts in s
Starts(p, s) == {i \in 0..(Len(s) - Len(p)) : SubSeq(s, i + 1, i + Len(p)) = p}
Occurs(p, s) == Starts(p, s) # {}

-----------------------------------------------------------------------------
(* mpm: Aho-Corasick.  A trie node is the prefix that leads to it.            *)
Build(patterns) ==
  LET ps == [i \in DOMAIN patterns |-> ToLower(patterns[i])]
  IN [nodes |-> {<<>>} \cup UNION {Prefixes(ps[i]) : i \in DOMAIN ps},
      ends |-> [n \in UNION {Prefixes(ps[i]) : i \in DOMAIN ps} \cup {<<>>} |-> {i \in DOMAIN ps : ps[i] = n /\ n # <<>>}]]

\* Up the failure links until a node has the child.
Fall(m, fail, from, b) ==
  LET up[f \in m.nodes] == IF f = <<>> \/ Append(f, b) \in m.nodes THEN f ELSE up[fail[f]] IN up[from]

buildFail(m) ==
  LET fail[v \in m.nodes] ==
        IF Len(v) <= 1 THEN <<>>
        ELSE LET f == Fall(m, fail, fail[Front(v)], Last(v))
             IN IF Append(f, Last(v)) \in m.nodes THEN Append(f, Last(v)) ELSE <<>>
      out[v \in m.nodes] == IF v = <<>> THEN {} ELSE m.ends[v] \cup out[fail[v]]
  IN [nodes |-> m.nodes, fail |-> fail, outputs |-> out]

collect(m, text) ==
  LET low == ToLower(text)
      node[i \in 0..Len(low)] ==
        IF i = 0 THEN <<>>
        ELSE LET f == Fall(m, m.fail, node[i - 1], low[i])
             IN IF Append(f, low[i]) \in m.nodes THEN Append(f, low[i]) ELSE f
  IN IF m.nodes = {<<>>} THEN {} ELSE UNION {m.outputs[node[i]] : i \in 1..Len(low)}
Matches(patterns, text) == collect(buildFail(Build(patterns)), text)
MatchAny(patterns, text) == Matches(patterns, text) # {}

-----------------------------------------------------------------------------
(* detect: rules.  A message_regex is a literal here, matched whatever its    *)
(* case; details are a function from field to text, or unreadable.            *)
sevRank == [INFO |-> 1, LOW |-> 2, MEDIUM |-> 3, HIGH |-> 4, CRITICAL |-> 5]
rank(s) == IF s \in DOMAIN sevRank THEN sevRank[s] ELSE 0
AnyRule == [id |-> "r", name |-> "n", severity |-> "HIGH", status |-> "", category |-> "", minSeverity |-> "", contains |-> <<>>, absent |-> <<>>, regex |-> <<>>,
            sequence |-> <<>>, within |-> 0, fields |-> <<>>, count |-> 1, seconds |-> 1, bits |-> TRUE, ttl |-> 0, track |-> ""]
Active(r) == r.status \in {"", "active"}

matchSequence(msg, seq, within) ==
  LET lits == SelectSeq([i \in DOMAIN seq |-> ToLower(seq[i])], LAMBDA s : s # <<>>)
      Reach(prev, s) == IF within <= 0 THEN prev # {} /\ Min(prev) <= s ELSE \E e \in prev : s - within <= e /\ e <= s
      ends[i \in 0..Len(lits)] ==
        IF i = 0 THEN {}
        ELSE LET es == {s + Len(lits[i]) : s \in {t \in Starts(lits[i], msg) : i = 1 \/ Reach(ends[i - 1], t)}}
             IN IF within <= 0 /\ es # {} THEN {Min(es)} ELSE es
  IN lits = <<>> \/ ends[Len(lits)] # {}

matches(r, ev) ==
  LET msg == ToLower(ev.message)
  IN /\ r.category \in {"", ev.category}
     /\ r.minSeverity # "" => rank(ev.severity) >= rank(r.minSeverity)
     /\ \A i \in DOMAIN r.contains : Occurs(ToLower(r.contains[i]), msg)
     /\ \A i \in DOMAIN r.absent : r.absent[i] # <<>> => ~Occurs(ToLower(r.absent[i]), msg)
     /\ r.regex # <<>> => Occurs(ToLower(r.regex), msg)
     /\ r.sequence # <<>> => matchSequence(msg, r.sequence, r.within)
     /\ r.fields # <<>> => ev.details.ok /\ \A k \in DOMAIN r.fields : k \in DOMAIN ev.details.map /\ Occurs(ToLower(r.fields[k]), ToLower(ev.details.map[k]))

\* the first of the longest literals, blanks trimmed
selectAnchor(cands) ==
  FoldLeft(LAMBDA best, s : IF Len(TrimSpace(s)) > Len(best) THEN TrimSpace(s) ELSE best, <<>>, cands)

\* Rules without an anchor are always tried; the others when their anchor occurs.
buildPrefilter(rules) ==
  [i \in DOMAIN rules |-> TrimSpace(ToLower(selectAnchor(rules[i].contains \o rules[i].sequence)))]

NewEngine(rules) == [rules |-> rules, anchors |-> buildPrefilter(rules)]
Evaluate(e, ev) ==
  LET hit == Matches(e.anchors, ev.message)
  IN {i \in DOMAIN e.rules : (e.anchors[i] = <<>> \/ i \in hit) /\ Active(e.rules[i]) /\ matches(e.rules[i], ev)}

LoadRules(rules) ==
  [ok |-> \A i \in DOMAIN rules : LET r == rules[i] IN
            /\ r.id # "" /\ r.name # "" /\ r.severity # ""
            /\ r.minSeverity # "" => rank(r.minSeverity) # 0
            /\ r.status \in {"", "active", "draft", "retired"}
            /\ r.within >= 0 /\ (r.within > 0 => Len(r.sequence) >= 2)
            /\ r.count >= 1 /\ r.seconds >= 1 /\ r.bits /\ r.ttl >= 0
            /\ r.track \in {"", "device", "tenant", "global"},
   rules |-> rules]
\* data and the signature's verdict on it
LoadRulesFileSigned(rules, signed) == IF signed THEN LoadRules(rules) ELSE [ok |-> FALSE, rules |-> <<>>]
DefaultRules == <<[AnyRule EXCEPT !.contains = <<<<"b", "b">>>>]>>
WithDefaults(extra) == DefaultRules \o extra

-----------------------------------------------------------------------------
(* ioc and vuln *)
\* a feed line is its value and the words after it; conf= words are records
parseIndicator(rest) ==
  LET confs == SelectSeq(rest, LAMBDA w : w.k = "conf" /\ w.v \in {"low", "medium", "high", "critical"})
      words == SelectSeq(rest, LAMBDA w : w.k = "word")
  IN [confidence |-> IF confs = <<>> THEN "medium" ELSE Last(confs).v, label |-> IF words = <<>> THEN "etiketsiz" ELSE words]
\* the last line for a value wins
Load(lines) ==
  FoldLeft(LAMBDA set, l : IF l.comment THEN set ELSE [v \in DOMAIN set \cup {ToLower(l.val)} |-> IF v = ToLower(l.val) THEN parseIndicator(l.rest) ELSE set[v]],
           [v \in {} |-> {}], lines)
buildMatcher(set) == SetToSeq(DOMAIN set)
LoadFileSigned(lines, signed) == IF signed THEN [ok |-> TRUE, set |-> Load(lines)] ELSE [ok |-> FALSE, set |-> Load(<<>>)]
\* A detail that is a value wins over a value inside the message; which one, when several do, is open.
MatchIndicator(set, details, message) ==
  LET exact == {ToLower(TrimSpace(d)) : d \in details} \cap DOMAIN set
      vals == buildMatcher(set)
  IN IF exact # {} THEN exact ELSE {vals[i] : i \in Matches(vals, message)}
Match(set, details, message) == {set[v].label : v \in MatchIndicator(set, details, message)}

vulnMatches(e, pkg) == e.product # <<>> /\ Occurs(ToLower(e.product), ToLower(pkg))
vulnLoad(entries) == IF \A i \in DOMAIN entries : entries[i].product # <<>> /\ entries[i].cve # "" THEN entries ELSE <<>>
vulnMatch(entries, software) ==
  {<<entries[e].cve, software[p]>> : <<e, p>> \in {ep \in (DOMAIN entries) \X (DOMAIN software) : vulnMatches(entries[ep[1]], software[ep[2]])}}

-----------------------------------------------------------------------------
(* the sliding-window analysers *)
InOrder(s) == SortSeq(s, LAMBDA x, y : x.at < y.at)
\* For every right end of a window, the left end the two-pointer loop has reached.
Lows(es, window) ==
  LET lo[hi \in 0..Len(es)] == IF hi = 0 THEN 1 ELSE Min({l \in lo[hi - 1]..hi : es[hi].at - es[l].at <= window}) IN lo
Of(s, dev) == InOrder(SelectSeq(s, LAMBDA x : x.dev = dev))
Devices(s) == {s[i].dev : i \in DOMAIN s}
AtLeast(n, floor) == IF n < floor THEN floor ELSE n
DefaultWindow == 5
WindowOr(w) == IF w <= 0 THEN DefaultWindow ELSE w
\* the busiest window of one device, the earliest of equals, and who is behind it
bruteforceAnalyze(attempts, minAttempts, window) ==
  LET Best(as) ==
        LET lo == Lows(as, WindowOr(window))
            n == Max({hi - lo[hi] + 1 : hi \in DOMAIN as})
            hi == Min({h \in DOMAIN as : h - lo[h] + 1 = n})
        IN [n |-> n, slice |-> SubSeq(as, lo[hi], hi)]
      CountIP(sl, ip) == Cardinality({i \in DOMAIN sl : sl[i].ip = ip})
      Finding(dev) ==
        LET b == Best(Of(attempts, dev))
            ips == {b.slice[i].ip : i \in DOMAIN b.slice} \ {0}
            most == {ip \in ips : \A o \in ips : CountIP(b.slice, ip) >= CountIP(b.slice, o)}
        IN [dev |-> dev, count |-> b.n, sources |-> Cardinality(ips), top |-> IF ips = {} THEN 0 ELSE Min(most)]
  IN {f \in {Finding(d) : d \in Devices(attempts)} : f.count >= AtLeast(minAttempts, 3)}

AnalyzeSuccessAfterBurst(evs, minFailures, window) ==
  LET Hits(es) ==
        LET lo == Lows(es, WindowOr(window))
        IN {<<hi, Cardinality({i \in lo[hi]..hi : ~es[i].ok})>> : hi \in {h \in DOMAIN es : es[h].ok}}
      Long(es) == {h \in Hits(es) : h[2] >= AtLeast(minFailures, 3)}
      First(es) == CHOOSE h \in Long(es) : \A o \in Long(es) : h[1] <= o[1]
  IN {[dev |-> d, at |-> Of(evs, d)[First(Of(evs, d))[1]].at, failures |-> First(Of(evs, d))[2]] : d \in {x \in Devices(evs) : Long(Of(evs, x)) # {}}}

\* the variance of the intervals against the square of their sum: cov is maxCoV in tenths
meanCoV(xs, cov) ==
  LET n == Len(xs)
      sum == FoldLeft(LAMBDA a, x : a + x, 0, xs)
      squares == FoldLeft(LAMBDA a, x : a + x * x, 0, xs)
  IN sum > 0 /\ 100 * (n * squares - sum * sum) <= cov * cov * sum * sum

beaconAnalyze(conns, minSamples, maxCoV) ==
  LET min == AtLeast(minSamples, 3)
      Times(d, ip) == InOrder(SelectSeq(conns, LAMBDA c : c.dev = d /\ c.ip = ip /\ ip # 0))
      Intervals(ts) == SelectSeq([i \in 1..(Len(ts) - 1) |-> ts[i + 1].at - ts[i].at], LAMBDA x : x > 0)
  IN {<<d, ip>> \in {<<conns[i].dev, conns[i].ip>> : i \in DOMAIN conns} :
        /\ Len(Times(d, ip)) >= min
        /\ Len(Intervals(Times(d, ip))) >= min - 1
        /\ meanCoV(Intervals(Times(d, ip)), maxCoV)}

isPrivateIP(ip) == ip \in 1..2
\* the most distinct elements any window holds
MostDistinct(es, window) ==
  LET lo == Lows(es, WindowOr(window)) IN Max({0} \cup {Cardinality({es[i].what : i \in lo[hi]..hi}) : hi \in DOMAIN es})
AnalyzeFanOut(conns, minPeers, window) ==
  LET evs(d) == Of(SelectSeq([i \in DOMAIN conns |-> [dev |-> conns[i].dev, what |-> conns[i].ip, at |-> conns[i].at]], LAMBDA e : isPrivateIP(e.what)), d)
  IN {[dev |-> d, peers |-> MostDistinct(evs(d), window)] : d \in {x \in Devices(conns) : MostDistinct(evs(x), window) >= AtLeast(minPeers, 2)}}

\* a domain is its labels; a trailing dot is a trailing empty label
TrimDot(labels) == IF labels # <<>> /\ Last(labels) = "" THEN Front(labels) ELSE labels
registeredDomain(labels) == LET d == TrimDot(labels) IN IF Len(d) <= 2 THEN d ELSE SubSeq(d, Len(d) - 1, Len(d))
dnsAnalyze(queries, minSubdomains, window) ==
  LET under == SelectSeq(queries, LAMBDA q : q.domain # <<>> /\ TrimDot(q.domain) # registeredDomain(q.domain))
      evs(d, parent) == Of(SelectSeq([i \in DOMAIN under |-> [dev |-> under[i].dev, what |-> TrimDot(under[i].domain), at |-> under[i].at]], LAMBDA e : registeredDomain(e.what) = parent), d)
  IN {[dev |-> k[1], parent |-> k[2], count |-> MostDistinct(evs(k[1], k[2]), window)] :
        k \in {<<under[i].dev, registeredDomain(under[i].domain)>> : i \in {j \in DOMAIN under : MostDistinct(evs(under[j].dev, registeredDomain(under[j].domain)), window) >= AtLeast(minSubdomains, 3)}}}

-----------------------------------------------------------------------------
(* ueba: what administrators do.  Actions carry their keyword.                *)
destructiveKeywords == {"WIPE", "QUARANTINE", "DELETE", "REVOKE", "LOCK", "RESTART", "OFFBOARD", "PURGE", "DISABLE"}
IsDestructive(action) == action \in destructiveKeywords
DefaultOptions == [burst |-> 5, window |-> 10, minTotal |-> 10, ratio |-> 50, start |-> 0, end |-> 0, known |-> <<>>]
offHours(h, o) ==
  /\ o.start # o.end
  /\ IF o.start < o.end THEN h < o.start \/ h >= o.end ELSE ~(h >= o.start \/ h < o.end)
known(o, admin) == admin \in DOMAIN o.known
maxInWindow(times, window) ==
  LET ts == InOrder(times) lo == Lows(ts, window) IN Max({0} \cup {hi - lo[hi] + 1 : hi \in DOMAIN ts})
riskScore(p, burst, threshold) ==
  LET raw == (IF burst >= threshold THEN 50 ELSE 0) + (IF p.total > 0 THEN (25 * p.destructive) \div p.total ELSE 0)
             + 10 * p.newDevices + 3 * p.offHours
  IN Min({raw, 100})
Defaulted(o) ==
  LET Or(v, d) == IF v <= 0 THEN d ELSE v
  IN [o EXCEPT !.burst = Or(@, DefaultOptions.burst), !.window = Or(@, DefaultOptions.window), !.minTotal = Or(@, DefaultOptions.minTotal), !.ratio = Or(@, DefaultOptions.ratio)]
uebaAnalyze(entries, opts) ==
  LET o == Defaulted(opts)
      es(a) == SelectSeq(entries, LAMBDA e : e.dev = a)
      Count(a, T(_)) == Len(SelectSeq(es(a), T))
      prof(a) == [total |-> Len(es(a)), destructive |-> Count(a, LAMBDA e : IsDestructive(e.action)), offHours |-> Count(a, LAMBDA e : offHours(e.at % 24, o)),
                  newDevices |-> Count(a, LAMBDA e : e.device # 0 /\ known(o, a) /\ e.device \notin o.known[a])]
      burst(a) == maxInWindow(SelectSeq(es(a), LAMBDA e : IsDestructive(e.action)), o.window)
      reasons(a) ==
        (IF burst(a) >= o.burst THEN {"HIGH burst"} ELSE IF prof(a).total >= o.minTotal /\ 100 * prof(a).destructive >= o.ratio * prof(a).total THEN {"ratio"} ELSE {})
        \cup (IF prof(a).newDevices > 0 THEN {"device"} ELSE {})
        \cup (IF prof(a).offHours > 0 /\ prof(a).destructive > 0 THEN {"off-hours"} ELSE {})
  IN [a \in Devices(entries) \ {0} |-> [prof |-> prof(a), reasons |-> reasons(a), risk |-> riskScore(prof(a), burst(a), o.burst)]]

-----------------------------------------------------------------------------
(* risk and riskfusion *)
severityWeight == [INFO |-> 5, LOW |-> 20, MEDIUM |-> 45, HIGH |-> 70, CRITICAL |-> 90]
Clamp(v, lo, hi) == IF v < lo THEN lo ELSE IF v > hi THEN hi ELSE v
\* tenths
assetFactor(c) == 6 + 2 * ((IF c <= 0 THEN 3 ELSE Min({c, 5})) - 1)
\* exploitability and confidence in tenths
Score(f) ==
  LET base == severityWeight[f.severity] * assetFactor(f.asset) + (IF f.exposure > 0 THEN 50 * Clamp(f.exposure, 0, 3) ELSE 0) + 15 * Clamp(f.exploit, 0, 10)
      conf == IF f.conf <= 0 THEN 10 ELSE Clamp(f.conf, 0, 10)
  IN Clamp((base * (10 + conf) + 100) \div 200, 0, 100)
\* the weights 1, 0.35, 0.175 and 0.0875, over 400
Aggregate(scores) ==
  LET s == SortSeq(scores, LAMBDA x, y : x > y)
      weight == <<400, 140, 70, 35>>
  IN IF s = <<>> THEN 0 ELSE Clamp(FoldLeftDomain(LAMBDA a, i : a + weight[i] * s[i], 0, s) \div 400, 0, 100)
IncidentExploitability(severity) == CASE severity = "CRITICAL" -> 60 [] severity = "HIGH" -> 45 [] severity = "MEDIUM" -> 30 [] OTHER -> 20
Band(score) == IF score >= 80 THEN "CRITICAL" ELSE IF score >= 60 THEN "HIGH" ELSE IF score >= 35 THEN "MEDIUM" ELSE IF score >= 15 THEN "LOW" ELSE "INFO"

\* a score is num / den
levelFor(num, den) == IF num >= 90 * den THEN "CRITICAL" ELSE IF num >= 70 * den THEN "HIGH" ELSE IF num >= 40 * den THEN "MEDIUM" ELSE "LOW"
weightedScore(signals) ==
  LET used == SelectSeq(signals, LAMBDA s : s.weight > 0)
  IN [num |-> FoldLeft(LAMBDA a, s : a + s.weight * Clamp(s.score, 0, 100), 0, used), den |-> FoldLeft(LAMBDA a, s : a + s.weight, 0, used)]
\* The contributions in falling order, and the names that make up half of the score.
Fuse(signals) ==
  LET t == weightedScore(signals)
      points(s) == s.weight * Clamp(s.score, 0, 100)
      cs == SortSeq(SelectSeq(signals, LAMBDA s : s.weight > 0), LAMBDA x, y : points(x) > points(y) \/ (points(x) = points(y) /\ x.name < y.name))
      cum[i \in 0..Len(cs)] == IF i = 0 THEN 0 ELSE cum[i - 1] + points(cs[i])
  IN IF t.den <= 0 THEN [num |-> 0, den |-> 1, level |-> levelFor(0, 1), parts |-> <<>>, top |-> <<>>]
     ELSE [num |-> t.num, den |-> t.den, level |-> levelFor(t.num, t.den), parts |-> [i \in DOMAIN cs |-> points(cs[i])],
           top |-> IF t.num <= 0 THEN <<>> ELSE [i \in 1..Min({i \in DOMAIN cs : 2 * cum[i] >= t.num}) |-> cs[i].name]]
Counterfactual(signals, drop) == weightedScore(SelectSeq(signals, LAMBDA s : s.name # drop))

-----------------------------------------------------------------------------
(* detectreg: the rule registry, as a function from id to entry; mitre.       *)
Validate(r) == r.id # "" /\ r.name # "" /\ r.severity \in DOMAIN sevRank
Upsert(reg, r) ==
  IF ~Validate(r) THEN reg
  ELSE LET old == IF r.id \in DOMAIN reg THEN reg[r.id] ELSE [rule |-> r, history |-> <<>>]
           e == [rule |-> r, history |-> IF old.rule.version # r.version /\ old.rule.version # "" THEN Append(old.history, old.rule) ELSE old.history]
       IN [i \in DOMAIN reg \cup {r.id} |-> IF i = r.id THEN e ELSE reg[i]]
SetStatus(reg, id, status) == IF id \in DOMAIN reg THEN [reg EXCEPT ![id].rule.status = status] ELSE reg
ActiveRules(reg) == {reg[i].rule : i \in {j \in DOMAIN reg : Active(reg[j].rule)}}
Stats(reg) == [total |-> Cardinality(DOMAIN reg), active |-> Cardinality(ActiveRules(reg))]

\* a message is the set of keyword groups it contains, in the order the cases try them
Keywords == <<"ransom", "vssadmin", "lsass", "mshta", "psexec", "fodhelper", "masquerad", "reg add", "windefend", "wevtutil", "invoke-wmimethod", "dlp", "beacon", "lateral", "yara",
              "fim", "audit log cleared", "createremotethread", "service installed", "scheduled task", "account created", "security-enabled group", "failed logon", "update", "script", "anomaly", "tamper">>
Classify(category, words) ==
  CASE category = "NETWORK_DISCOVERY" -> "discover" [] category = "NETWORK_CONN" -> "beacon"
    [] category = "POLICY_VIOLATION" -> IF "scheduled task" \in words THEN "autostart" ELSE "execution"
    [] category = "SECURITY" -> LET at == {i \in DOMAIN Keywords : Keywords[i] \in words} IN IF at = {} THEN "tamper" ELSE Keywords[Min(at)]
    [] OTHER -> "none"

-----------------------------------------------------------------------------
(* what the algorithms are fed *)
LogonItems == {[dev |-> 1, at |-> t, ip |-> i, ok |-> o] : t \in {0, 1, 3}, i \in {0, 1}, o \in BOOLEAN} \cup {[dev |-> 2, at |-> 0, ip |-> 2, ok |-> FALSE], [dev |-> 1, at |-> 1, ip |-> 2, ok |-> FALSE]}
ConnItems == {[dev |-> 1, at |-> t, ip |-> i] : t \in 0..4, i \in 1..3} \cup {[dev |-> 2, at |-> 0, ip |-> 1]}
DnsItems == {[dev |-> 1, at |-> t, domain |-> d] : t \in {0, 2, 3}, d \in {<<"x", "e", "c">>, <<"y", "e", "c", "">>, <<"z", "x", "e", "c">>, <<"e", "c", "">>}}
AdminItems == {[dev |-> a, at |-> t, action |-> c, device |-> d] : a \in {1}, t \in {0, 1, 3, 9}, c \in {"WIPE", "LIST"}, d \in {0, 2}} \cup {[dev |-> 0, at |-> 0, action |-> "WIPE", device |-> 0]}
SignalItems == {[name |-> n, score |-> v, weight |-> w] : n \in 1..3, v \in {-5, 40, 120}, w \in {-1, 1, 3}}
Factors == [severity : DOMAIN severityWeight, asset : 0..6, exposure : 0..4, exploit : {0, 5, 11}, conf : {0, 1, 5, 10}]

RuleItems == {[op |-> "upsert", rule |-> [id |-> i, name |-> "n", severity |-> s, version |-> v, status |-> ""]] : i \in {"r", "q"}, s \in {"HIGH", "odd"}, v \in {"", "1", "2"}}
             \cup {[op |-> "status", rule |-> [id |-> i, status |-> s]] : i \in {"r", "q"}, s \in {"retired", "active"}}
ItemsOf == [logon |-> LogonItems, conn |-> ConnItems, dns |-> DnsItems, admin |-> AdminItems, signal |-> SignalItems, score |-> {0, 20, 55, 90}, rule |-> RuleItems, word |-> ToSet(Keywords), factor |-> Factors]
LimitOf(a) == IF a = "factor" THEN 1 ELSE IF a \in {"signal", "word"} THEN MaxItems - 1 ELSE MaxItems
Algorithms == DOMAIN ItemsOf \cup {"text"}

\* A message with one more character.
Type == algo = "text" /\ Len(input) < MaxText /\ \E c \in Char : input' = Append(input, c) /\ UNCHANGED algo
\* One more observation.
Observe == algo \in DOMAIN ItemsOf /\ Len(input) < LimitOf(algo) /\ \E x \in ItemsOf[algo] : input' = Append(input, x) /\ UNCHANGED algo
AnalyticsNext == Type \/ Observe

-----------------------------------------------------------------------------
(* properties *)
A == <<"a">>
B == <<"b">>
PatternLists == {<<A, <<"a", "b", "a">>, <<"b", "A">>, B, <<>>>>, <<<<"a", "a", "b">>, <<"a", "b", "b">>, <<"b", "b">>>>, <<<<>>>>}
\* The automaton reports exactly the patterns that occur in the text, whatever their case: a
\* failure link that is too short or an output set that is not merged loses a suffix pattern.
MatcherRight ==
  algo = "text" => \A ps \in PatternLists :
    /\ Matches(ps, input) = {i \in DOMAIN ps : ps[i] # <<>> /\ Occurs(ToLower(ps[i]), ToLower(input))}
    /\ MatchAny(ps, input) <=> (\E i \in DOMAIN ps : ps[i] # <<>> /\ Occurs(ToLower(ps[i]), ToLower(input)))

Sequences == {<<A, B>>, <<A, <<"a", "b">>, B>>, <<<<"A", "b">>, <<>>, A>>, <<<<>>>>}
\* An ordered sequence matches iff its literals can be placed one after the other, each at most
\* `within` bytes behind the end of the one before; trying only the first place is not enough.
SequenceRight ==
  algo = "text" => \A seq \in Sequences, within \in 0..2 :
    LET lits == SelectSeq([i \in DOMAIN seq |-> ToLower(seq[i])], LAMBDA l : l # <<>>)
        msg == ToLower(input)
    IN matchSequence(msg, seq, within) <=>
         \E at \in [DOMAIN lits -> 0..Len(msg)] : \A i \in DOMAIN lits :
            /\ at[i] \in Starts(lits[i], msg)
            /\ i > 1 => LET gap == at[i] - (at[i - 1] + Len(lits[i - 1])) IN gap >= 0 /\ (within > 0 => gap <= within)

RuleFiles == {<<[AnyRule EXCEPT !.contains = <<<<"_", "a">>, B>>], [AnyRule EXCEPT !.absent = <<A, <<>>>>], [AnyRule EXCEPT !.sequence = <<A, <<"b", "_">>>>, !.within = 1], [AnyRule EXCEPT !.contains = <<A>>, !.status = "draft"]>>,
              <<[AnyRule EXCEPT !.minSeverity = "HIGH"], [AnyRule EXCEPT !.contains = <<A>>, !.absent = <<<<"a", "b", "b">>>>], [AnyRule EXCEPT !.regex = <<"b", "A">>, !.category = "SECURITY"], [AnyRule EXCEPT !.fields = [f |-> A]]>>,
              <<[AnyRule EXCEPT !.minSeverity = "SEVERE"]>>, <<[AnyRule EXCEPT !.sequence = <<A>>, !.within = 1]>>}
EventsOf(msg) == {[category |-> "SECURITY", severity |-> "HIGH", message |-> msg, details |-> [ok |-> TRUE, map |-> [f |-> msg]]], [category |-> "SYSTEM", severity |-> "", message |-> msg, details |-> [ok |-> FALSE, map |-> <<>>]]}
\* The prefilter is invisible: the engine reports exactly the active rules whose conditions hold,
\* also the rules that have only negative, severity or field conditions and so no anchor; and no
\* accepted file has a severity floor that every event passes.
PrefilterInvisible ==
  algo = "text" => \A file \in RuleFiles, signed \in BOOLEAN :
    LET loaded == LoadRulesFileSigned(file, signed)
        e == NewEngine(WithDefaults(loaded.rules))
    IN loaded.ok => /\ \A ev \in EventsOf(input) : Evaluate(e, ev) = {i \in DOMAIN e.rules : Active(e.rules[i]) /\ matches(e.rules[i], ev)}
                    /\ \A i \in DOMAIN e.rules : e.rules[i].minSeverity # "" => ~matches(e.rules[i], [category |-> "", severity |-> "", message |-> input, details |-> [ok |-> FALSE, map |-> <<>>]])

Feed == <<[comment |-> FALSE, val |-> <<"A", "b">>, rest |-> <<[k |-> "conf", v |-> "low"]>>], [comment |-> TRUE, val |-> A, rest |-> <<>>],
          [comment |-> FALSE, val |-> <<"b", "b">>, rest |-> <<[k |-> "conf", v |-> "odd"], [k |-> "word", v |-> "bot"]>>], [comment |-> FALSE, val |-> <<"a", "b">>, rest |-> <<[k |-> "conf", v |-> "high"]>>]>>
\* An indicator is reported iff its value is a detail or occurs in the message; a detail wins, a
\* commented line never matches, the last line for a value decides its confidence, and an unsigned
\* list matches nothing.  A package is vulnerable iff an entry's product occurs in its name.
IndicatorsRight ==
  algo = "text" => \A details \in SUBSET {<<"_", "b", "B">>, <<"A", "b">>} : LET ds == {[i \in DOMAIN d |-> IF d[i] = "B" THEN "b" ELSE d[i]] : d \in details} set == LoadFileSigned(Feed, TRUE).set IN
    /\ MatchIndicator(set, ds, input) = IF ds # {} THEN {ToLower(TrimSpace(d)) : d \in ds} ELSE {v \in {<<"a", "b">>, <<"b", "b">>} : Occurs(v, ToLower(input))}
    /\ set[<<"a", "b">>].confidence = "high" /\ set[<<"b", "b">>].confidence = "medium"
    /\ Match(LoadFileSigned(Feed, FALSE).set, ds, input) = {}
    /\ vulnMatch(vulnLoad(<<[product |-> B, cve |-> "c"]>>), <<input>>) # {} <=> Occurs(B, input)

Windows == {0, 2}
\* the observations of a device inside [t, t + window]
Near(dev, t, window) == {i \in DOMAIN input : input[i].dev = dev /\ input[i].at \in t..(t + WindowOr(window))}
Times == {input[i].at : i \in DOMAIN input}
\* Brute force is reported for a device iff some window holds three failures, with the largest
\* number any window holds and sources from inside one such window; a log-on after a burst is
\* reported at the first success with three failures behind it, in whatever order events arrive.
BurstsRight ==
  algo = "logon" => \A w \in Windows :
    LET fails == SelectSeq(input, LAMBDA x : ~x.ok)
        n(d) == Max({0} \cup {Cardinality({i \in Near(d, t, w) : ~input[i].ok}) : t \in Times})
        Before(i, j) == input[i].at < input[j].at \/ (input[i].at = input[j].at /\ i < j)
        behind(j) == {i \in DOMAIN input : input[i].dev = input[j].dev /\ ~input[i].ok /\ Before(i, j) /\ input[j].at - input[i].at <= WindowOr(w)}
        hits(d) == {j \in DOMAIN input : input[j].dev = d /\ input[j].ok /\ Cardinality(behind(j)) >= 3}
        found == bruteforceAnalyze(fails, 0, w)
    IN /\ {<<f.dev, f.count>> : f \in found} = {<<d, n(d)>> : d \in {x \in Devices(input) : n(x) >= 3}}
       /\ \A f \in found : f.top # 0 => \E t \in Times : LET win == {i \in Near(f.dev, t, w) : ~input[i].ok} IN
            Cardinality(win) = f.count /\ f.sources = Cardinality({input[i].ip : i \in win} \ {0}) /\ \E i \in win : input[i].ip = f.top
       /\ {<<f.dev, f.at>> : f \in AnalyzeSuccessAfterBurst(input, 2, w)} = {<<d, Min({input[j].at : j \in hits(d)})>> : d \in {x \in Devices(input) : hits(x) # {}}}

\* With no tolerance a pair beacons iff its distinct times are at least three and evenly spaced; a
\* device fans out iff some window reaches two private peers, with the most any window reaches.
BeaconsRight ==
  algo = "conn" =>
    LET at(d, ip) == {input[i].at : i \in {j \in DOMAIN input : input[j].dev = d /\ input[j].ip = ip}}
        Even(T) == \E step \in 1..5 : T = {Min(T) + k * step : k \in 0..(Cardinality(T) - 1)}
    IN /\ beaconAnalyze(input, 2, 0) = {<<d, ip>> \in (1..2) \X (1..3) : Cardinality(at(d, ip)) >= 3 /\ Even(at(d, ip))}
       /\ \A w \in Windows :
            LET peers(d) == Max({0} \cup {Cardinality({input[i].ip : i \in Near(d, t, w)} \ {3}) : t \in Times})
            IN AnalyzeFanOut(input, 0, w) = {[dev |-> d, peers |-> peers(d)] : d \in {x \in Devices(input) : peers(x) >= 2}}

\* A tunnel is reported for a parent domain iff some window asks for three different names under
\* it; a trailing dot makes no other name, and the parent itself is no name under it.
TunnelsRight ==
  algo = "dns" => \A w \in Windows :
    LET names(t) == {TrimDot(input[i].domain) : i \in Near(1, t, w)} \ {<<"e", "c">>}
        most == Max({0} \cup {Cardinality(names(t)) : t \in Times})
    IN dnsAnalyze(input, 1, w) = IF most >= 3 THEN {[dev |-> 1, parent |-> <<"e", "c">>, count |-> most]} ELSE {}

\* An administrator is reported for a burst iff that many destructive actions fit one window, in
\* whatever order the entries come; the risk is 0..100 and no entry makes it fall below the burst's 50.
AdminsRight ==
  algo = "admin" => \A o \in {[DefaultOptions EXCEPT !.burst = 2, !.window = 2, !.start = 8, !.end = 2, !.known = [a \in {1} |-> {1}]], [DefaultOptions EXCEPT !.burst = 3, !.window = 0, !.start = 1, !.end = 5]} :
    LET rep == uebaAnalyze(input, o)
        fits == \E t \in Times : Cardinality({i \in DOMAIN input : input[i].dev = 1 /\ IsDestructive(input[i].action) /\ input[i].at \in t..(t + Defaulted(o).window)}) >= o.burst
    IN \A a \in DOMAIN rep : /\ "HIGH burst" \in rep[a].reasons <=> fits
                             /\ rep[a].risk \in 0..100 /\ (fits => rep[a].risk >= 50)
                             /\ rep[a].prof.newDevices > 0 => DOMAIN o.known # {}

Grave == [INFO |-> 0, LOW |-> 1, MEDIUM |-> 2, HIGH |-> 3, CRITICAL |-> 4]
\* Raising one factor never lowers a score or its band (zero means unspecified for asset and confidence), and
\* the score is 0..100.
ScoresRise ==
  algo = "factor" /\ input # <<>> =>
    LET f == input[1] IN
    /\ Score(f) \in 0..100
    /\ Score([f EXCEPT !.exposure = @ + 1]) >= Score(f) /\ Score([f EXCEPT !.exploit = @ + 1]) >= Score(f)
    /\ f.asset # 0 => Score([f EXCEPT !.asset = @ + 1]) >= Score(f)
    /\ f.conf # 0 => Score([f EXCEPT !.conf = @ + 1]) >= Score(f)
    /\ Grave[Band(Score([f EXCEPT !.exposure = @ + 1]))] >= Grave[Band(Score(f))]
    /\ \A s, t \in DOMAIN Grave : Grave[s] >= Grave[t] => IncidentExploitability(s) >= IncidentExploitability(t)
    /\ Score([f EXCEPT !.conf = 0]) >= Score(f) /\ Score([f EXCEPT !.asset = 0]) = Score([f EXCEPT !.asset = 3])
\* One more finding never lowers a device's aggregate, which is never below its worst finding.
AggregateGrows ==
  [][algo = "score" => Aggregate(input') >= Aggregate(input) /\ Aggregate(input') >= Max({input'[i] : i \in DOMAIN input'})]_analyticsVars
\* The parts of a fused score add up to it; the names given as its cause carry half of it and one
\* name fewer does not; dropping a signal raises the score only if the signal was below it.
FusionExplains ==
  algo = "signal" =>
    LET r == Fuse(input)
        Sum(n) == FoldLeft(LAMBDA a, x : a + x, 0, SubSeq(r.parts, 1, n))
    IN /\ r.num \in 0..(100 * r.den) /\ Sum(Len(r.parts)) = r.num
       /\ r.top # <<>> => 2 * Sum(Len(r.top)) >= r.num /\ 2 * Sum(Len(r.top) - 1) < r.num /\ \A i \in DOMAIN r.parts : i > Len(r.top) => r.parts[i] <= r.parts[Len(r.top)]
       /\ \A i \in DOMAIN input : LET c == Counterfactual(input, input[i].name) IN
            (c.den > 0 /\ c.num * r.den > r.num * c.den) => \E j \in DOMAIN input : input[j].name = input[i].name /\ Clamp(input[j].score, 0, 100) * r.den < r.num

Registry == FoldLeft(LAMBDA reg, x : IF x.op = "upsert" THEN Upsert(reg, x.rule) ELSE SetStatus(reg, x.rule.id, x.rule.status), <<>>, input)
\* No version of a rule is ever lost: each named version that was accepted is the current one or in
\* the history, whatever comes after it; retiring a rule takes it out of the active ones only until
\* the next upsert.
VersionsKept ==
  algo = "rule" =>
    /\ \A i \in DOMAIN input : (input[i].op = "upsert" /\ Validate(input[i].rule) /\ input[i].rule.version # "") =>
         LET e == Registry[input[i].rule.id] IN input[i].rule.version \in {e.rule.version} \cup {e.history[k].version : k \in DOMAIN e.history}
    /\ Stats(Registry).total - Stats(Registry).active = Cardinality({id \in DOMAIN Registry :
         \E i \in DOMAIN input : /\ input[i] = [op |-> "status", rule |-> [id |-> id, status |-> "retired"]] /\ (\E h \in 1..(i - 1) : input[h].op = "upsert" /\ input[h].rule.id = id /\ Validate(input[h].rule))
                                 /\ \A j \in (i + 1)..Len(input) : input[j].rule.id # id \/ (input[j].op = "upsert" /\ ~Validate(input[j].rule))
                                                                     \/ input[j] = [op |-> "status", rule |-> [id |-> id, status |-> "retired"]]})

Place(t) == IF t \in ToSet(Keywords) THEN CHOOSE i \in DOMAIN Keywords : Keywords[i] = t ELSE 0
\* Words added to a message move its technique only towards the more severe cases, so text that an
\* event carries along never hides the keyword of a graver one.
GraverOnly == [][algo = "word" /\ input # <<>> => Place(Classify("SECURITY", ToSet(input'))) <= Place(Classify("SECURITY", ToSet(input)))]_analyticsVars
=============================================================================
