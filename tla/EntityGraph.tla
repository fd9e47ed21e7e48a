----------------------------- MODULE EntityGraph -----------------------------
(* What the server remembers of who did what to whom: the entity graph with its *)
(* counters, LRU lists and budgets, the transition counts of process chains,    *)
(* the sweep of both, the console's questions to them, and the resolver of      *)
(* device identities.  Each operation runs under its structure's lock: a step.  *)
EXTENDS Integers, SequencesExt, FiniteSetsExt, TLC

CONSTANTS MaxEdgesPerTenant, MaxNodesPerTenant, MaxEdgesPerDevice, \* entitygraph.Limits
          maxEvictPerObserve, maxParentChain, MaxSources, MaxTargets, \* tables of the sequence model
          GraphTTL, MaxGraphTime, MaxFeeds

ASSUME GraphAssumption ==
  {MaxEdgesPerTenant, MaxNodesPerTenant, MaxEdgesPerDevice, maxEvictPerObserve, maxParentChain, MaxSources, MaxTargets, GraphTTL, MaxGraphTime, MaxFeeds} \subseteq Nat \ {0}

VARIABLES graph, seqs, resolver, graphTime, feeds,
          alone,  \* ghost: the graph if only the first tenant's devices had reported
          first   \* ghost: the identity a hardware address got first
graphVars == <<graph, seqs, resolver, graphTime, feeds, alone, first>>

Node(k, i, t) == [kind |-> k, id |-> i, tenant |-> t]
Count(f, k) == IF k \in DOMAIN f THEN f[k] ELSE 0
Keyed(f, k, v) == [x \in (DOMAIN f) \cup {k} |-> IF x = k THEN v ELSE f[x]]
Minus(f, K) == [x \in (DOMAIN f) \ K |-> f[x]]
Up(f, k) == Keyed(f, k, Count(f, k) + 1)
Down(f, k) == IF Count(f, k) <= 1 THEN Minus(f, {k}) ELSE Keyed(f, k, f[k] - 1)
Lru(l, t) == IF t \in DOMAIN l THEN l[t] ELSE <<>>
SetLru(l, t, q) == IF q = <<>> THEN Minus(l, {t}) ELSE Keyed(l, t, q)
ToFront(q, k) == <<k>> \o SelectSeq(q, LAMBDA x : x # k)

-----------------------------------------------------------------------------
(* The graph.  An edge is keyed by both ends and its relation.                 *)
EmptyGraph == [edge |-> <<>>, lru |-> <<>>, deg |-> <<>>, tenNodes |-> <<>>, own |-> <<>>, size |-> 0, dropped |-> 0, devDropped |-> 0, evicted |-> 0, pruned |-> 0]
addDeg(g, n) == [g EXCEPT !.tenNodes = IF Count(g.deg, n) = 0 THEN Up(@, n.tenant) ELSE @, !.deg = Up(@, n)]
decDeg(g, n) == [g EXCEPT !.tenNodes = IF Count(g.deg, n) <= 1 THEN Down(@, n.tenant) ELSE @, !.deg = Down(@, n)]
removeEdge(g, k) ==
  LET e == g.edge[k] t == k[1].tenant
      h == [g EXCEPT !.edge = Minus(@, {k}), !.lru = SetLru(@, t, SelectSeq(Lru(@, t), LAMBDA x : x # k)),
                     !.own = IF e.owner = "" THEN @ ELSE Down(@, <<t, e.owner>>), !.size = @ - 1]
  IN decDeg(decDeg(h, k[1]), k[2])
Fits(g, from, to) ==
  LET new == Cardinality({n \in {from, to} : Count(g.deg, n) = 0})
  IN Len(Lru(g.lru, from.tenant)) < MaxEdgesPerTenant /\ Count(g.tenNodes, from.tenant) + new <= MaxNodesPerTenant
\* Room is made from the tenant's own edges, the least recently seen first.
Evict(g, t) == [removeEdge(g, Last(Lru(g.lru, t))) EXCEPT !.evicted = @ + 1]
admit(g, from, to) ==
  LET h == FoldLeft(LAMBDA x, i : IF Fits(x, from, to) \/ Lru(x.lru, from.tenant) = <<>> THEN x ELSE Evict(x, from.tenant),
                    g, [i \in 1..maxEvictPerObserve |-> i])
  IN [ok |-> Fits(h, from, to), g |-> h]
\* seen is the server's time, ts what the device says
ObserveBy(g, owner, from, to, rel, ts, now) ==
  LET k == <<from, to, rel>> new == k \notin DOMAIN g.edge
      r == IF new THEN admit(g, from, to) ELSE [ok |-> TRUE, g |-> g]
      drop(x) == [x EXCEPT !.dropped = @ + 1]
      fresh == [first |-> ts, last |-> ts, seen |-> now, count |-> 0, owner |-> owner]
      added == [addDeg(addDeg(r.g, from), to) EXCEPT !.edge = Keyed(@, k, fresh), !.size = @ + 1, !.own = IF owner = "" THEN @ ELSE Up(@, <<from.tenant, owner>>)]
      h == IF new THEN added ELSE g
      e == h.edge[k]
  IN IF from.tenant # to.tenant \/ "long" \in {from.id, to.id} THEN drop(g)
     ELSE IF new /\ owner # "" /\ Count(g.own, <<from.tenant, owner>>) >= MaxEdgesPerDevice THEN [drop(g) EXCEPT !.devDropped = @ + 1]
     ELSE IF ~r.ok THEN drop(r.g)
     ELSE [h EXCEPT !.edge[k] = [e EXCEPT !.seen = now, !.count = @ + 1, !.last = Max({@, ts}), !.first = Min({@, ts})],
                    !.lru = SetLru(@, from.tenant, ToFront(Lru(@, from.tenant), k))]
removeWhere(g, K) == [FoldSet(LAMBDA k, x : removeEdge(x, k), g, K) EXCEPT !.pruned = @ + Cardinality(K)]
\* A date in the future must not pin an edge, so the server's time counts too.
Sweep(g, cutoff) == removeWhere(g, {k \in DOMAIN g.edge : g.edge[k].last < cutoff \/ g.edge[k].seen < cutoff})
Rel(k, rel) == rel = "" \/ k[3] = rel
Targets(g, n, rel) == {k[2] : k \in {j \in DOMAIN g.edge : j[1] = n /\ Rel(j, rel)}}
Sources(g, n, rel) == {k[1] : k \in {j \in DOMAIN g.edge : j[2] = n /\ Rel(j, rel)}}
Like(g, kind, id) == {n \in DOMAIN g.deg : n.kind = kind /\ n.id = id}
TargetsAny(g, kind, id, rel) == UNION {Targets(g, n, rel) : n \in Like(g, kind, id)}
SourcesAny(g, kind, id, rel) == UNION {Sources(g, n, rel) : n \in Like(g, kind, id)}
OutEdges(g, n) == {k \in DOMAIN g.edge : k[1] = n}
Features(g, n, rare) ==
  [fanOut |-> Cardinality(OutEdges(g, n)), fanIn |-> Cardinality({k \in DOMAIN g.edge : k[2] = n}), rareEdges |-> Cardinality({k \in OutEdges(g, n) : g.edge[k].count <= rare})]
FeaturesAny(g, kind, id, rare) ==
  [f \in {"fanOut", "fanIn", "rareEdges"} |-> FoldSet(LAMBDA n, x : x + Features(g, n, rare)[f], 0, Like(g, kind, id))]
NodesByKind(g, kind) == {n \in DOMAIN g.deg : n.kind = kind}
NodesByKindFor(g, kind, t) == {n \in NodesByKind(g, kind) : n.tenant = t}
Reachable(g, start, maxDepth) ==
  LET wave[d \in 0..maxDepth] == IF d = 0 THEN {start} ELSE wave[d - 1] \cup UNION {Targets(g, n, "") : n \in wave[d - 1]}
  IN wave[maxDepth] \ {start}

(* attackpath.go: paths that visit no node twice, each edge of its own *)
PathNodes(p) == IF p = <<>> THEN <<>> ELSE <<p[1][1]>> \o [i \in DOMAIN p |-> p[i][2]]
FindPaths(g, source, target, maxHops) ==
  LET open[h \in 0..maxHops] ==
        IF h = 0 THEN {<<>>}
        ELSE LET step(p) == IF p # <<>> /\ Last(p)[2] = target THEN {}
                            ELSE {Append(p, k) : k \in {j \in OutEdges(g, IF p = <<>> THEN source ELSE Last(p)[2]) : j[2] # source /\ j[2] \notin Range(PathNodes(p))}}
             IN UNION {step(p) : p \in open[h - 1]}
  IN {p \in UNION {open[h] : h \in 1..maxHops} : Last(p)[2] = target}
IdentifyChokePoints(paths, start, target) ==
  LET on(p) == Range(PathNodes(p)) \ {start, target}
  IN [n \in UNION {on(p) : p \in paths} |-> Cardinality({p \in paths : n \in on(p)})]

-----------------------------------------------------------------------------
(* seqmodel.go: how often a process started another, per tenant *)
EmptyModel == [trans |-> <<>>, lru |-> <<>>, dropped |-> 0, evicted |-> 0, pruned |-> 0]
SumOf(f) == FoldFunction(LAMBDA a, b : a + b, 0, f)
seqDrop(m, a) == [m EXCEPT !.trans = Minus(@, {a}), !.lru = SelectSeq(@, LAMBDA x : x # a)]
Learn(m, a, b, now) ==
  LET known == a \in DOMAIN m.trans
      room == IF known \/ Cardinality(DOMAIN m.trans) < MaxSources THEN m ELSE [seqDrop(m, Last(m.lru)) EXCEPT !.evicted = @ + 1]
      src == IF known THEN m.trans[a] ELSE [targets |-> <<>>, total |-> 0, last |-> now]
      full == b \notin DOMAIN src.targets /\ Cardinality(DOMAIN src.targets) >= MaxTargets
      next == IF full THEN [src EXCEPT !.last = now] ELSE [targets |-> Up(src.targets, b), total |-> src.total + 1, last |-> now]
  IN IF "long" \in {a, b} THEN [m EXCEPT !.dropped = @ + 1]
     ELSE [room EXCEPT !.trans = Keyed(@, a, next), !.lru = ToFront(@, a), !.dropped = IF full THEN @ + 1 ELSE @]
seqObserve(m, tokens, now) == FoldLeft(LAMBDA x, i : Learn(x, tokens[i], tokens[i + 1], now), m, [i \in 1..Max({0, Len(tokens) - 1}) |-> i])
seqPrune(m, before) ==
  LET old == {a \in DOMAIN m.trans : m.trans[a].last < before}
  IN [FoldSet(LAMBDA a, x : seqDrop(x, a), m, old) EXCEPT !.pruned = @ + Cardinality(old)]
ModelOf(t) == IF t \in DOMAIN seqs THEN seqs[t] ELSE EmptyModel
\* hundredths of how rare a transition is; what was never seen is the rarest
rarity(m, a, b) == IF a \notin DOMAIN m.trans \/ m.trans[a].total = 0 \/ Count(m.trans[a].targets, b) = 0 THEN 100 ELSE 100 - (100 * m.trans[a].targets[b]) \div m.trans[a].total
SeqScore(m, tokens) ==
  LET n == Len(tokens) - 1 IN IF n < 1 THEN 0 ELSE FoldLeft(LAMBDA x, i : x + rarity(m, tokens[i], tokens[i + 1]), 0, [i \in 1..n |-> i]) \div n

-----------------------------------------------------------------------------
(* resolution.go: hardware address before name before a current lease *)
generateID(tenant, kind, base) == <<tenant, kind, base>>
EmptyResolver == [mac |-> <<>>, host |-> <<>>, lease |-> <<>>]
\* the name first: a renamed machine takes the identity of the name's last owner
ResolveByHost(r, t, ip, mac, host, ts) ==
  LET node == IF host # "" /\ <<t, host>> \in DOMAIN r.host THEN r.host[<<t, host>>] ELSE generateID(t, "device", IF mac # "" THEN mac ELSE host)
  IN [node |-> node, r |-> [mac |-> Keyed(r.mac, <<t, mac>>, node), host |-> Keyed(r.host, <<t, host>>, node), lease |-> r.lease]]
ResolveDevice(r, t, ip, mac, host, ts) ==
  LET leased == <<t, ip>> \in DOMAIN r.lease /\ r.lease[<<t, ip>>].at <= ts
      base == IF mac # "" THEN mac ELSE IF host # "" THEN host ELSE IF ip # "" THEN ip ELSE "unknown-" \o ToString(ts)
      node == IF mac # "" /\ <<t, mac>> \in DOMAIN r.mac THEN r.mac[<<t, mac>>]
              ELSE IF host # "" /\ <<t, host>> \in DOMAIN r.host THEN r.host[<<t, host>>]
              ELSE IF mac = "" /\ host = "" /\ ip # "" /\ leased THEN r.lease[<<t, ip>>].node
              ELSE generateID(t, "device", base)
      held == <<t, ip>> \notin DOMAIN r.lease \/ r.lease[<<t, ip>>].at < ts \/ r.lease[<<t, ip>>].node = node
  IN [node |-> node,
      r |-> [mac |-> IF mac = "" THEN r.mac ELSE Keyed(r.mac, <<t, mac>>, node),
             host |-> IF host = "" THEN r.host ELSE Keyed(r.host, <<t, host>>, node),
             lease |-> IF ip # "" /\ held THEN Keyed(r.lease, <<t, ip>>, [node |-> node, at |-> ts]) ELSE r.lease]]

-----------------------------------------------------------------------------
(* The feed from ingested events, the sweep and the questions *)
Fleet == [d1 |-> "acme", d2 |-> "acme", d3 |-> "globex"]
Plain == [domain |-> "", ip |-> "", process |-> "", chain |-> <<>>]
Sightings == {[Plain EXCEPT !.domain = "dom"], [Plain EXCEPT !.ip = "ip1", !.domain = "long"],
         [Plain EXCEPT !.process = "p", !.chain = <<"q", "r", "s">>], [Plain EXCEPT !.ip = "ip1", !.process = "p", !.chain = <<"long", "q">>]}
graphStr(s) == s # "" /\ s # "long"
observeGraph(g, d, e, ts, now) ==
  LET t == Fleet[d] dev == Node("device", d, t)
      to(x, kind, id, rel) == IF graphStr(id) THEN ObserveBy(x, d, dev, Node(kind, id, t), rel, ts, now) ELSE x
      chain == SelectSeq(SubSeq(e.chain, 1, Min({Len(e.chain), maxParentChain})), graphStr)
      child(i) == Node("process", IF i = 1 THEN e.process ELSE chain[i - 1], t)
      h == to(to(g, "domain", e.domain, "resolved"), "ip", e.ip, "connected")
  IN IF ~graphStr(e.process) THEN h
     ELSE FoldLeft(LAMBDA x, i : ObserveBy(x, d, child(i), Node("process", chain[i], t), "child_of", ts, now), h, [i \in DOMAIN chain |-> i])
Lineage(e) == LET chain == SelectSeq(SubSeq(e.chain, 1, Min({Len(e.chain), maxParentChain})), graphStr)
              IN IF ~graphStr(e.process) \/ chain = <<>> THEN <<>> ELSE Append(Reverse(chain), e.process)

GraphInit == graph = EmptyGraph /\ alone = EmptyGraph /\ seqs = <<>> /\ resolver = EmptyResolver /\ graphTime = 1 /\ feeds = 0 /\ first = <<>>
GraphFeed ==
  \E d \in DOMAIN Fleet, e \in Sightings, ts \in {graphTime, MaxGraphTime + 1} :
    /\ feeds < MaxFeeds /\ feeds' = feeds + 1
    /\ graph' = observeGraph(graph, d, e, ts, graphTime)
    /\ alone' = IF Fleet[d] = "acme" THEN observeGraph(alone, d, e, ts, graphTime) ELSE alone
    /\ seqs' = IF Lineage(e) = <<>> THEN seqs ELSE Keyed(seqs, Fleet[d], seqObserve(ModelOf(Fleet[d]), Lineage(e), graphTime))
    /\ UNCHANGED <<resolver, graphTime, first>>
\* A library: the server does not call it yet.
ResolveIdentity ==
  \E t \in {"acme", "globex"}, ip \in {"", "ip1"}, mac \in {"", "m1", "m2"}, host \in {"", "h1"}, ts \in 1..MaxGraphTime :
    LET r == ResolveDevice(resolver, t, ip, mac, host, ts) IN
    /\ feeds < MaxFeeds /\ feeds' = feeds + 1 /\ resolver' = r.r
    /\ first' = IF mac = "" \/ <<t, mac>> \in DOMAIN first THEN first ELSE Keyed(first, <<t, mac>>, r.node)
    /\ UNCHANGED <<graph, alone, seqs, graphTime>>
sweepBoundedState ==
  LET cutoff == graphTime - GraphTTL IN
    /\ cutoff > 0 /\ graph' = Sweep(graph, cutoff) /\ alone' = Sweep(alone, cutoff)
    /\ seqs' = [t \in DOMAIN seqs |-> seqPrune(seqs[t], cutoff)] /\ UNCHANGED <<resolver, graphTime, feeds, first>>
GraphTick == graphTime < MaxGraphTime /\ graphTime' = graphTime + 1 /\ UNCHANGED <<graph, alone, seqs, resolver, feeds, first>>
\* Graph and resolver share nothing: a behaviour feeds one of them.
GraphNext ==
  \/ resolver = EmptyResolver /\ (GraphFeed \/ sweepBoundedState)
  \/ graph = EmptyGraph /\ ResolveIdentity
  \/ GraphTick

handleGraphPivot(g, caller, kind, id, rel, targets) ==
  IF caller = "" THEN IF targets THEN TargetsAny(g, kind, id, rel) ELSE SourcesAny(g, kind, id, rel)
  ELSE IF targets THEN Targets(g, Node(kind, id, caller), rel) ELSE Sources(g, Node(kind, id, caller), rel)
ScoreGraphFeatures(f) == Min({100, Min({40, 4 * f.fanOut}) + Min({40, 8 * f.rareEdges})})
handleGraphAnomaly(g, caller, kind, id) ==
  LET f == IF caller = "" THEN FeaturesAny(g, kind, id, 1) ELSE Features(g, Node(kind, id, caller), 1)
  IN  [features |-> f, score |-> ScoreGraphFeatures(f)]
ExecuteHunt(g, tenant, all, kind) ==
  {n \in IF all THEN NodesByKind(g, kind) ELSE NodesByKindFor(g, kind, tenant) : \E k \in OutEdges(g, n) : g.edge[k].count <= 2}
seqTenant(caller, asked, deployment) == IF caller # "" THEN caller ELSE IF asked # "" THEN asked ELSE deployment
handleSequenceScore(caller, asked, tokens) == SeqScore(ModelOf(seqTenant(caller, asked, "acme")), tokens)

-----------------------------------------------------------------------------
\* The counters the graph maintains step by step are those of its edges: degrees, nodes per tenant,
\* edges per device, the size; the LRU lists hold each edge once.
CountersMatch ==
  LET E == DOMAIN graph.edge
      deg(n) == Cardinality({k \in E : k[1] = n}) + Cardinality({k \in E : k[2] = n})
  IN /\ graph.size = Cardinality(E) /\ DOMAIN graph.deg = {k[1] : k \in E} \cup {k[2] : k \in E}
     /\ \A n \in DOMAIN graph.deg : graph.deg[n] = deg(n)
     /\ \A t \in DOMAIN graph.tenNodes : graph.tenNodes[t] = Cardinality({n \in DOMAIN graph.deg : n.tenant = t})
     /\ \A o \in DOMAIN graph.own : graph.own[o] = Cardinality({k \in E : k[1].tenant = o[1] /\ graph.edge[k].owner = o[2]})
     /\ UNION {Range(graph.lru[t]) : t \in DOMAIN graph.lru} = E
     /\ \A t \in DOMAIN graph.lru : IsInjective(graph.lru[t]) /\ \A k \in Range(graph.lru[t]) : k[1].tenant = t
\* No tenant, device or table grows over its budget, whatever is reported.
BudgetsHold ==
  /\ \A t \in DOMAIN graph.lru : Len(graph.lru[t]) <= MaxEdgesPerTenant /\ graph.tenNodes[t] <= MaxNodesPerTenant
  /\ \A o \in DOMAIN graph.own : graph.own[o] <= MaxEdgesPerDevice
  /\ \A t \in DOMAIN seqs : /\ Cardinality(DOMAIN seqs[t].trans) <= MaxSources /\ Range(seqs[t].lru) = DOMAIN seqs[t].trans
                            /\ \A a \in DOMAIN seqs[t].trans : Cardinality(DOMAIN seqs[t].trans[a].targets) <= MaxTargets
                                                               /\ seqs[t].trans[a].total = SumOf(seqs[t].trans[a].targets)
\* A tenant's part of the graph, and every answer from it, is what it would be without the other tenants.
TenantIndependent ==
  LET mine == {k \in DOMAIN graph.edge : k[1].tenant = "acme"}
  IN /\ [k \in mine |-> graph.edge[k]] = alone.edge /\ Lru(graph.lru, "acme") = Lru(alone.lru, "acme")
     /\ \A n \in {Node("process", "p", "acme"), Node("device", "d1", "acme"), Node("ip", "ip1", "acme")} :
          /\ handleGraphAnomaly(graph, "acme", n.kind, n.id) = handleGraphAnomaly(alone, "acme", n.kind, n.id)
          /\ ExecuteHunt(graph, "acme", FALSE, n.kind) = ExecuteHunt(alone, "acme", FALSE, n.kind)
          /\ \A b \in BOOLEAN : handleGraphPivot(graph, "acme", n.kind, n.id, "", b) = handleGraphPivot(alone, "acme", n.kind, n.id, "", b)
                                /\ handleGraphPivot(graph, "acme", n.kind, n.id, "", b) \subseteq handleGraphPivot(graph, "", n.kind, n.id, "", b)
     /\ \A t \in {"", "acme", "globex"} : handleSequenceScore("acme", t, <<"q", "p">>) = SeqScore(ModelOf("acme"), <<"q", "p">>)
\* A node is reachable within some hops if and only if a path of that length is found, and a node all
\* found paths run through is the only way: without it nothing is reached.
PathsAgree ==
  \A s \in DOMAIN graph.deg : \A t \in (DOMAIN graph.deg) \ {s} :
    LET paths == FindPaths(graph, s, t, 3) choke == IdentifyChokePoints(paths, s, t)
    IN /\ t \in Reachable(graph, s, 3) <=> paths # {}
       /\ \A n \in DOMAIN choke : choke[n] = Cardinality(paths) <=>
            FindPaths([graph EXCEPT !.edge = Minus(@, {k \in DOMAIN @ : n \in {k[1], k[2]}})], s, t, 3) = {}
\* A hardware address keeps the identity it got first, and no identity is shared between tenants.
IdentityKept ==
  /\ \A k \in DOMAIN first : resolver.mac[k] = first[k]
  /\ \A k \in DOMAIN resolver.mac : resolver.mac[k][1] = k[1]
GraphInvariant == CountersMatch /\ BudgetsHold /\ TenantIndependent /\ PathsAgree /\ IdentityKept
\* A sweep leaves no edge the server has not seen since the cut-off, however far in the future its events are dated.
SweepForgets == [][(graph'.pruned > graph.pruned) => \A k \in DOMAIN graph'.edge : graph'.edge[k].seen >= graphTime - GraphTTL]_graphVars
=============================================================================
