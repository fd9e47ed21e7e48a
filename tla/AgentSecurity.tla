----------------------------- MODULE AgentSecurity -----------------------------
(* Package aisec and its handlers: signed telemetry of AI agents is verified,   *)
(* entered into the causality graph of its tenant and searched for chains from  *)
(* a credential over a distrusted agent to an external sink; and the package's  *)
(* pure gates for capabilities, tools, memory and context.  The gates and the   *)
(* tool firewall are libraries: the server calls the verifier and the graphs.   *)
EXTENDS Integers, SequencesExt, FiniteSetsExt

CONSTANTS MaxReports,    \* reports that arrive
          MaxWrites,     \* analysts' requests
          MaxAgentClock, \* last instant
          AgentMaxNodes, \* maxNodes of a graph (20000)
          AgentMaxEdges, \* maxEdges of a graph (50000)
          maxPartitions  \* tenants with a graph (1024)
ASSUME AgentAssumption == /\ MaxReports \in Nat /\ MaxWrites \in Nat /\ MaxAgentClock \in Nat
                          /\ {AgentMaxNodes, AgentMaxEdges, maxPartitions} \subseteq Nat \ {0}

VARIABLES agCase,  \* what the behaviour is about: "telemetry" or "console"
          parts,   \* tenant -> causality graph
          ownPart, \* ghost: acme's graph, had it the server for itself
          refused, \* ghost: a tenant found no room for its graph
          verifier, \* TrustVerifier: lastSeq and seen
          agTime, reports,
          handling, \* requests under way
          accepted, \* ghost: accepted reports since the last start, in order
          raced     \* ghost: two requests of one agent were under way at once
agentVars == <<agCase, parts, ownPart, refused, verifier, agTime, reports, handling, accepted, raced>>

-----------------------------------------------------------------------------
(* aisec.go, tenant.go: trust only falls *)
Tainted == 0
Untrusted == 1
Trusted == 2
ParseTrust(s) == CASE s = "TRUSTED" -> Trusted [] s = "TAINTED" -> Tainted [] OTHER -> Untrusted
PropagateTrust(a, b) == IF a < b THEN a ELSE b
ChainTrust(levels) == FoldLeft(PropagateTrust, Trusted, levels)
PrincipalExpired(expires, now) == expires # 0 /\ now >= expires
\* A delegation holds what everybody in its chain holds.
EffectiveCapabilities(sets) == IF sets = <<>> THEN {} ELSE {c \in sets[1] : \A i \in DOMAIN sets : c \in sets[i]}
normTenant(t) == IF t = "ACME " THEN "acme" ELSE t
EnforceTenantBoundary(issuer, target) ==
  IF normTenant(issuer) = "" \/ normTenant(issuer) # normTenant(target) THEN "DENY" ELSE "ALLOW"

(* dataflow.go, memory.go, tool.go *)
AgentCaps == {"credential.read", "external.write", "context.sanitize"}
EvaluateExfiltration(trust, eff) ==
  IF ~({"credential.read", "external.write"} \subseteq eff) THEN "ALLOW"
  ELSE CASE trust = Tainted -> "DENY" [] trust = Untrusted -> "REQUIRE_HUMAN" [] OTHER -> "ALLOW"
AbsorbToolOutput(trust) == PropagateTrust(trust, Untrusted)
\* verdict: what the sanitizer says, "none" if there is no sanitizer
SanitizeContext(current, eff, verdict) ==
  IF current = Tainted /\ "context.sanitize" \in eff /\ verdict = "clean" THEN Untrusted ELSE current
ValidateMemoryWrite(author, hash) == author # "" /\ hash # ""
MemoryExpired(ttl, writtenAt, now) == ttl > 0 /\ now >= writtenAt + ttl
ReadTrust(source, trust) == PropagateTrust(trust, source)
Privileged(c) == c \cap {"credential.read", "external.write"} # {}
AuthorizeTool(known, id, eff) == IF id \in known THEN "ALLOW" ELSE IF Privileged(eff) THEN "DENY" ELSE "REQUIRE_HUMAN"

\* toolfirewall.go: the first rule for the role and the tool decides.
AuthorizeToolCall(rules, call) ==
  LET fits == {i \in DOMAIN rules : call.role \in rules[i].roles /\ call.tool \in rules[i].tools}
      rule == rules[Min(fits)]
  IN /\ "" \notin {call.tenant, call.role, call.tool} /\ fits # {}
     /\ rule.blocked \cap call.params = {} /\ ~rule.dual

-----------------------------------------------------------------------------
(* causality.go: nodes and edges come and go first in, first out *)
EmptyCausality == [nodes |-> <<>>, order |-> <<>>, taint |-> <<>>, writes |-> <<>>]
Shed(s, max) == IF Len(s) >= max THEN Tail(s) ELSE s
AddNode(g, id, kind, trust) ==
  LET known == id \in DOMAIN g.nodes
      out == IF ~known /\ Len(g.order) >= AgentMaxNodes THEN {Head(g.order)} ELSE {}
      ids == ((DOMAIN g.nodes) \ out) \cup {id}
  IN IF id = "" THEN g
     ELSE [g EXCEPT !.nodes = [n \in ids |-> IF n = id THEN [kind |-> kind, trust |-> trust] ELSE g.nodes[n]],
                    !.order = IF known THEN @ ELSE Append(Shed(@, AgentMaxNodes), id)]
addTaint(g, e) == IF Contains(g.taint, e) THEN g ELSE [g EXCEPT !.taint = Append(Shed(@, AgentMaxEdges), e)]
AddWrite(g, agent, sink) == IF Contains(g.writes, <<agent, sink>>) THEN g ELSE [g EXCEPT !.writes = Append(Shed(@, AgentMaxEdges), <<agent, sink>>)]

\* One pass over the taint edges lowers what is reached; edges of nodes that are gone are skipped.
TaintPass(eff, taint) ==
  FoldLeft(LAMBDA x, e : IF {e[1], e[2]} \subseteq DOMAIN x /\ x[e[1]] < x[e[2]] THEN [x EXCEPT ![e[2]] = x[e[1]]] ELSE x, eff, taint)
EffectiveTrust(g) ==
  FoldLeft(LAMBDA x, i : TaintPass(x, g.taint), [n \in DOMAIN g.nodes |-> g.nodes[n].trust], [i \in 1..(Cardinality(DOMAIN g.nodes) + 1) |-> i])
KindIs(g, n, kind) == n \in DOMAIN g.nodes /\ g.nodes[n].kind = kind
readsOfKind(g, a, kind) == LET es == SelectSeq(g.taint, LAMBDA e : e[2] = a /\ KindIs(g, e[1], kind)) IN IF es = <<>> THEN "" ELSE es[1][1]
writesToKind(g, a, kind) == LET es == SelectSeq(g.writes, LAMBDA e : e[1] = a /\ KindIs(g, e[2], kind)) IN IF es = <<>> THEN "" ELSE es[1][2]
\* At most one finding for an agent; the map gives no order.
DetectExfiltration(g) ==
  LET eff == EffectiveTrust(g)
      finding(a) == [agent |-> a, credential |-> readsOfKind(g, a, "credential"), sink |-> writesToKind(g, a, "external"), trust |-> eff[a]]
  IN {f \in {finding(a) : a \in {n \in DOMAIN g.nodes : g.nodes[n].kind = "agent" /\ eff[n] <= Untrusted}} : f.credential # "" /\ f.sink # ""}

-----------------------------------------------------------------------------
(* service.go and adminapi/agentsec.go *)
OpKinds == {"node", "read", "write", "delegate", "influence"}
ObserveOp(g, x) ==
  CASE x.op = "node" -> AddNode(g, x.from, x.to, ParseTrust(x.trust))
    [] x.op = "read" -> addTaint(g, <<x.to, x.from>>)
    [] x.op = "write" -> AddWrite(g, x.from, x.to)
    [] OTHER -> addTaint(g, <<x.from, x.to>>)
PartOf(ps, t) == IF t \in DOMAIN ps THEN ps[t] ELSE EmptyCausality
withPart(ps, t, x) ==
  IF x.op \notin OpKinds THEN [ok |-> TRUE, ps |-> ps]
  ELSE IF t \notin DOMAIN ps /\ Cardinality(DOMAIN ps) >= maxPartitions THEN [ok |-> FALSE, ps |-> ps]
  ELSE [ok |-> TRUE, ps |-> [u \in (DOMAIN ps) \cup {t} |-> IF u = t THEN ObserveOp(PartOf(ps, t), x) ELSE ps[u]]]
\* Nothing of a request with an identity that is too long is applied.
validObservation(ops) == \A i \in DOMAIN ops : "long" \notin {ops[i].from, ops[i].to}

Findings(ps, t) == IF t \in DOMAIN ps THEN {[tenant |-> t, f |-> f] : f \in DetectExfiltration(ps[t])} ELSE {}
FindingsAll(ps) == UNION {Findings(ps, t) : t \in DOMAIN ps}
\* tenant "" is the platform: everything, unless it asks for one tenant
handleAgentSecFindings(ps, caller, asked) ==
  IF caller # "" THEN Findings(ps, caller) ELSE IF asked # "" THEN Findings(ps, normTenant(asked)) ELSE FindingsAll(ps)
severityForTrust(trust) == IF trust = Tainted THEN "CRITICAL" ELSE "HIGH"
\* The identity is made of tenant, agent, position and the time of the question.
FindingToEvent(x, i, now) ==
  [tenant |-> x.tenant, device |-> x.f.agent, severity |-> severityForTrust(x.f.trust), id |-> <<x.tenant, x.f.agent, i, now>>]
\* Every order the findings may come in
handleAgentSecCanonical(ps, caller, asked, now) ==
  {[i \in DOMAIN l |-> FindingToEvent(l[i], i - 1, now)] : l \in SetToSeqs(handleAgentSecFindings(ps, caller, asked))}

-----------------------------------------------------------------------------
(* trust.go *)
AgentWindow == 1  \* five minutes
AgentKeys == [b1 |-> "acme", b2 |-> "globex"]
\* What is tested before the lock, at the instant read then.
Screen(o, now) ==
  /\ o.agent \in DOMAIN AgentKeys
  /\ o.tenant # "" /\ normTenant(o.tenant) = AgentKeys[o.agent]
  /\ now - o.at <= AgentWindow /\ o.at - now <= AgentWindow
  /\ o.signer = o.agent
LastSeq(v, a) == IF a \in DOMAIN v.lastSeq THEN v.lastSeq[a] ELSE 0
\* Mutant: the sequence may repeat.
AdmitReportAgain(v, o, now) ==
  LET kept == {x \in v.seen : x.at >= now - AgentWindow}
  IN IF o.nonce = "" \/ \E x \in kept : x.agent = o.agent /\ x.nonce = o.nonce THEN [ok |-> FALSE, v |-> [v EXCEPT !.seen = kept]]
     ELSE [ok |-> TRUE, v |-> [seen |-> kept \cup {[agent |-> o.agent, nonce |-> o.nonce, at |-> o.at]},
                               lastSeq |-> [a \in (DOMAIN v.lastSeq) \cup {o.agent} |-> IF a = o.agent THEN o.seq ELSE v.lastSeq[a]]]]
\* What is tested and recorded under the lock.
AdmitReport(v, o, now) ==
  LET kept == {x \in v.seen : x.at >= now - AgentWindow}
  IN IF o.seq <= LastSeq(v, o.agent) \/ o.nonce = "" THEN [ok |-> FALSE, v |-> v]
     ELSE IF \E x \in kept : x.agent = o.agent /\ x.nonce = o.nonce THEN [ok |-> FALSE, v |-> [v EXCEPT !.seen = kept]]
     ELSE [ok |-> TRUE, v |-> [seen |-> kept \cup {[agent |-> o.agent, nonce |-> o.nonce, at |-> o.at]},
                               lastSeq |-> [a \in (DOMAIN v.lastSeq) \cup {o.agent} |-> IF a = o.agent THEN o.seq ELSE v.lastSeq[a]]]]

-----------------------------------------------------------------------------
(* Requests: what agents and analysts send *)
NodeOp(id, kind, trust) == [op |-> "node", from |-> id, to |-> kind, trust |-> trust]
EdgeOp(kind, from, to) == [op |-> kind, from |-> from, to |-> to, trust |-> ""]
Marks == {"TRUSTED", "TAINTED"}
\* A report marks its agent; one carries an identity too long.
Payload(o) == IF o.mark = "long" THEN <<NodeOp("bot", "agent", "TRUSTED"), EdgeOp("read", "bot", "long")>> ELSE <<NodeOp("bot", "agent", o.mark)>>
SignedReport(a, s, at, n) == [agent |-> a, tenant |-> AgentKeys[a], seq |-> s, at |-> at, nonce |-> n, mark |-> IF s = 2 THEN "TAINTED" ELSE "TRUSTED", signer |-> a]
SignedReports == {SignedReport("b1", s, at, n) : s \in 2..3, at \in {0, 2}, n \in {"n1", "n2"}} \cup {SignedReport("b1", 1, 0, "n1"), SignedReport("b2", 1, 1, "n1")}
OneReport == [agent |-> "b1", tenant |-> "acme", seq |-> 3, at |-> 1, nonce |-> "n1", mark |-> "TAINTED", signer |-> "b1"]
OddReports == {[OneReport EXCEPT !.tenant = "ACME "], [OneReport EXCEPT !.tenant = "globex"], [OneReport EXCEPT !.tenant = ""], [OneReport EXCEPT !.agent = "b9"],
               [OneReport EXCEPT !.nonce = ""], [OneReport EXCEPT !.signer = "b2"], [OneReport EXCEPT !.mark = "long"]}
Reports == SignedReports \cup OddReports
Analysts == [root |-> [tenant |-> "", role |-> "ADMIN"], lena |-> [tenant |-> "acme", role |-> "OPERATOR"],
             gina |-> [tenant |-> "globex", role |-> "OPERATOR"], vera |-> [tenant |-> "acme", role |-> "VIEWER"]]
Agents4 == <<"bot", "sub", "key", "web">>
Kind4 == [bot |-> "agent", sub |-> "agent", key |-> "credential", web |-> "external"]
Links == {EdgeOp("read", "bot", "key"), EdgeOp("read", "sub", "key"), EdgeOp("read", "sub", "web"), EdgeOp("influence", "web", "bot"),
          EdgeOp("delegate", "bot", "sub"), EdgeOp("delegate", "sub", "bot")}
Egress == {EdgeOp("write", "bot", "web"), EdgeOp("write", "sub", "web"), EdgeOp("gossip", "bot", "web")}
\* Any trust of the nodes, any three links in any order, one egress
Studies ==
  {[i \in 1..8 |-> IF i <= 4 THEN NodeOp(Agents4[i], Kind4[Agents4[i]], IF i \in low THEN "TAINTED" ELSE IF i = 4 THEN "odd" ELSE "TRUSTED") ELSE IF i < 8 THEN l[i - 4] ELSE w] :
     low \in {{}, {1}, {4}, {1, 2}}, l \in [1..3 -> Links], w \in Egress}
Extras == {<<NodeOp("mem", "memory", "TRUSTED")>>, <<NodeOp("sub", "agent", "TAINTED")>>, <<NodeOp("", "agent", "TAINTED")>>, <<EdgeOp("read", "bot", "web"), EdgeOp("write", "bot", "web")>>, <<EdgeOp("read", "long", "key")>>}

AgentInit ==
  /\ agCase \in {"telemetry", "console"} /\ parts = <<>> /\ ownPart = <<>> /\ refused = FALSE
  /\ verifier = [lastSeq |-> <<>>, seen |-> {}] /\ agTime = 0 /\ reports = 0 /\ handling = {} /\ accepted = <<>> /\ raced = FALSE
AgentRequest(stage, o, part, ops) == [stage |-> stage, o |-> o, now |-> agTime, part |-> part, todo |-> ops]

\* handleAgentSecTelemetry, two at a time: the first checks of Verify ...
handleAgentSecTelemetry ==
  /\ agCase = "telemetry" /\ reports < MaxReports /\ Cardinality(handling) < 2 /\ reports' = reports + 1
  /\ \E o \in Reports :
       /\ handling' = IF Screen(o, agTime) THEN handling \cup {AgentRequest("verify", o, normTenant(o.tenant), Payload(o))} ELSE handling
       /\ raced' = (raced \/ \E r \in handling : r.o.agent = o.agent)
  /\ UNCHANGED <<agCase, parts, ownPart, refused, verifier, agTime, accepted>>
\* ... the rest of it under the lock, which costs the sequence number even if the payload is no good ...
VerifyReport ==
  \E r \in handling :
    LET v == AdmitReport(verifier, r.o, r.now) go == v.ok /\ validObservation(r.todo) IN
    /\ r.stage = "verify" /\ verifier' = v.v
    /\ handling' = (handling \ {r}) \cup (IF go THEN {[r EXCEPT !.stage = "apply"]} ELSE {})
    /\ accepted' = IF v.ok THEN Append(accepted, [o |-> r.o, now |-> r.now, at |-> agTime]) ELSE accepted
    /\ UNCHANGED <<agCase, parts, ownPart, refused, agTime, reports, raced>>
\* ... and applyObservation, one lock for each node and edge; also the second half of handleAgentSecEvents.
applyObservation ==
  \E r \in handling :
    LET p == withPart(parts, r.part, Head(r.todo)) IN
    /\ r.stage = "apply" /\ parts' = p.ps /\ refused' = (refused \/ ~p.ok)
    /\ ownPart' = IF r.part = "acme" THEN withPart(ownPart, "acme", Head(r.todo)).ps ELSE ownPart
    /\ handling' = (handling \ {r}) \cup (IF Len(r.todo) = 1 THEN {} ELSE {[r EXCEPT !.todo = Tail(@)]})
    /\ UNCHANGED <<agCase, verifier, agTime, reports, accepted, raced>>
\* Operators and above; a caller of a tenant always writes into its own graph, the platform into its own
\* or the one it names.
handleAgentSecEvents ==
  /\ agCase = "console" /\ handling = {} /\ reports < MaxWrites /\ reports' = reports + 1
  /\ \E by \in DOMAIN Analysts, asked \in {"", "ACME "}, ops \in IF reports = 0 THEN Studies ELSE Extras :
       /\ Analysts[by].role # "VIEWER" /\ validObservation(ops) /\ (reports = 0 => by = "lena" /\ asked = "")
       /\ handling' = {AgentRequest("apply", OneReport, IF Analysts[by].tenant # "" THEN Analysts[by].tenant ELSE normTenant(asked), ops)}
  /\ UNCHANGED <<agCase, parts, ownPart, refused, verifier, agTime, accepted, raced>>
AgentTick == agCase = "telemetry" /\ agTime < MaxAgentClock /\ agTime' = agTime + 1 /\ UNCHANGED <<agCase, parts, ownPart, refused, verifier, reports, handling, accepted, raced>>
\* The server restarts: everything of this is in memory.
AgentRestart ==
  /\ agCase = "telemetry" /\ accepted # <<>> /\ parts' = <<>> /\ ownPart' = <<>> /\ verifier' = [lastSeq |-> <<>>, seen |-> {}]
  /\ handling' = {} /\ accepted' = <<>> /\ raced' = FALSE /\ UNCHANGED <<agCase, refused, agTime, reports>>
AgentNext == handleAgentSecTelemetry \/ VerifyReport \/ applyObservation \/ handleAgentSecEvents \/ AgentTick \/ AgentRestart
AgentSpec == AgentInit /\ [][AgentNext]_agentVars

-----------------------------------------------------------------------------
\* However requests and clock interleave, an agent's reports are accepted in the order of their numbers,
\* only from the agent itself, for its own tenant and fresh, and no nonce twice while it is fresh.
ReportsOnceInOrder ==
  \A j \in DOMAIN accepted :
    LET b == accepted[j] IN
      /\ b.o.signer = b.o.agent /\ AgentKeys[b.o.agent] = normTenant(b.o.tenant) /\ b.o.at \in (b.now - AgentWindow)..(b.now + AgentWindow)
      /\ \A i \in 1..(j - 1) : LET a == accepted[i] IN a.o.agent = b.o.agent => a.o.seq < b.o.seq /\ (a.o.nonce = b.o.nonce => a.o.at < b.at - AgentWindow)
\* When no two requests of an agent overlapped, its graph says what its last report said.
NewestReportStands ==
  LET mine == SelectSeq(accepted, LAMBDA x : x.o.agent = "b1" /\ x.o.mark \in Marks)
      top == Last(mine)
  IN (agCase = "telemetry" /\ ~raced /\ ~refused /\ handling = {} /\ mine # <<>>) => parts["acme"].nodes["bot"].trust = ParseTrust(top.o.mark)
\* The effective trust is the greatest assignment that neither exceeds a node's own trust nor rises along
\* a taint edge: the bounded relaxation reaches the fixpoint on every graph, cycles and lost nodes included.
TrustIsFixpoint ==
  \A t \in DOMAIN parts :
    LET g == parts[t] eff == EffectiveTrust(g)
        sound(f) == /\ \A n \in DOMAIN f : f[n] <= g.nodes[n].trust
                    /\ \A i \in DOMAIN g.taint : {g.taint[i][1], g.taint[i][2]} \subseteq DOMAIN f => f[g.taint[i][2]] <= f[g.taint[i][1]]
    IN sound(eff) /\ \A f \in [DOMAIN g.nodes -> Tainted..Trusted] : sound(f) => \A n \in DOMAIN f : f[n] <= eff[n]
\* A finding names a distrusted agent with a credential it read and a sink it wrote to, every such agent
\* has one, and in every order the answer may have its events differ in identity and name their tenant.
FindingsExact ==
  /\ \A t \in DOMAIN parts :
       LET g == parts[t] eff == EffectiveTrust(g)
           touches(es, a, i, kind) == {es[k][i] : k \in {j \in DOMAIN es : es[j][3 - i] = a /\ KindIs(g, es[j][i], kind)}}
       IN /\ \A f \in DetectExfiltration(g) : f.credential \in touches(g.taint, f.agent, 1, "credential") /\ f.sink \in touches(g.writes, f.agent, 2, "external")
          /\ {f.agent : f \in DetectExfiltration(g)} =
               {a \in DOMAIN g.nodes : /\ g.nodes[a].kind = "agent" /\ eff[a] # Trusted
                                       /\ touches(g.taint, a, 1, "credential") # {} /\ touches(g.writes, a, 2, "external") # {}}
  /\ \A caller \in {"", "acme"}, l \in handleAgentSecCanonical(parts, "", "", agTime) \cup handleAgentSecCanonical(parts, "acme", "globex", agTime) :
       IsInjective([i \in DOMAIN l |-> l[i].id]) /\ \A i \in DOMAIN l : l[i].tenant \in DOMAIN parts
\* A tenant's graph and its findings are what they would be without the other tenants, unless the table
\* of graphs was full; and no graph outgrows its bounds.
PartsApart ==
  /\ ~refused => PartOf(parts, "acme") = PartOf(ownPart, "acme") /\ handleAgentSecFindings(parts, "acme", "globex") = Findings(ownPart, "acme")
  /\ \A t \in DOMAIN parts : /\ ToSet(parts[t].order) = DOMAIN parts[t].nodes /\ IsInjective(parts[t].order) /\ Len(parts[t].order) <= AgentMaxNodes
                             /\ Len(parts[t].taint) <= AgentMaxEdges /\ Len(parts[t].writes) <= AgentMaxEdges
\* The gates only tighten: less trust, more capabilities or a longer chain of delegation never get a more
\* lenient answer, nothing an agent reads or sanitises makes it trusted, a rule added behind never
\* overrules one before it.
Strict(d) == CASE d = "ALLOW" -> 0 [] d = "REQUIRE_HUMAN" -> 1 [] OTHER -> 2
FirewallRules == {[roles |-> {"r"}, tools |-> ts, dual |-> dual, blocked |-> bs] : ts \in {{"x"}, {"x", "y"}}, dual \in BOOLEAN, bs \in {{}, {"p"}}}
GatesTighten ==
  LET calls == {[tenant |-> "acme", role |-> "r", tool |-> tool, params |-> ps] : tool \in {"x", "y"}, ps \in {{}, {"p"}}}
      levels == Tainted..Trusted
  IN /\ \A t \in levels, u \in levels, c \in SUBSET AgentCaps, d \in SUBSET AgentCaps :
          /\ t <= u /\ d \subseteq c => /\ Strict(EvaluateExfiltration(t, c)) >= Strict(EvaluateExfiltration(u, d))
                                        /\ Strict(AuthorizeTool({"x"}, "y", c)) >= Strict(AuthorizeTool({"x"}, "y", d))
          /\ \A v \in {"none", "clean", "refused"} : LET s == SanitizeContext(t, c, v) IN s >= t /\ (s = Trusted => t = Trusted)
          /\ ChainTrust(<<ReadTrust(u, t), AbsorbToolOutput(u)>>) <= PropagateTrust(PropagateTrust(t, u), Untrusted)
          /\ EffectiveCapabilities(<<c, d, AgentCaps>>) = c \cap d
     /\ \A r \in FirewallRules, q \in FirewallRules, x \in calls :
          (x.tool \in r.tools => AuthorizeToolCall(<<r, q>>, x) = AuthorizeToolCall(<<r>>, x)) /\ ~AuthorizeToolCall(<<q>>, [x EXCEPT !.tenant = ""])
AgentInvariant == ReportsOnceInOrder /\ NewestReportStands /\ TrustIsFixpoint /\ FindingsExact /\ PartsApart /\ (reports = 0 => GatesTighten)
=============================================================================
