-------------------------------- MODULE Scope --------------------------------
(* The scope and rules-of-engagement engine (server/internal/scope): which     *)
(* action an operator may aim at which target, and how often.  An engine is a  *)
(* record [global, perTenant, rl, lastSweep]; NoPolicy stands for a nil *Policy.*)
EXTENDS Naturals, Sequences, FiniteSets, SequencesExt, Functions

Actions == {"passive_scan", "active_scan", "exploitation", "remote_command",
            "policy_enforce", "quarantine", "restart", "lock", "wipe"}
Passive == 0
Active == 1
Remote == 2
HighImpact == 3
Destructive == 4

Known(a) == a \in Actions
ImpactOf(a) ==
  CASE a = "passive_scan" -> Passive
    [] a = "active_scan" -> Active
    [] a = "remote_command" -> Remote
    [] a \in {"policy_enforce", "quarantine", "restart", "lock"} -> HighImpact
    [] OTHER -> Destructive

NoPolicy == [none |-> TRUE]

\* A domain is the sequence of its labels, a network the set of its addresses.
domainMatch(pattern, host) ==
  \/ pattern = host
  \/ pattern # <<>> /\ Head(pattern) = "*" /\ IsSuffix(Tail(pattern), host)
cidrMatch(net, ip) == ip \in net

allowedEmpty(sel) == \A f \in DOMAIN sel : sel[f] = {}

\* strings.EqualFold over the spellings the model tells apart.
Fold(x) == IF x = "HOST" THEN "host" ELSE x

\* A field the target does not carry ("" / <<>> / 0) matches nothing.
matchSelector(sel, t) ==
  \/ t.domain # <<>> /\ \E d \in sel.domains : domainMatch(d, t.domain)
  \/ t.ip # 0 /\ \E n \in sel.networks : cidrMatch(n, t.ip)
  \/ t.device # "" /\ t.device \in sel.devices
  \/ t.tenant # "" /\ t.tenant \in sel.tenants
  \/ t.host # "" /\ \E h \in sel.hosts : Fold(h) = Fold(t.host)
  \/ t.env # "" /\ \E e \in sel.environments : Fold(e) = Fold(t.env)
  \/ t.port # 0 /\ t.port \in sel.ports

policyFor(eng, tenant) == IF tenant \in DOMAIN eng.perTenant THEN eng.perTenant[tenant] ELSE eng.global

New(global) == [global |-> global, perTenant |-> <<>>, rl |-> <<>>, lastSweep |-> 0]

(******************************* the rate limit *******************************)

limiterIdleTTL == 3   \* time.Minute * 15, scaled: longer than a refill
limiterSweepEvery == 1

\* A token bucket of one second's worth of tokens; last = 0 is a fresh bucket.
allow(b, rate, now) ==
  LET full == b.tokens + (now - b.last) * rate
      tokens == IF b.last = 0 \/ full > rate THEN rate ELSE full
  IN  [ok |-> tokens >= 1, b |-> [tokens |-> IF tokens >= 1 THEN tokens - 1 ELSE tokens, rate |-> rate, last |-> now]]

evictable(b, now) ==
  /\ b.last # 0
  /\ now - b.last > limiterIdleTTL
  /\ b.tokens + (now - b.last) * b.rate >= b.rate

\* Run only when a new key is added, and then before that bucket is used.
maybeSweepLocked(rl, lastSweep, now) ==
  IF lastSweep # 0 /\ now - lastSweep < limiterSweepEvery THEN [rl |-> rl, lastSweep |-> lastSweep]
  ELSE [rl |-> Restrict(rl, {k \in DOMAIN rl : ~evictable(rl[k], now)}), lastSweep |-> now]

Fresh == [tokens |-> 0, rate |-> 0, last |-> 0]

\* The verdict of the policy alone: everything in Authorize before the rate limit.
Verdict(p, t, a) ==
  CASE p = NoPolicy -> ImpactOf(a) = Passive
    [] p # NoPolicy /\ matchSelector(p.excluded, t) -> FALSE
    [] p # NoPolicy /\ ~matchSelector(p.excluded, t) ->
         /\ IF allowedEmpty(p.allowed) THEN ImpactOf(a) = Passive ELSE matchSelector(p.allowed, t)
         /\ IF a \in DOMAIN p.actions THEN p.actions[a] ELSE ImpactOf(a) # Destructive

Authorize(eng, t, a, now) ==
  LET p == policyFor(eng, t.tenant)
      key == <<t.tenant, a>>
      known == key \in DOMAIN eng.rl
      grown == IF known THEN eng.rl ELSE [x \in DOMAIN eng.rl \cup {key} |-> IF x = key THEN Fresh ELSE eng.rl[x]]
      swept == IF known THEN [rl |-> grown, lastSweep |-> eng.lastSweep] ELSE maybeSweepLocked(grown, eng.lastSweep, now)
      r == allow(swept.rl[key], p.rps, now)
  IN  IF ~Verdict(p, t, a) THEN [eng |-> eng, ok |-> FALSE]
      ELSE IF p = NoPolicy \/ p.rps = 0 THEN [eng |-> eng, ok |-> TRUE]
      ELSE [eng |-> [eng EXCEPT !.rl = [swept.rl EXCEPT ![key] = r.b], !.lastSweep = swept.lastSweep], ok |-> r.ok]

(********************************* sandbox ************************************)

=============================================================================
