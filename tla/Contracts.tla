------------------------------- MODULE Contracts -------------------------------
(* Packages seccontract, secgateway, authz and commandplane: how an action is   *)
(* authorised, granted once, turned into one execution intent, signed and       *)
(* verified.  Hashes are the tuples they are taken over.  Two executors work on *)
(* the same store; a policy change may fall between what an executor reads and  *)
(* what it writes.  Time is counted in steps of half a minute.                  *)
EXTENDS Scope

CONSTANTS Executors, MaxTime, MaxGrants
ASSUME ContractAssumption == Executors # {} /\ MaxTime \in Nat /\ MaxGrants \in Nat

VARIABLES now,      \* the clock
          policy,   \* the hash of the effective policy
          hits,     \* authz.Gateway.hits: requester -> times of its high-impact operations
          grants,   \* every grant ever minted
          used,     \* approvals consumed
          consumed, \* grants consumed
          intents,  \* execution intents
          call      \* executor -> the call it is in
contractVars == <<now, policy, hits, grants, used, consumed, intents, call>>

(********************************** requests **********************************)

trimLowerSpace(t) == IF t = " T1" THEN "t1" ELSE t
\* "" stands for the error as well as for the missing tenant.
NormTenant(t) == trimLowerSpace(t)

canonicalTargets(ts) == {ts[i] : i \in DOMAIN ts} \ {""}
TargetsHash(ts) == canonicalTargets(ts)
RequestHash(r) == <<trimLowerSpace(r.tenant), r.principal, r.action, canonicalTargets(r.targets)>>
EffectiveImpact(r) == ImpactOf(r.action)

aiAllowedCaps == {"incident.read", "evidence.metadata.read", "hunt.read", "recommend.action"}
CapabilityAllowed(p, c) == p.type = "ai" => c \in aiAllowedCaps

Deny(reason) == [result |-> "DENY", reason |-> reason]
NeedApproval(reason) == [result |-> "NEED_APPROVAL", reason |-> reason]
Allow(g) == [result |-> "ALLOW", grant |-> g]
(******************************* authz.Gateway ********************************)

\* DefaultPolicy, scaled from 500 devices, 3 devices and 30 operations a minute.
DefaultPolicy == [SoftBlastRadius |-> 1, HardAutonomousRadius |-> 1, HighImpactPerMin |-> 1]
Minute == 2
rateKeyCap == 0

checkBlastRadius(r) ==
  CASE r.requester # "human" -> IF r.count > DefaultPolicy.HardAutonomousRadius THEN "deny" ELSE "allow"
    [] r.requester = "human" -> IF r.count > DefaultPolicy.SoftBlastRadius /\ ~r.confirmed THEN "approval" ELSE "allow"

\* The times of the last minute, in order.
Recent(ts, at) ==
  LET keep[i \in 0..Len(ts)] ==
        IF i = 0 THEN <<>> ELSE IF ts[i] + Minute > at THEN Append(keep[i - 1], ts[i]) ELSE keep[i - 1]
  IN  keep[Len(ts)]
\* Keys without a recent hit are dropped first once there are too many keys.
pruneHits(h, at) ==
  IF Cardinality(DOMAIN h) > rateKeyCap THEN Restrict(h, {k \in DOMAIN h : Recent(h[k], at) # <<>>}) ELSE h
checkRate(h, key, at) ==
  LET kept == IF key \in DOMAIN pruneHits(h, at) THEN Recent(h[key], at) ELSE <<>>
      ok == Len(kept) < DefaultPolicy.HighImpactPerMin
      set(v) == [k \in DOMAIN pruneHits(h, at) \cup {key} |-> IF k = key THEN v ELSE h[k]]
  IN  [ok |-> ok, hits |-> set(IF ok THEN Append(kept, at) ELSE kept)]

gatewayAuthorize(h, r, at) ==
  LET blast == checkBlastRadius([r EXCEPT !.count = IF @ < 1 THEN 1 ELSE @])
      rate == checkRate(h, <<r.requester, r.principal>>, at)
  IN  IF ImpactOf(r.action) < HighImpact THEN [code |-> "allow", hits |-> h]
      ELSE IF blast # "allow" THEN [code |-> blast, hits |-> h]
      ELSE [code |-> IF rate.ok THEN "allow" ELSE "rate", hits |-> rate.hits]

(****************************** secgateway.Gateway ****************************)

mapRequester(t) ==
  CASE t = "human" -> "human" [] t = "ai" -> "ai"
    [] t \in {"soar", "autoresponder"} -> "soar" [] t \in {"rule", "scheduled"} -> "rule" [] OTHER -> ""
translate(code) == CASE code \in {"deny", "approval"} -> "BLAST_RADIUS_EXCEEDED" [] code = "rate" -> "RATE_LIMITED" [] OTHER -> "SCOPE_DENY"

GrantTTL == 2
NewGrant(id, r, hash, at, by) ==
  [id |-> id, request |-> RequestHash(r), policy |-> hash, tenant |-> r.tenant, principal |-> r.principal, action |-> r.action,
   targets |-> TargetsHash(r.targets), at |-> at, expires |-> at + GrantTTL, by |-> by]

\* What Gateway.Authorize decides, and the hits it leaves behind.
secAuthorize(r) ==
  LET g == gatewayAuthorize(hits, [requester |-> mapRequester(r.principal.type), principal |-> r.principal.id, action |-> r.action,
                                   count |-> Len(r.targets), confirmed |-> r.confirmed], now)
      early == IF NormTenant(r.tenant) = "" THEN "TENANT_MISMATCH"
               ELSE IF mapRequester(r.principal.type) = "" THEN "RBAC_DENY"
               ELSE IF r.targets = <<>> /\ EffectiveImpact(r) >= HighImpact THEN "SCOPE_DENY" ELSE ""
  IN  IF early # "" THEN [d |-> Deny(early), hits |-> hits]
      ELSE [hits |-> g.hits,
            d |-> CASE g.code = "allow" -> Allow(NewGrant(Cardinality(grants), r, policy, now, "gateway"))
                    [] g.code = "approval" -> NeedApproval(translate(g.code))
                    [] OTHER -> Deny(translate(g.code))]

(*************************** approvals and execution **************************)

\* An approval as the caller holds it; its copy may be older than the store.
FinalizeAuthorization(r, ap) ==
  IF ap.state # "APPROVED" THEN Deny("APPROVAL_ALREADY_CONSUMED")
  ELSE IF now >= ap.expires THEN Deny("APPROVAL_EXPIRED")
  ELSE IF ap.requester = ap.approver THEN Deny("DUAL_CONTROL_REQUIRED")
  ELSE IF ap.request # RequestHash(r) THEN Deny("APPROVAL_BINDING_MISMATCH")
  ELSE IF ap.action # r.action \/ ap.targets # TargetsHash(r.targets) THEN Deny("TARGET_CHANGED")
  ELSE IF ap.policy # policy THEN Deny("POLICY_CHANGED")
  ELSE IF trimLowerSpace(ap.tenant) # trimLowerSpace(r.tenant) THEN Deny("TENANT_MISMATCH")
  ELSE IF ap.id \in used THEN Deny("APPROVAL_ALREADY_CONSUMED")
  ELSE Allow(NewGrant(Cardinality(grants), r, policy, now, ap.id))

checkBinding(g, r, hash, at) ==
  CASE at >= g.expires -> "GRANT_EXPIRED"
    [] at < g.expires /\ (\/ trimLowerSpace(g.tenant) # trimLowerSpace(r.tenant) \/ g.request # RequestHash(r)
                          \/ g.policy # hash \/ g.action # r.action \/ g.targets # TargetsHash(r.targets)) -> "GRANT_MISMATCH"
    [] OTHER -> "ok"

\* Mutant: the grant is not looked up before it is used.
ConsumeGrantAgain(g, r, hash, at) == checkBinding(g, r, hash, at)
\* What consuming the grant g answers: the same rules in the replay store and in the security store.
ConsumeGrant(g, r, hash, at) == IF g.id \in consumed THEN "GRANT_REPLAYED" ELSE checkBinding(g, r, hash, at)

ExecutorSymmetry == Permutations(Executors)

(********************************* the actors *********************************)

Human(id) == [type |-> "human", id |-> id]
Request(tenant, p, action, targets, confirmed) ==
  [tenant |-> tenant, principal |-> p, action |-> action, targets |-> targets, confirmed |-> confirmed]
WipeTwo == Request(" T1", Human("h1"), "wipe", <<"d1", "", "d2", "d1">>, FALSE)
Requests ==
  { WipeTwo, Request("t1", Human("h1"), "lock", <<"d1">>, FALSE),
    Request("t1", [type |-> "ai", id |-> "m"], "lock", <<"d1">>, FALSE), Request("t1", [type |-> "rule", id |-> "m"], "lock", <<"d2">>, FALSE),
    Request("t1", [type |-> "bot", id |-> "m"], "active_scan", <<>>, FALSE), Request("t2", Human("h1"), "wipe", <<>>, TRUE) }
Approvals ==
  { [id |-> "ap1", state |-> "APPROVED", expires |-> 2, requester |-> Human("h1"), approver |-> a, request |-> RequestHash(WipeTwo),
     action |-> "wipe", targets |-> {"d1", "d2"}, policy |-> "p1", tenant |-> "t1"] :
      a \in {Human("h1"), Human("h2")} }
Idle == [busy |-> FALSE]

ContractInit ==
  /\ now = 0 /\ policy = "p1" /\ hits = <<>> /\ grants = {} /\ used = {} /\ consumed = {} /\ intents = {}
  /\ call = [e \in Executors |-> Idle]

Ask(r) ==
  /\ Cardinality(grants) < MaxGrants
  /\ LET a == secAuthorize(r) IN /\ hits' = a.hits
                                 /\ grants' = IF a.d.result = "ALLOW" THEN grants \cup {a.d.grant} ELSE grants
  /\ UNCHANGED <<now, policy, used, consumed, intents, call>>

Finalize(r, ap) ==
  /\ Cardinality(grants) < MaxGrants
  /\ LET d == FinalizeAuthorization(r, ap)
     IN  d.result = "ALLOW" /\ grants' = grants \cup {d.grant} /\ used' = used \cup {ap.id}
  /\ UNCHANGED <<now, policy, hits, consumed, intents, call>>

\* GuardedExecutor.Execute up to the store call: the clock and the policy are read here.
StartExecute(e, r, g) ==
  /\ ~call[e].busy /\ CapabilityAllowed(r.principal, "executor.direct")
  /\ call' = [call EXCEPT ![e] = [busy |-> TRUE, req |-> r, grant |-> g, at |-> now, hash |-> policy]]
  /\ UNCHANGED <<now, policy, hits, grants, used, consumed, intents>>

\* ConsumeGrantAndCreateIntent: both or neither, under the store's lock.
ConsumeGrantAndCreateIntent(e) ==
  LET c == call[e] IN
  /\ c.busy /\ call' = [call EXCEPT ![e] = Idle]
  /\ IF ConsumeGrant(c.grant, c.req, c.hash, c.at) = "ok"
       THEN /\ consumed' = consumed \cup {c.grant.id}
            /\ intents' = intents \cup {[id |-> Cardinality(intents), grant |-> c.grant.id, principal |-> c.req.principal, action |-> c.req.action,
                                         targets |-> c.req.targets, at |-> c.at, destructive |-> EffectiveImpact(c.req) >= Destructive]}
       ELSE UNCHANGED <<consumed, intents>>
  /\ UNCHANGED <<now, policy, hits, grants, used>>

ChangePolicy == policy = "p1" /\ policy' = "p2" /\ UNCHANGED <<now, hits, grants, used, consumed, intents, call>>
Later == now < MaxTime /\ now' = now + 1 /\ UNCHANGED <<policy, hits, grants, used, consumed, intents, call>>

ContractNext ==
  \/ \E r \in Requests : Ask(r) \/ \E ap \in Approvals : Finalize(r, ap)
  \/ \E e \in Executors, g \in grants : \E r \in {q \in Requests : q.targets # <<>>} : StartExecute(e, r, g)
  \/ \E e \in Executors : ConsumeGrantAndCreateIntent(e)
  \/ ChangePolicy \/ Later

(********************************* properties *********************************)

\* A grant pays for one intent and an approval for one grant, however the executors and the
\* callers that hold old copies interleave.
GrantedOnce ==
  /\ \A i, j \in intents : i.grant = j.grant => i = j
  /\ \A g, h \in grants : g.by = h.by /\ g.by # "gateway" => g = h

\* An intent does what its grant was given for: the same action on the same devices for the same
\* principal, before the grant ran out; never for an AI principal, and a wipe on several devices
\* only after a second person's approval.
IntentWasGranted ==
  \A i \in intents : \E g \in grants :
    /\ g.id = i.grant /\ g.principal = i.principal /\ g.action = i.action /\ g.targets = canonicalTargets(i.targets)
    /\ i.at \in g.at..(g.expires - 1) /\ i.principal.type # "ai"
    /\ Cardinality(g.targets) > DefaultPolicy.SoftBlastRadius => g.by = "ap1"

\* No requester gets more high-impact grants in any minute than the policy says, whichever keys
\* were dropped from the table in between.
RateHolds ==
  \A t \in 0..now, p \in {g.principal : g \in grants} :
    Cardinality({g \in grants : g.by = "gateway" /\ g.principal = p /\ ImpactOf(g.action) >= HighImpact /\ g.at \in t..(t + Minute - 1)})
      <= DefaultPolicy.HighImpactPerMin
=============================================================================
