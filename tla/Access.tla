-------------------------------- MODULE Access --------------------------------
(* Decisions and life cycles: iam (attribute policies, OIDC tokens),            *)
(* controlplane (decision engine, start and stop), fabricauthz (who may send a  *)
(* command, run a response, inject a fault), and the transition tables of       *)
(* seccontract.                                                                 *)
EXTENDS Scope

CONSTANT MaxPolicies
ASSUME AccessAssumption == MaxPolicies \in Nat

VARIABLES policies, \* iam.Engine.policies
          life,     \* [table, state, been]: an object walking through its table
          plane,    \* controlplane.Plane.running
          served    \* whether the last call to the plane was served
accessVars == <<policies, life, plane, served>>

(********************************* iam: ABAC **********************************)

lookup(req, key) == IF key \in DOMAIN req THEN <<req[key], TRUE>> ELSE <<"", FALSE>>
\* An attribute the request lacks fails every condition, "ne" too.
matchCondition(c, req) ==
  LET v == lookup(req, c.key)
  IN  /\ v[2]
      /\ CASE c.op = "eq" -> v[1] = c.value
           [] c.op = "ne" -> v[1] # c.value
           [] c.op = "in" -> v[1] \in c.values
           [] OTHER -> FALSE
matchPolicy(p, req) == \A c \in p.match : matchCondition(c, req)
AddPolicy(ps, p) == Append(ps, p)
\* Mutant: the first match decides.
EvaluateFirst(ps, req) ==
  LET hit == {i \in DOMAIN ps : matchPolicy(ps[i], req)}
  IN  hit # {} /\ ps[CHOOSE i \in hit : \A j \in hit : i <= j].effect = "allow"
\* Deny overrides; the first allow only names the policy.
Evaluate(ps, req) ==
  LET hit(e) == {i \in DOMAIN ps : ps[i].effect = e /\ matchPolicy(ps[i], req)}
  IN  hit("deny") = {} /\ hit("allow") # {}

(********************************* iam: OIDC **********************************)

\* A token without exp never expires, one without nbf or iat is not checked for them.
OIDCVerify(v, t, nonce, checkNonce, at) ==
  /\ t.parts = 3 /\ t.alg = "RS256" /\ t.kid \in v.keys /\ t.signedBy = t.kid
  /\ v.issuer # "" => t.iss = v.issuer
  /\ v.audience # "" => v.audience \in t.aud
  /\ t.exp # 0 => ~(at > t.exp + v.leeway)
  /\ t.nbf # 0 => ~(at + v.leeway < t.nbf)
  /\ t.iat # 0 => ~(t.iat > at + v.leeway)
  /\ checkNonce => t.nonce = nonce
\* Key types other than RSA are passed over; a weak or broken RSA key fails the whole set.
ParseJWKS(ks) ==
  LET rsa == {k \in ks : k.kty = "RSA"}
  IN  IF \A k \in rsa : k.bits >= 2048 /\ k.wellFormed THEN {k.kid : k \in rsa} ELSE {}

(**************************** controlplane decisions **************************)

highImpactActions == {"wipe", "isolate", "killprocess", "lock"}
\* Lower case, underscores removed.
Canonical(name) == CASE name = "KILL_PROCESS" -> "killprocess" [] name = "Wipe" -> "wipe" [] OTHER -> name
deriveImpact(name, claimed) == IF Canonical(name) \in highImpactActions THEN "destructive" ELSE claimed

\* Risk in tenths.
Decide(tenant, name, claimed, risk) ==
  LET impact == deriveImpact(name, claimed)
  IN  IF tenant = "" \/ impact \notin {"read", "write", "destructive"} THEN "Deny"
      ELSE IF impact = "destructive" /\ risk > 7 THEN "Challenge"
      ELSE IF risk <= 3 /\ impact \in {"read", "write"} THEN "Permit" ELSE "Quarantine"

StartPlane == plane' = TRUE
StopPlane == plane' = FALSE

(********************************* fabricauthz ********************************)

ScopeExempt == {"UNQUARANTINE", "COLLECT_DIAGNOSTICS"}
ScopeAction == [QUARANTINE |-> "quarantine", RUN_SIGNED_SCRIPT |-> "remote_command", UNINSTALL |-> "wipe", COLLECT_FILE |-> "remote_command",
                LOCK |-> "lock", RESTART |-> "restart", WIPE |-> "wipe"]
NoEngine == [global |-> NoPolicy]
\* Without enforcement a refusal is only counted.
CommandAuthorizer(eng, enforce, type, target, at) ==
  IF type \in ScopeExempt THEN "allowed"
  ELSE IF type \notin DOMAIN ScopeAction THEN "refused"
  ELSE IF eng # NoEngine /\ Authorize(eng, target, ScopeAction[type], at).ok THEN "allowed"
  ELSE IF enforce THEN "refused" ELSE "counted"
responseActionToScope == [ISOLATE_ENDPOINT |-> "quarantine", QUARANTINE_FILE |-> "quarantine", KILL_PROCESS |-> "restart",
                          REVOKE_SESSION |-> "lock", BLOCK_HASH |-> "policy_enforce"]
AuthorizeResponse(eng, action, approver, target, at) ==
  /\ eng # NoEngine /\ approver # ""
  /\ Authorize(eng, target, IF action \in DOMAIN responseActionToScope THEN responseActionToScope[action] ELSE "unknown", at).ok
AuthorizeFault(operators, actor) == operators # {} /\ actor \in operators

(************************** seccontract: transition tables ********************)

commandTransitions ==
  [CREATED |-> {"AUTHORIZED", "CANCELLED"}, AUTHORIZED |-> {"QUEUED", "CANCELLED"},
   QUEUED |-> {"DELIVERED", "DELIVERY_FAILED", "EXPIRED", "CANCELLED"}, DELIVERY_FAILED |-> {"QUEUED"},
   DELIVERED |-> {"ACKNOWLEDGED", "EXECUTION_UNKNOWN", "CANCELLED"}, ACKNOWLEDGED |-> {"RUNNING", "EXECUTION_UNKNOWN"},
   RUNNING |-> {"SUCCEEDED", "EXECUTION_FAILED", "EXECUTION_UNKNOWN"}, EXECUTION_FAILED |-> {"FAILED_FINAL"},
   EXECUTION_UNKNOWN |-> {"RECONCILED_SUCCEEDED", "RECONCILED_FAILED", "MANUAL_REVIEW_REQUIRED"}]
Terminal(s) == s \in {"SUCCEEDED", "FAILED_FINAL", "EXPIRED", "CANCELLED", "RECONCILED_SUCCEEDED", "RECONCILED_FAILED"}
intentTransitions ==
  [CREATED |-> {"EXECUTING", "UNKNOWN"}, EXECUTING |-> {"DONE", "FAILED", "UNKNOWN"}, UNKNOWN |-> {"RECONCILED_DONE", "RECONCILED_FAILED"}]
quarantineTransitions ==
  [INACTIVE |-> {"APPLYING"}, APPLYING |-> {"ACTIVE", "DEGRADED", "ERROR"}, ACTIVE |-> {"RELEASING"},
   RELEASING |-> {"INACTIVE", "DEGRADED", "ERROR"}, DEGRADED |-> {"APPLYING", "RELEASING", "INACTIVE"}]
evidenceTransitions ==
  [REQUESTED |-> {"COLLECTING", "CANCELLED"}, COLLECTING |-> {"RECEIVED", "FAILED", "CANCELLED"},
   RECEIVED |-> {"VERIFIED", "FAILED"}, VERIFIED |-> {"SEALED"}]
recommendationTransitions ==
  [ISSUED |-> {"VALIDATED", "REJECTED", "EXPIRED"}, VALIDATED |-> {"ACCEPTED", "REJECTED", "EXPIRED"}, ACCEPTED |-> {"CONSUMED", "EXPIRED"}]
approvalTransitions == [REQUESTED |-> {"APPROVED", "REJECTED", "EXPIRED"}, APPROVED |-> {"CONSUMED", "EXPIRED"}]

Tables == [command |-> commandTransitions, intent |-> intentTransitions, quarantine |-> quarantineTransitions,
           evidence |-> evidenceTransitions, recommendation |-> recommendationTransitions, approval |-> approvalTransitions]
Start == [command |-> "CREATED", intent |-> "CREATED", quarantine |-> "INACTIVE", evidence |-> "REQUESTED",
          recommendation |-> "ISSUED", approval |-> "REQUESTED"]
CanGoTo(t, s, to) == s \in DOMAIN Tables[t] /\ to \in Tables[t][s]
(********************************** behaviours ********************************)

Conditions == { [key |-> "role", op |-> "eq", value |-> "admin"], [key |-> "role", op |-> "ne", value |-> "admin"],
                [key |-> "role", op |-> "in", values |-> {"admin", "viewer"}] }
Pool == {[effect |-> e, match |-> m] : e \in {"allow", "deny"}, m \in {{}} \cup {{c} : c \in Conditions}}
Subjects == {[role |-> "admin"], [role |-> "viewer"], [team |-> "soc"]}

AccessInit ==
  /\ policies = <<>> /\ plane = FALSE /\ served = FALSE
  /\ \E t \in DOMAIN Start : life = [table |-> t, state |-> Start[t], been |-> {Start[t]}]

Add(p) == Len(policies) < MaxPolicies /\ policies' = AddPolicy(policies, p) /\ UNCHANGED <<life, plane, served>>
Go(to) ==
  /\ CanGoTo(life.table, life.state, to)
  /\ life' = [life EXCEPT !.state = to, !.been = @ \cup {to}] /\ UNCHANGED <<policies, plane, served>>
\* Enrolment, policy fetch and sign-in all look at running first.
CallPlane == served' = plane /\ UNCHANGED <<policies, life, plane>>
SwitchPlane == (IF plane THEN StopPlane ELSE StartPlane) /\ UNCHANGED <<policies, life, served>>
AccessNext ==
  \/ \E p \in Pool : Add(p)
  \/ \E to \in UNION {UNION {Tables[t][s] : s \in DOMAIN Tables[t]} : t \in DOMAIN Tables} : Go(to)
  \/ CallPlane \/ SwitchPlane

(********************************* properties *********************************)

\* A policy added later can take a permission away or, if it allows, give one; a deny is final:
\* no later policy, in whatever order they came, gives back what a deny took.
DenyIsFinal ==
  [][\A s \in Subjects : (\E p \in Range(policies) : p.effect = "deny" /\ matchPolicy(p, s)) => ~Evaluate(policies', s)]_accessVars

\* A command that was handed out, and anything run for it, is never queued or handed out again; an
\* intent, a piece of evidence, a recommendation or an approval never returns to a state it has left.
NoWayBack ==
  [][life'.state # life.state =>
       /\ life.table \in {"intent", "evidence", "recommendation", "approval"} => life'.state \notin life.been
       /\ life.table = "command" => /\ "DELIVERED" \in life.been => life'.state \notin {"QUEUED", "DELIVERED"}
                                    /\ ~Terminal(life.state)]_accessVars

\* No action that can harm a device is simply permitted, and more risk never gets a milder answer.
HarmNeedsMore ==
  \A name \in {"wipe", "Wipe", "KILL_PROCESS", "list"}, claimed \in {"read", "write", "destructive", "other"}, risk \in {0, 3, 4, 7, 8, 10} :
    /\ Canonical(name) \in highImpactActions => Decide("t", name, claimed, risk) # "Permit"
    /\ \A more \in {m \in {3, 4, 7, 8, 10} : m > risk} : Decide("t", name, claimed, risk) # "Permit" => Decide("t", name, claimed, more) # "Permit"
NoSelector == [domains |-> {}, networks |-> {}, devices |-> {}, tenants |-> {}, hosts |-> {}, environments |-> {}, ports |-> {}]
Walled == New([allowed |-> [NoSelector EXCEPT !.tenants = {"t"}], excluded |-> [NoSelector EXCEPT !.devices = {"d"}], actions |-> <<>>, rps |-> 0])
Aim(d) == [domain |-> <<>>, ip |-> 0, device |-> d, tenant |-> "t", host |-> "", env |-> "", port |-> 0]
Idp == [keys |-> ParseJWKS({[kty |-> "RSA", kid |-> "r", bits |-> 2048, wellFormed |-> TRUE], [kty |-> "EC", kid |-> "e", bits |-> 256, wellFormed |-> TRUE]}),
        issuer |-> "i", audience |-> "a", leeway |-> 1]
IdTokens == [parts : {3}, alg : {"RS256", "none"}, kid : {"r", "e"}, signedBy : {"r", "x"}, iss : {"i", "j"}, aud : {{"a"}, {}},
             exp : {0, 2}, nbf : {0}, iat : {0}, nonce : {"n"}]
\* Every gate is closed by default: without an engine, for a device the rules exclude, for a type or
\* an action nobody registered, without an approver, an operator or a key, the answer is no; and a
\* gate that only observes stops nothing it would allow.  An action that can harm a device is never
\* simply permitted, whatever impact the caller claims for it and however its name is spelt.
ClosedByDefault ==
  /\ HarmNeedsMore
  /\ \A type \in DOMAIN ScopeAction \cup ScopeExempt \cup {"FORMAT"}, d \in {"d", "e"}, eng \in {NoEngine, Walled} :
       LET v == CommandAuthorizer(eng, TRUE, type, Aim(d), 1)
       IN  /\ v = "allowed" => type \in ScopeExempt \/ (eng = Walled /\ d = "e" /\ ImpactOf(ScopeAction[type]) < Destructive)
           /\ v = "allowed" => CommandAuthorizer(eng, FALSE, type, Aim(d), 1) = "allowed"
  /\ \A action \in DOMAIN responseActionToScope \cup {"FORMAT"}, who \in {"", "h"}, eng \in {NoEngine, Walled}, d \in {"d", "e"} :
       AuthorizeResponse(eng, action, who, Aim(d), 1) => who # "" /\ d = "e" /\ action # "FORMAT" /\ eng = Walled
  /\ \A actor \in {"", "o"} : ~AuthorizeFault({}, actor)
  /\ \A t \in IdTokens : OIDCVerify(Idp, t, "n", TRUE, 2) => t.kid = "r" /\ t.signedBy = "r" /\ t.alg # "none" /\ t.iss = "i" /\ "a" \in t.aud
=============================================================================
