----------------------------- MODULE AdminService -----------------------------
(* The administration service (server/internal/admin) over the PostgreSQL      *)
(* store.  A method is the plan [err, t, run]: the first check that fails, in  *)
(* the order of the code, or "" together with the caller's tenant it read and  *)
(* the store calls it goes on to make, one step each.  Nothing holds the store *)
(* still between the checks and the calls.                                     *)
(*   r = [op, by, on, arg, arg2, email]: operation, caller, target, arguments. *)
(*   c = [dual, scope, enforce, unconfigured, tenant, defaultTenant]: settings.*)
EXTENDS Naturals, Sequences, FiniteSets, SequencesExt

Db == INSTANCE DbStore
Sc == INSTANCE Scope

rank(role) == CASE role = "ADMIN" -> 3 [] role = "OPERATOR" -> 2 [] role = "VIEWER" -> 1 [] OTHER -> 0

validAdminRole(role) == role \in {"VIEWER", "OPERATOR", "ADMIN"}

\* Guards in the order of the code; the first that does not pass is the error.
\* The scope guard writes an audit entry when it denies and when it only logs.
ScopeErrors == {"scope unconfigured", "tenant missing", "scope deny"}
Plan(guards, t, run) ==
  LET bad == {i \in DOMAIN guards : guards[i] \notin {"ok", "logged"}}
      logged == \E i \in DOMAIN guards : guards[i] = "logged"
      first == guards[Min(bad)]
  IN  IF bad = {} THEN [err |-> "", t |-> t, run |-> (IF logged THEN <<"audit">> ELSE <<>>) \o run]
      ELSE [err |-> first, t |-> t, run |-> IF first \in ScopeErrors THEN <<"audit">> ELSE <<>>]
If(ok, err) == IF ok THEN "ok" ELSE err

\* Mutant: any administrator that exists passes.
requireAny(s, a, min) == If(Db!AdminRole(s, a) # "", "forbidden")

require(s, a, min) == If(rank(Db!AdminRole(s, a)) >= rank(min), "forbidden")
AdminTenant(s, a) == Db!AdminTenant(s, a)

Normalize(t) == IF t = "" THEN "default" ELSE t
Valid(t) == t # "Not A Tenant"

(****************************** command catalogue *****************************)

specs ==
  [QUARANTINE         |-> [min |-> "OPERATOR", scope |-> "quarantine", exempt |-> FALSE],
   UNQUARANTINE       |-> [min |-> "OPERATOR", scope |-> "", exempt |-> TRUE],
   RUN_SIGNED_SCRIPT  |-> [min |-> "ADMIN", scope |-> "remote_command", exempt |-> FALSE],
   UNINSTALL          |-> [min |-> "ADMIN", scope |-> "wipe", exempt |-> FALSE],
   COLLECT_DIAGNOSTICS |-> [min |-> "OPERATOR", scope |-> "", exempt |-> TRUE],
   COLLECT_FILE       |-> [min |-> "OPERATOR", scope |-> "remote_command", exempt |-> FALSE],
   LOCK               |-> [min |-> "OPERATOR", scope |-> "lock", exempt |-> FALSE],
   RESTART            |-> [min |-> "OPERATOR", scope |-> "restart", exempt |-> FALSE],
   WIPE               |-> [min |-> "ADMIN", scope |-> "wipe", exempt |-> FALSE]]

requireCmd(s, a, type) == IF type \in DOMAIN specs THEN require(s, a, specs[type].min) ELSE "invalid input"
commandScope(type) == specs[type]

\* The engine's verdict (its rate limit is in module Scope); without enforcement
\* a denial is only logged.
guardScope(c, d, act) ==
  LET target == [tenant |-> c.tenant, device |-> d, domain |-> <<>>, ip |-> 0, host |-> "", env |-> "", port |-> 0]
      high == Sc!ImpactOf(act) >= Sc!HighImpact
  IN  CASE c.scope = "none" -> If(c.unconfigured \/ ~high, "scope unconfigured")
        [] c.scope # "none" /\ c.tenant = "" /\ high -> "tenant missing"
        [] OTHER -> If(Sc!Verdict(c.policy, target, act), IF c.enforce THEN "scope deny" ELSE "logged")

guardCmdScope(c, d, type) ==
  CASE type \notin DOMAIN specs -> "invalid input"
    [] type \in DOMAIN specs /\ specs[type].exempt -> "ok"
    [] OTHER -> guardScope(c, d, commandScope(type).scope)

(******************************* tenant checks ********************************)

deviceCallerTenant(s, a, d) ==
  If(AdminTenant(s, a) = "" \/ Db!TenantForDevice(s, d) = AdminTenant(s, a), "forbidden")
enforceDeviceTenant(s, a, d) == deviceCallerTenant(s, a, d)

enforceEventTenant(s, a, e) ==
  If(AdminTenant(s, a) = "" \/ Db!EventTenant(s, e) = AdminTenant(s, a), "forbidden")

\* A shared policy (tenant "") may be read by everyone, written by the platform.
\* Mutant: a tenant's administrator may also write a shared policy.
policyOwnerShared(s, a, p, write) ==
  LET pt == Db!PolicyTenant(s, p)
  IN  If(pt[2] /\ (AdminTenant(s, a) = "" \/ pt[1] = AdminTenant(s, a) \/ pt[1] = ""), "forbidden")

policyOwner(s, a, p, write) ==
  LET pt == Db!PolicyTenant(s, p)
      ct == AdminTenant(s, a)
  IN  If(pt[2] /\ (ct = "" \/ pt[1] = ct \/ (~write /\ pt[1] = "")), "forbidden")

policyFitsDevice(pt, dt) == pt = "" \/ Db!Equivalent(pt, dt)

enforceAdminTarget(s, a, target) ==
  If(AdminTenant(s, a) = "" \/ AdminTenant(s, target) = AdminTenant(s, a), "forbidden")

\* Counted in the caller's scope: a platform administrator only by its peers.
hasOtherActiveAdmin(s, a, t) ==
  \E o \in DOMAIN s.adm \ {a} : /\ s.adm[o].active
                                /\ s.adm[o].role = "ADMIN"
                                /\ s.adm[o].tenant = t
guardLastAdmin(s, a, target, t) == If(a = target => hasOtherActiveAdmin(s, a, t), "last admin")

(******************************** the methods *********************************)

\* The tenant a token is issued for is the caller's, if it has one.
IssueEnrollmentToken(s, c, r) ==
  LET ct == AdminTenant(s, r.by)
  IN  Plan(<<require(s, r.by, "OPERATOR"), If(ct = "" \/ r.arg \in {"", ct}, "forbidden")>>,
           IF ct # "" THEN ct ELSE r.arg, <<"SaveEnrollmentToken", "audit">>)

RevokeEnrollmentToken(s, c, r) ==
  LET ct == AdminTenant(s, r.by)
  IN  Plan(<<require(s, r.by, "OPERATOR"), If(ct = "" \/ Db!EnrollmentTokenTenant(s, r.on) = <<ct, TRUE>>, "forbidden")>>,
           ct, <<"RevokeEnrollmentToken", "audit">>)

\* Trimmed, cut, without repetition and empty tags, at most maxTags of them.
maxTags == 2
Trim(tag) == IF tag = " x" THEN "x" ELSE IF tag = " " THEN "" ELSE tag
normalizeTags(tags) ==
  LET clean == SelectSeq([i \in DOMAIN tags |-> Trim(tags[i])], LAMBDA x : x # "")
      firsts == {i \in DOMAIN clean : \A j \in 1..(i - 1) : clean[j] # clean[i]}
  IN  {clean[i] : i \in {k \in firsts : Cardinality({f \in firsts : f < k}) < maxTags}}

SetDeviceTags(s, c, r) ==
  Plan(<<require(s, r.by, "OPERATOR"), deviceCallerTenant(s, r.by, r.on)>>,
       AdminTenant(s, r.by), <<"SetDeviceTags", "audit">>)

\* The status follows the audit entry and its failure is ignored.
command(s, c, r, type, reflect) ==
  Plan(<<requireCmd(s, r.by, type), enforceDeviceTenant(s, r.by, r.on), guardCmdScope(c, r.on, type)>>,
       AdminTenant(s, r.by), <<"enqueue", "audit">> \o (IF reflect THEN <<"reflect">> ELSE <<>>))

QuarantineDevice(s, c, r) == command(s, c, r, "QUARANTINE", TRUE)
ReleaseDevice(s, c, r) == command(s, c, r, "UNQUARANTINE", TRUE)
CollectDiagnostics(s, c, r) == command(s, c, r, "COLLECT_DIAGNOSTICS", FALSE)
LockDevice(s, c, r) == command(s, c, r, "LOCK", FALSE)
RestartDevice(s, c, r) == command(s, c, r, "RESTART", FALSE)

\* The command each operation enqueues, and the status it shows at once.
CommandOf == [QuarantineDevice |-> "QUARANTINE", ReleaseDevice |-> "UNQUARANTINE", CollectDiagnostics |-> "COLLECT_DIAGNOSTICS",
              LockDevice |-> "LOCK", RestartDevice |-> "RESTART", CollectFile |-> "COLLECT_FILE",
              WipeDevice |-> "WIPE", ApproveWipe |-> "WIPE"]
Reflected == [QUARANTINE |-> "QUARANTINE_PENDING", UNQUARANTINE |-> "ACTIVE"]

wipeGuards(s, c, r) ==
  <<requireCmd(s, r.by, "WIPE"), enforceDeviceTenant(s, r.by, r.on), guardCmdScope(c, r.on, "WIPE")>>

WipeDevice(s, c, r) == Plan(wipeGuards(s, c, r), AdminTenant(s, r.by), <<"enqueue", "audit">>)
RequestWipe(s, c, r) == Plan(wipeGuards(s, c, r), AdminTenant(s, r.by), <<"SavePendingWipe", "audit">>)
\* The request is used up first: a failure of enqueue loses it.
ApproveWipe(s, c, r) ==
  Plan(wipeGuards(s, c, r), AdminTenant(s, r.by), <<"ConsumePendingWipe", "enqueue", "audit">>)
CancelWipe(s, c, r) ==
  Plan(<<require(s, r.by, "ADMIN"), enforceDeviceTenant(s, r.by, r.on)>>, AdminTenant(s, r.by), <<"DeletePendingWipe", "audit">>)

CollectFile(s, c, r) ==
  Plan(<<requireCmd(s, r.by, "COLLECT_FILE"), If(r.arg # "", "invalid input"), enforceDeviceTenant(s, r.by, r.on),
         guardCmdScope(c, r.on, "COLLECT_FILE")>>, AdminTenant(s, r.by), <<"enqueue", "audit">>)

AckEvent(s, c, r) ==
  Plan(<<require(s, r.by, "OPERATOR"), If(r.arg \in {"ACKNOWLEDGED", "RESOLVED"}, "invalid input"), enforceEventTenant(s, r.by, r.on)>>,
       AdminTenant(s, r.by), <<"SetEventAck", "audit">>)
UpdateEventCase(s, c, r) ==
  Plan(<<require(s, r.by, "OPERATOR"), enforceEventTenant(s, r.by, r.on)>>, AdminTenant(s, r.by), <<"SetEventCase", "audit">>)

EraseDevice(s, c, r) ==
  Plan(<<require(s, r.by, "ADMIN"), enforceDeviceTenant(s, r.by, r.on), guardScope(c, r.on, "wipe")>>,
       AdminTenant(s, r.by), <<"EraseDeviceData", "audit">>)
RevokeDevice(s, c, r) ==
  Plan(<<require(s, r.by, "OPERATOR"), enforceDeviceTenant(s, r.by, r.on), guardScope(c, r.on, "remote_command")>>,
       AdminTenant(s, r.by), <<"RevokeDeviceCerts", "audit">>)
AuthorizeExport(s, c, r) == Plan(<<require(s, r.by, "ADMIN")>>, "", <<"audit">>)

CreatePolicy(s, c, r) ==
  LET ct == AdminTenant(s, r.by)
      owner == CASE ct # "" -> ct [] ct = "" /\ r.arg = "" -> "" [] OTHER -> Normalize(r.arg)
  IN  Plan(<<require(s, r.by, "ADMIN"), If(ct = "" => r.arg = "" \/ Valid(r.arg), "invalid input"),
             If(ct # "" => r.arg \in {"", ct}, "forbidden")>>, owner, <<"CreatePolicy", "audit">>)

AssignPolicy(s, c, r) ==
  LET pt == Db!PolicyTenant(s, r.arg)[1]
  IN  Plan(<<require(s, r.by, "ADMIN"), enforceDeviceTenant(s, r.by, r.on), policyOwner(s, r.by, r.arg, FALSE),
             If(policyFitsDevice(pt, Db!TenantForDevice(s, r.on)), "forbidden"), guardScope(c, r.on, "policy_enforce")>>,
           AdminTenant(s, r.by), <<"AssignPolicy", "audit", "publish">>)

validRuleType(type) == type \in {"APP_BLOCK", "APP_TIME_BLOCK"}
\* The rule is stored before the version is raised; the devices are told last.
AddPolicyRule(s, c, r) ==
  Plan(<<require(s, r.by, "ADMIN"), If(validRuleType(r.arg), "invalid rule"), policyOwner(s, r.by, r.on, TRUE)>>,
       Db!PolicyTenant(s, r.on)[1], <<"AddPolicyRule", "BumpPolicyVersion", "audit", "publish policy">>)
ListPolicyRules(s, c, r) ==
  Plan(<<require(s, r.by, "OPERATOR"), policyOwner(s, r.by, r.on, FALSE)>>, AdminTenant(s, r.by), <<"read">>)

\* The new administrator's tenant is the creator's, if it has one.
CreateAdmin(s, c, r) ==
  LET ct == AdminTenant(s, r.by)
      eff == CASE ct # "" -> ct [] ct = "" /\ r.arg = "" -> "" [] OTHER -> Normalize(r.arg)
  IN  Plan(<<require(s, r.by, "ADMIN"), If(validAdminRole(r.arg2) /\ r.email # "", "invalid input"),
             If(ct # "" => r.arg = "" \/ Normalize(r.arg) = ct, "forbidden"),
             If(ct = "" => r.arg = "" \/ Valid(r.arg), "invalid input")>>, eff, <<"CreateAdmin", "audit">>)

SetAdminRole(s, c, r) ==
  LET ct == AdminTenant(s, r.by)
  IN  Plan(<<require(s, r.by, "ADMIN"), If(validAdminRole(r.arg), "invalid input"), enforceAdminTarget(s, r.by, r.on),
             IF r.arg # "ADMIN" THEN guardLastAdmin(s, r.by, r.on, ct) ELSE "ok">>, ct, <<"SetAdminRole", "audit">>)
DeactivateAdmin(s, c, r) ==
  LET ct == AdminTenant(s, r.by)
  IN  Plan(<<require(s, r.by, "ADMIN"), enforceAdminTarget(s, r.by, r.on), guardLastAdmin(s, r.by, r.on, ct)>>,
           ct, <<"DeactivateAdmin", "audit">>)
ListAdmins(s, c, r) == Plan(<<require(s, r.by, "OPERATOR")>>, AdminTenant(s, r.by), <<"read">>)
=============================================================================
