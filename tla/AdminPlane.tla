------------------------------ MODULE AdminPlane ------------------------------
(* The administration API at work: requests of several administrators, each    *)
(* handled by its own goroutine.  A request is admitted (session, role, tenant *)
(* and scope checks against the store as it is then) and goes on to make its   *)
(* store calls one at a time, interleaved with the others'.  A store call may  *)
(* fail; a failed audit write is only counted.                                 *)
(* Families of operations touch their own tables and share the administrators  *)
(* and the audit trail, so a behaviour takes the operations of one family.     *)
EXTENDS AdminRead

CONSTANTS Slots,       \* requests that run at the same time
          MaxRequests, \* requests a behaviour admits
          MaxFaults,   \* store calls that fail
          Ids          \* ids that can be generated: a bound, larger than any behaviour needs

ASSUME PlaneAssumption == Slots # {} /\ IsFiniteSet(Slots) /\ MaxRequests \in Nat /\ MaxFaults \in Nat

VARIABLES fam,     \* the family of operations
          conf,    \* the settings the server started with
          db,      \* the store
          req,     \* slot -> the request it runs
          left,    \* requests still to come
          faults,  \* store calls that may still fail
          asked,   \* wipe requests that were stored: <<device, administrator>>
          accepted,\* <<administrator, code>> accepted since MFA was last switched off
          told     \* devices the policy notifier was told about

vars == <<fam, conf, db, req, left, faults, asked, accepted, told>>

Families == {"token", "device", "wipe", "policy", "admin", "event", "mfa", "bulk"}
SlotSymmetry == Permutations(Slots)

(******************************* the handlers *********************************)

\* Session.Verify and EnsureRole(VIEWER) come before every handler.
authed(s, r) == rank(Db!AdminRole(s, r.by)) >= rank("VIEWER")

\* The tenant a console user asks for, resolved before the service sees it.
resolveTokenTenant(ct, asked_, default) ==
  CASE ct # "" /\ asked_ # "" /\ Normalize(asked_) # ct -> "forbidden"
    [] ct # "" /\ (asked_ = "" \/ Normalize(asked_) = ct) -> ct
    [] ct = "" /\ asked_ = "" -> default
    [] OTHER -> IF Valid(asked_) THEN Normalize(asked_) ELSE "forbidden"
handleIssueToken(s, c, r) ==
  LET t == resolveTokenTenant(AdminTenant(s, r.by), r.arg, c.defaultTenant)
  IN  IF t = "forbidden" THEN Plan(<<"forbidden">>, "", <<>>) ELSE IssueEnrollmentToken(s, c, [r EXCEPT !.arg = t])

\* Under dual control the console can only ask for a wipe.
\* Mutant: the setting is not looked at.
handleWipeAlone(s, c, r) == WipeDevice(s, c, r)

handleWipeDevice(s, c, r) == IF c.dual THEN RequestWipe(s, c, r) ELSE WipeDevice(s, c, r)

\* The gateway (module Access) may refuse these before anything else happens.
handleLockDevice(s, c, r) == LockDevice(s, c, r)
handleRestartDevice(s, c, r) == RestartDevice(s, c, r)

\* These decode their input and pass it on.
handleRevokeToken(s, c, r) == RevokeEnrollmentToken(s, c, r)
handleQuarantine(s, c, r) == QuarantineDevice(s, c, r)
handleRelease(s, c, r) == ReleaseDevice(s, c, r)
handleCollectDiagnostics(s, c, r) == CollectDiagnostics(s, c, r)
handleRevoke(s, c, r) == RevokeDevice(s, c, r)
handleEraseDevice(s, c, r) == EraseDevice(s, c, r)
handleSetDeviceTags(s, c, r) == SetDeviceTags(s, c, r)
handleCollectFile(s, c, r) == CollectFile(s, c, r)
handleCreatePolicy(s, c, r) == CreatePolicy(s, c, r)
handleAssignPolicy(s, c, r) == AssignPolicy(s, c, r)
handleAddRule(s, c, r) == AddPolicyRule(s, c, r)
handleCreateAdmin(s, c, r) == CreateAdmin(s, c, r)
handleSetAdminRole(s, c, r) == SetAdminRole(s, c, r)
handleDeactivateAdmin(s, c, r) == DeactivateAdmin(s, c, r)
handleApproveWipe(s, c, r) == ApproveWipe(s, c, r)
handleCancelWipe(s, c, r) == CancelWipe(s, c, r)
handleAckEvent(s, c, r) == AckEvent(s, c, [r EXCEPT !.arg = "ACKNOWLEDGED"])
handleResolveEvent(s, c, r) == AckEvent(s, c, [r EXCEPT !.arg = "RESOLVED"])
handleEventCase(s, c, r) == UpdateEventCase(s, c, r)

\* The devices with the tag on the first page of the caller's, one after the
\* other; each goes through all the checks of its operation again.
handleBulkAction(s, by, tag) ==
  {SetToSeq({x.id : x \in {y \in P : tag \in y.tags}}) : P \in Devices(s, 0, callerTenant(s, by))}

(* Multi-factor operations: a code is [secret, step]; it fits a secret while   *)
(* its step is within one of the current one, and a step is used up before the *)
(* operation goes on.                                                          *)
Now == 1
totpSkew == 1
VerifyTOTPStep(secret, code) == code.secret = secret /\ code.step >= Now - totpSkew /\ code.step <= Now + totpSkew

BeginMFAEnrollment(s, c, r) ==
  LET mfa == Db!LookupMFA(s, r.by)
  IN  CASE ~mfa[2] -> Plan(<<require(s, r.by, "VIEWER")>>, "", <<"SetPendingMFASecret", "audit">>)
        [] mfa[2] /\ ~VerifyTOTPStep(mfa[1], r.code) -> [err |-> "forbidden", t |-> "", run |-> <<"audit">>]
        [] OTHER -> Plan(<<require(s, r.by, "VIEWER")>>, "", <<"ConsumeTOTPStep", "SetPendingMFASecret", "audit">>)
ActivateMFA(s, c, r) ==
  LET pending == Db!LookupPendingMFA(s, r.by)
  IN  Plan(<<require(s, r.by, "VIEWER"), If(pending # "" /\ VerifyTOTPStep(pending, r.code), "forbidden")>>,
           "", <<"ConsumeTOTPStep", "ActivateMFA", "audit">>)
DisableMFA(s, c, r) ==
  LET mfa == Db!LookupMFA(s, r.by)
  IN  Plan(<<require(s, r.by, "VIEWER"), If(mfa[2] => VerifyTOTPStep(mfa[1], r.code), "forbidden")>>,
           "", IF mfa[2] THEN <<"ConsumeTOTPStep", "DisableMFA", "audit">> ELSE <<"DisableMFA">>)
\* Password right; a code is asked for and used up when MFA is on.
Authenticate(s, c, r) ==
  LET mfa == Db!LookupMFA(s, r.by)
  IN  IF Db!Active(s, r.by) /\ (mfa[2] => VerifyTOTPStep(mfa[1], r.code))
        THEN [err |-> "", t |-> "", run |-> IF mfa[2] THEN <<"ConsumeTOTPStep", "session">> ELSE <<"session">>]
        ELSE [err |-> "forbidden", t |-> "", run |-> <<>>]

\* The plan of a request: which handler the router gives it to.
Handler(s, c, r) ==
  CASE r.op = "IssueEnrollmentToken" -> handleIssueToken(s, c, r)
    [] r.op = "RevokeEnrollmentToken" -> handleRevokeToken(s, c, r)
    [] r.op = "SetDeviceTags" -> handleSetDeviceTags(s, c, r)
    [] r.op = "QuarantineDevice" -> handleQuarantine(s, c, r)
    [] r.op = "ReleaseDevice" -> handleRelease(s, c, r)
    [] r.op = "CollectDiagnostics" -> handleCollectDiagnostics(s, c, r)
    [] r.op = "LockDevice" -> handleLockDevice(s, c, r)
    [] r.op = "RestartDevice" -> handleRestartDevice(s, c, r)
    [] r.op = "CollectFile" -> handleCollectFile(s, c, r)
    [] r.op = "RevokeDevice" -> handleRevoke(s, c, r)
    [] r.op = "EraseDevice" -> handleEraseDevice(s, c, r)
    [] r.op = "AuthorizeExport" -> AuthorizeExport(s, c, r)
    [] r.op = "WipeDevice" -> handleWipeDevice(s, c, r)
    [] r.op = "ApproveWipe" -> handleApproveWipe(s, c, r)
    [] r.op = "CancelWipe" -> handleCancelWipe(s, c, r)
    [] r.op = "AckEvent" -> IF r.arg = "RESOLVED" THEN handleResolveEvent(s, c, r) ELSE handleAckEvent(s, c, r)
    [] r.op = "UpdateEventCase" -> handleEventCase(s, c, r)
    [] r.op = "CreatePolicy" -> handleCreatePolicy(s, c, r)
    [] r.op = "AssignPolicy" -> handleAssignPolicy(s, c, r)
    [] r.op = "AddPolicyRule" -> handleAddRule(s, c, r)
    [] r.op = "CreateAdmin" -> handleCreateAdmin(s, c, r)
    [] r.op = "SetAdminRole" -> handleSetAdminRole(s, c, r)
    [] r.op = "DeactivateAdmin" -> handleDeactivateAdmin(s, c, r)
    [] r.op = "BeginMFAEnrollment" -> BeginMFAEnrollment(s, c, r)
    [] r.op = "ActivateMFA" -> ActivateMFA(s, c, r)
    [] r.op = "DisableMFA" -> DisableMFA(s, c, r)
    [] r.op = "Login" -> Authenticate(s, c, r)

(****************************** the store calls *******************************)

\* A generated id is one that no row has yet.
Created == DOMAIN db.tok \cup DOMAIN db.pol \cup DOMAIN db.adm
NewId == CHOOSE i \in Ids : i \notin Created

TagsAsked == <<" x", "x", " ", "y", "z">>

Exec(s, q, step, id) ==
  CASE step = "SaveEnrollmentToken" -> Db!SaveEnrollmentToken(s, id, q.by, q.t)
    [] step = "RevokeEnrollmentToken" -> Db!RevokeEnrollmentToken(s, q.on, q.t)
    [] step = "SetDeviceTags" -> Db!SetDeviceTags(s, q.on, normalizeTags(TagsAsked), q.t)
    [] step = "enqueue" -> Db!EnqueueCommand(s, q.on, IF q.op = "WipeDevice" THEN "WIPE" ELSE CommandOf[q.op], q.by)
    [] step = "reflect" -> Db!SetDeviceStatus(s, q.on, Reflected[CommandOf[q.op]])
    [] step = "RevokeDeviceCerts" -> Db!RevokeDeviceCerts(s, q.on)
    [] step = "EraseDeviceData" -> Db!EraseDeviceData(s, q.on)
    [] step = "SavePendingWipe" -> Db!SavePendingWipe(s, q.on, q.by)
    [] step = "ConsumePendingWipe" ->
         LET x == Db!ConsumePendingWipe(s, q.on, q.by) IN Db!Ret(x.s, IF x.r[2] THEN "ok" ELSE "forbidden")
    [] step = "DeletePendingWipe" -> Db!DeletePendingWipe(s, q.on)
    [] step = "SetEventAck" -> Db!SetEventAck(s, q.on, q.by, q.arg)
    [] step = "SetEventCase" -> Db!SetEventCase(s, q.on, q.by, q.arg)
    [] step = "CreatePolicy" -> Db!CreatePolicy(s, id, q.t)
    [] step = "AssignPolicy" -> Db!AssignPolicy(s, q.on, q.arg)
    [] step = "AddPolicyRule" -> Db!AddPolicyRule(s, q.on, q.arg, {})
    [] step = "BumpPolicyVersion" -> Db!BumpPolicyVersion(s, q.on)
    [] step = "CreateAdmin" -> Db!CreateAdmin(s, id, q.email, q.arg2, q.t)
    [] step = "SetAdminRole" -> Db!SetAdminRole(s, q.on, q.arg, q.t)
    [] step = "DeactivateAdmin" -> Db!DeactivateAdmin(s, q.on, q.t)
    [] step = "SetPendingMFASecret" -> Db!SetPendingMFASecret(s, q.by, q.arg)
    [] step = "ActivateMFA" -> Db!ActivateMFA(s, q.by)
    [] step = "DisableMFA" -> Db!DisableMFA(s, q.by)
    [] step = "ConsumeTOTPStep" ->
         LET x == Db!ConsumeTOTPStep(s, q.by, q.code.step) IN Db!Ret(x.s, IF x.r THEN "ok" ELSE "forbidden")
    [] step = "audit" -> Db!WriteAudit(s, q.by, q.op)
    [] OTHER -> Db!Ret(s, "ok")   \* publish, session: nothing in the store

Refused == {"error", "forbidden"}

\* The devices a policy change is published to: those the policy still fits.
Publishes(s, q, step) ==
  CASE step = "publish" -> {q.on}
    [] step = "publish policy" -> {d \in Db!DevicesForPolicy(s, q.on) : policyFitsDevice(q.t, Db!TenantForDevice(s, d))}
    [] OTHER -> {}

(******************************** the inputs **********************************)

Admins == [root |-> <<"ADMIN", "">>, root2 |-> <<"ADMIN", "">>, boss |-> <<"ADMIN", "t1">>, oper |-> <<"OPERATOR", "t1">>,
           look |-> <<"VIEWER", "t1">>, rival |-> <<"ADMIN", "t2">>]
AdminRow(a) == [email |-> a, role |-> Admins[a][1], tenant |-> Admins[a][2], active |-> TRUE,
                secret |-> IF a = "boss" THEN "S0" ELSE "", pending |-> "", enrolled |-> a = "boss", step |-> 0]
Device(t) == [tenant |-> t, mac |-> t, status |-> "ACTIVE", seen |-> "fresh", tags |-> {"x"}, hash |-> "", ver |-> "v1"]
Event(i, d, t, kind, sev) == [id |-> i, dev |-> d, tenant |-> t, sev |-> sev, kind |-> kind]

\* A running deployment: two tenants, a device and a policy each, a shared
\* policy, stored telemetry.
Seed ==
  [Db!EmptyStore EXCEPT
     !.adm = [a \in DOMAIN Admins |-> AdminRow(a)],
     !.dev = [d1 |-> Device("t1"), d2 |-> Device("t2"), d3 |-> Device("t1")],
     !.cert = [f1 |-> [dev |-> "d1", revoked |-> FALSE], f2 |-> [dev |-> "d2", revoked |-> FALSE]],
     !.tok = [k2 |-> [by |-> "rival", tenant |-> "t2", used |-> FALSE, expired |-> FALSE]],
     !.pol = [p0 |-> [tenant |-> "", version |-> 0, updated |-> 1, rules |-> <<>>],
              p1 |-> [tenant |-> "t1", version |-> 0, updated |-> 2, rules |-> <<>>],
              p2 |-> [tenant |-> "t2", version |-> 0, updated |-> 3, rules |-> <<>>]],
     !.asg = {<<"d1", "p0">>, <<"d2", "p0">>},
     !.ev = <<Event(1, "d2", "t2", "software", "HIGH"), Event(2, "d1", "t1", "compliance", "LOW"),
              Event(3, "d2", "t2", "compliance", "LOW"), Event(4, "d1", "t1", "security", "HIGH"), Event(5, "d2", "t2", "security", "HIGH")>>,
     !.inc = <<[id |-> "i2", dev |-> "d2", tenant |-> "t2", count |-> 1], [id |-> "i1", dev |-> "d1", tenant |-> "t1", count |-> 1]>>,
     !.art = <<[id |-> "a1", dev |-> "d1", old |-> FALSE], [id |-> "a2", dev |-> "d2", old |-> FALSE]>>,
     !.srch = <<[id |-> "q2", by |-> "rival"]>>]

Callers == {"root", "boss", "oper", "rival"}
NoCode == [secret |-> "", step |-> 0]
From(ops, bys, ons, args) ==
  [op : ops, by : bys, on : ons, arg : args, arg2 : {""}, email : {""}, code : {NoCode}]

Requests(f) ==
  CASE f = "token" -> From({"IssueEnrollmentToken"}, Callers \cup {"look"}, {""}, {"", "t1", "t2"})
                 \cup From({"RevokeEnrollmentToken"}, Callers, DOMAIN db.tok, {""})
    [] f = "device" -> From({"QuarantineDevice", "ReleaseDevice", "LockDevice", "RestartDevice", "CollectDiagnostics",
                             "RevokeDevice", "EraseDevice"}, {"boss"}, {"d1", "d2"}, {""})
                 \cup From({"QuarantineDevice", "EraseDevice", "AuthorizeExport"}, {"oper"}, {"d1"}, {""})
                 \cup From({"CollectFile"}, {"boss"}, {"d1", "d2"}, {"path"})
                 \cup From({"SetDeviceTags"}, {"oper"}, {"d1", "d2"}, {"tags"})
    [] f = "wipe" -> From({"WipeDevice", "ApproveWipe", "CancelWipe"}, {"root", "root2", "boss"}, {"d1"}, {""})
                \cup From({"WipeDevice"}, {"boss"}, {"d2"}, {""})
    [] f = "policy" -> From({"CreatePolicy"}, {"root", "boss"}, {""}, {"", "t1", "t2", "Not A Tenant"})
                  \cup From({"AssignPolicy"}, {"root", "boss"}, {"d1", "d2"}, DOMAIN db.pol)
                  \cup From({"AddPolicyRule"}, {"root", "boss"}, DOMAIN db.pol, {"APP_BLOCK"})
    [] f = "admin" -> From({"SetAdminRole"}, {"root", "boss", "rival"}, {"root", "boss", "oper", "rival"}, {"VIEWER", "ADMIN", "OWNER"})
                 \cup From({"DeactivateAdmin"}, {"root", "boss", "root2"}, {"root", "boss", "oper", "root2"}, {""})
                 \cup [op : {"CreateAdmin"}, by : {"root", "boss"}, on : {""}, arg : {"", "t1", "t2"}, arg2 : {"ADMIN"}, email : {"e"}, code : {NoCode}]
    [] f = "event" -> From({"AckEvent"}, Callers, {4, 5}, {"RESOLVED", "ACKNOWLEDGED"}) \cup From({"UpdateEventCase"}, Callers, {4, 5}, {"who"})
    [] f = "mfa" -> [op : {"BeginMFAEnrollment", "ActivateMFA", "DisableMFA", "Login"}, by : {"boss"}, on : {""}, arg : {"S" \o ToString(left)},
                     arg2 : {""}, email : {""}, code : [secret : {"S0", db.adm["boss"].pending}, step : {1, 2}]]
    [] f = "bulk" -> From({"SetDeviceTags"}, {"oper"}, {"d1"}, {"tags"}) \cup From({"SetAdminRole"}, {"boss"}, {"oper"}, {"VIEWER"})
                \cup From({"DeactivateAdmin"}, {"root"}, {"oper"}, {""})
BulkOps == {"QuarantineDevice", "ReleaseDevice", "AssignPolicy", "CollectDiagnostics"}
Bulk(f) == IF f = "bulk" THEN From(BulkOps, {"oper", "boss"}, {""}, {"p1"}) ELSE {}

\* Two requests meet; where three matter (ask, approve, approve) there are more.
Budget(f) == IF f \in {"wipe", "mfa"} THEN MaxRequests + 1 ELSE MaxRequests

Idle == [op |-> "", run |-> <<>>, rest |-> <<>>]
ScopePolicy ==
  [excluded |-> [domains |-> {}, networks |-> {}, devices |-> {"d3", "d1"}, tenants |-> {}, hosts |-> {}, environments |-> {}, ports |-> {}],
   allowed |-> [domains |-> {}, networks |-> {}, devices |-> {}, tenants |-> {"t1"}, hosts |-> {}, environments |-> {}, ports |-> {}],
   actions |-> [wipe |-> TRUE], rps |-> 0]
Settings(dual, sc, enforce, unconf, t) ==
  [dual |-> dual, scope |-> sc, enforce |-> enforce, unconfigured |-> unconf, tenant |-> t, policy |-> ScopePolicy, defaultTenant |-> ""]

Open == Settings(TRUE, "none", TRUE, TRUE, "t1")
SettingsOf(f) ==
  CASE f = "device" -> {Open, Settings(TRUE, "none", TRUE, FALSE, "t1"), Settings(TRUE, "policy", TRUE, FALSE, "t1"),
                        Settings(TRUE, "policy", FALSE, FALSE, "t1"), Settings(TRUE, "policy", TRUE, FALSE, "")}
    [] f = "wipe" -> {Open, Settings(FALSE, "none", TRUE, TRUE, "t1")}
    [] OTHER -> {Open}

(******************************** the machine *********************************)

Init ==
  /\ fam \in Families
  /\ conf \in SettingsOf(fam)
  /\ db = Seed
  /\ req = [p \in Slots |-> Idle]
  /\ left = Budget(fam)
  /\ faults = MaxFaults
  /\ asked = <<>>
  /\ accepted = <<>>
  /\ told = {}

Started(r, plan, rest) ==
  [k \in DOMAIN r \cup {"t", "run", "rest"} |->
     CASE k = "t" -> plan.t [] k = "run" -> plan.run [] k = "rest" -> rest [] OTHER -> r[k]]

\* An answered request leaves nothing behind.
Answered(q) == IF q.run = <<>> /\ q.rest = <<>> THEN Idle ELSE q

\* A request is admitted, or it is denied and only the scope guard's entry is left.
Admit(p) ==
  /\ req[p].run = <<>> /\ req[p].rest = <<>>
  /\ left > 0
  /\ \/ \E r \in Requests(fam) :
          LET plan == Handler(db, conf, r)
          IN  /\ r.op # "Login" => authed(db, r)
              /\ plan.run # <<>>
              /\ req' = [req EXCEPT ![p] = Started(r, plan, <<>>)]
     \/ \E r \in Bulk(fam) :
          /\ authed(db, r)
          /\ \E rest \in handleBulkAction(db, r.by, "x") : req' = [req EXCEPT ![p] = Started(r, [t |-> "", run |-> <<>>], rest)]
  /\ left' = left - 1
  /\ UNCHANGED <<fam, conf, db, faults, asked, accepted, told>>

\* A bulk request turns to its next device, whatever became of the one before.
NextDevice(p) ==
  /\ req[p].run = <<>> /\ req[p].rest # <<>>
  /\ LET r == [req[p] EXCEPT !.on = Head(req[p].rest)]
         plan == Handler(db, conf, r)
     IN  req' = [req EXCEPT ![p] = Answered([r EXCEPT !.run = plan.run, !.t = plan.t, !.rest = Tail(@)])]
  /\ UNCHANGED <<fam, conf, db, left, faults, asked, accepted, told>>

\* The next store call; a refusal ends the request.
Step(p) ==
  /\ req[p].run # <<>>
  /\ ~ (Ids \subseteq Created)
  /\ LET q == req[p]
         step == Head(q.run)
         x == Exec(db, q, step, NewId)
     IN  /\ db' = x.s
         /\ req' = [req EXCEPT ![p] = Answered([q EXCEPT !.run = IF x.r \in Refused THEN <<>> ELSE Tail(@)])]
         /\ asked' = IF step = "SavePendingWipe" THEN Append(asked, <<q.on, q.by>>) ELSE asked
         /\ accepted' = CASE step = "ConsumeTOTPStep" /\ x.r = "ok" -> Append(accepted, <<q.by, q.code.step>>)
                          [] step = "DisableMFA" -> <<>>
                          [] OTHER -> accepted
         /\ told' = told \cup Publishes(db, q, step)
  /\ UNCHANGED <<fam, conf, left, faults>>

\* The call fails: the request ends with an error, but a failed audit entry and
\* a status that could not be shown are passed over.
Fail(p) ==
  /\ req[p].run # <<>>
  /\ faults > 0
  /\ faults' = faults - 1
  /\ LET q == req[p]
     IN  req' = [req EXCEPT ![p] = Answered([q EXCEPT !.run = IF Head(@) \in {"audit", "reflect"} THEN Tail(@) ELSE <<>>])]
  /\ UNCHANGED <<fam, conf, db, left, asked, accepted, told>>

Next == \E p \in Slots : Admit(p) \/ NextDevice(p) \/ Step(p) \/ Fail(p)
Spec == Init /\ [][Next]_vars

(******************************** properties **********************************)

\* The rows of a store that belong to the tenants In holds of.
Slice(s, In(_)) ==
  LET of(f) == Restrict(f, {k \in DOMAIN f : In(f[k].tenant)})
      dv == DOMAIN of(s.dev)
      own(q, K(_)) == Db!Keep(q, {x \in Range(q) : K(x)})
      byDev(q) == own(q, LAMBDA x : x.dev \in dv)
      byAdm(q) == own(q, LAMBDA x : x.by \in DOMAIN of(s.adm))
  IN  [s EXCEPT !.tok = of(@), !.dev = of(@), !.pol = of(@), !.adm = of(@), !.ack = of(@),
                !.cert = Restrict(@, {f \in DOMAIN @ : @[f].dev \in dv}), !.wipe = Restrict(@, DOMAIN @ \cap dv),
                !.asg = {x \in @ : x[1] \in dv}, !.ev = own(@, LAMBDA x : In(x.tenant)), !.inc = byDev(@),
                !.art = byDev(@), !.cmd = byDev(@), !.aud = byAdm(@), !.srch = byAdm(@)]

\* The rows of the tenants other than t, and what belongs to no tenant.
Outside(s, t) == Slice(s, LAMBDA x : x # t)

\* A store call made for a tenant's administrator leaves the rows of all other
\* tenants and the shared policies as they are, whatever ran since it was
\* admitted (tenant checks of admin.Service and the tenant filters of the db).
WritesStayInTenant ==
  [][\A p \in Slots : (req[p].run # <<>> /\ db' # db /\ req'[p].run # req[p].run) =>
        LET t == db.adm[req[p].by].tenant IN t # "" => Outside(db', t) = Outside(db, t)]_vars

\* With dual control every queued WIPE was asked for by another administrator
\* than the one who released it, and no request releases two commands
\* (admin.Service RequestWipe, ApproveWipe; ConsumePendingWipe).
TwoPersons ==
  conf.dual =>
    \A d \in DOMAIN db.dev :
      LET wipes == {i \in DOMAIN db.cmd : db.cmd[i].dev = d /\ db.cmd[i].type = "WIPE"}
          asks == {i \in DOMAIN asked : asked[i][1] = d}
      IN  /\ Cardinality(wipes) <= Cardinality(asks)
          /\ \A i \in wipes : \E k \in asks : asked[k][2] # db.cmd[i].by

Barred(d, act) ==
  LET high == Sc!ImpactOf(act) >= Sc!HighImpact
  IN  \/ conf.scope = "none" /\ ~conf.unconfigured /\ high
      \/ conf.scope # "none" /\ conf.tenant = "" /\ high
      \/ conf.scope # "none" /\ conf.enforce /\ d \in conf.policy.excluded.devices

\* A device an enforced scope policy excludes gets no command but the exempt
\* ones and keeps its certificates and its data; without a policy, or without
\* the tenant it needs, the same holds of high-impact actions on any device;
\* whichever operation is tried (guardScope behind every method).
ScopeWall ==
  \A d \in DOMAIN db.dev :
    /\ \A i \in DOMAIN db.cmd : db.cmd[i].dev = d => specs[db.cmd[i].type].exempt \/ ~Barred(d, specs[db.cmd[i].type].scope)
    /\ Barred(d, "remote_command") => \A f \in DOMAIN db.cert : db.cert[f].dev = d => ~db.cert[f].revoked
    /\ Barred(d, "wipe") => \A i \in DOMAIN Seed.ev : Seed.ev[i].dev = d => \E k \in DOMAIN db.ev : db.ev[k] = Seed.ev[i]

\* No one-time code is accepted twice, by whichever operations and however
\* they interleave (VerifyTOTPStep checks it, ConsumeTOTPStep uses it up).
CodeAcceptedOnce == \A i, j \in DOMAIN accepted : accepted[i] = accepted[j] => i = j

\* An assigned policy is the device's tenant's or shared, and only its own
\* devices are told of a change (AssignPolicy, AddPolicyRule).
AssignmentsFit ==
  /\ \A x \in db.asg : policyFitsDevice(db.pol[x[2]].tenant, db.dev[x[1]].tenant)
  /\ fam = "policy" => \A d \in told : \E p \in DOMAIN db.pol : <<d, p>> \in db.asg

\* A bulk action stops biting when its administrator loses the role: at most the
\* command already on its way is queued after that (the role is read again for
\* every device).
NoBulkAfterDemotion ==
  [][\A p \in Slots : (req[p].op \in DOMAIN CommandOf /\ req[p].run = <<>> /\ req'[p].run # <<>> /\ req'[p].run[1] = "enqueue") =>
        rank(Db!AdminRole(db, req'[p].by)) >= rank(specs[CommandOf[req'[p].op]].min)]_vars

\* The answers of the read handlers, but for the three that are about the whole
\* deployment: the behaviour of administrators, trends, the audit chain.
Answers(s, a) ==
  <<handleListTokens(s, a), [p \in DOMAIN Seed.pol |-> handleListRules(s, a, p)], handleListAdmins(s, a), handleListDevices(s, a, "x"),
    [d \in DOMAIN Seed.dev |->
       <<handleDeviceDetail(s, a, d), handleExportDevice(s, a, d), handleListEvents(s, a, d), handleEntityGraph(s, a, d),
         handleAttackStory(s, a, d), handleListArtifacts(s, a, d), handleDeviceEvidence(s, a, d)>>],
    handleListPolicies(s, a), handleSummary(s, a), handleReplayDetection(s, a), handleHunt(s, a), handleReport(s, a), handleFrameworks(s, a),
    handleRisk(s, a), handleCoverage(s, a), handleAuditExport(s, a), handleListSavedSearches(s, a),
    [i \in {"i1", "i2"} |-> handleIncidentTimeline(s, a, i)], handleIncidents(s, a), handlePendingWipes(s, a),
    [i \in {"a1", "a2"} |-> handleDownloadArtifact(s, a, i)], handleVulnerabilities(s, a), handleSoftwareSearch(s, a), handleActivity(s, a),
    handleListAudit(s, a), handleTokenList(s, a), handleMSPListCustomers(s, a)>>

Only(s, t) ==
  LET own(x) == x = t IN [Slice(s, own) EXCEPT !.pol = Restrict(s.pol, {p \in DOMAIN s.pol : s.pol[p].tenant \in {t, ""}})]

\* What a tenant's administrator reads is a function of its tenant's rows and
\* the shared policies: every answer is the one a store without the other
\* tenants would give (tenant_wall.go, callerTenant in adminapi).
ReadsStayInTenant ==
  \A a \in {x \in {"boss", "rival"} : db.adm[x].active} :
    Answers(db, a) = Answers(Only(db, db.adm[a].tenant), a)

\* The answers about the whole deployment depend on the caller's role alone, and the audit chain, which
\* every request extends, verifies between any two calls.
DeploymentAnswers ==
  LET awake == {x \in DOMAIN db.adm : Db!Active(db, x)}
      answer == [a \in awake |-> <<handleAdminBehavior(db, a), handleMetricsTrends(db, a)>>]
  IN  /\ \A a, b \in awake : db.adm[a].role = db.adm[b].role => answer[a] = answer[b]
      /\ \A a \in awake : EnsureRole(db, a, "ADMIN") => handleVerifyAudit(db, a) = <<TRUE>>

\* Tenants are walled off from each other: no read handler but those three answers with another tenant's
\* rows, and no policy reaches a device of another tenant.
TenantWall == ReadsStayInTenant /\ DeploymentAnswers /\ AssignmentsFit

\* Every command that was queued was allowed: wipes by two persons, scoped actions by the scope policy,
\* confirmed ones by a code of their own, however the requests interleave.
CommandsRuled == TwoPersons /\ ScopeWall /\ CodeAcceptedOnce

\* adminusers.go: the last active ADMIN of a scope cannot demote or deactivate
\* itself, so a scope that had one keeps one.
AdminRemains == \E a \in DOMAIN db.adm : db.adm[a].active /\ db.adm[a].role = "ADMIN" /\ db.adm[a].tenant = ""
=============================================================================
