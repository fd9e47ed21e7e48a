------------------------------- MODULE DbStore -------------------------------
(* The PostgreSQL store (server/internal/db).  A store is a record s of        *)
(* tables; every operator is one Store method.  A method that writes returns   *)
(* [s |-> the tables after its statement, r |-> what it returns], a method     *)
(* that only reads returns its rows.  Ids that the database generates are      *)
(* passed in.  A column that no statement compares is left out.                *)
EXTENDS Naturals, Sequences, FiniteSets, SequencesExt, Functions, FiniteSetsExt

Ret(s, r) == [s |-> s, r |-> r]
Put(f, k, v) == [x \in DOMAIN f \cup {k} |-> IF x = k THEN v ELSE f[x]]

\* "" is "no tenant"; Canonical folds it into the default tenant.
NoTenant == ""
Default == "default"
Canonical(t) == IF t = NoTenant THEN Default ELSE t
Equivalent(a, b) == Canonical(a) = Canonical(b)

\* The filter ($n = '' OR tenant_id = $n) that nearly every query ends in.
Sees(t, tenantID) == tenantID = NoTenant \/ t = tenantID

Empty == <<>>
EmptyStore ==
  [tok |-> Empty, dev |-> Empty, cert |-> Empty, ev |-> <<>>, ack |-> Empty,
   inc |-> <<>>, wipe |-> Empty, pol |-> Empty, asg |-> {}, adm |-> Empty,
   aud |-> <<>>, srch |-> <<>>, art |-> <<>>, cust |-> Empty, cmd |-> <<>>,
   msp |-> <<>>, api |-> Empty]

Newest(q, n) == LET r == Reverse(q) IN SubSeq(r, 1, IF Len(r) < n THEN Len(r) ELSE n)

(*************************** enrolment and certificates ***********************)

SaveEnrollmentToken(s, id, by, tenantID) ==
  Ret([s EXCEPT !.tok = Put(@, id, [by |-> by, tenant |-> tenantID, used |-> FALSE, expired |-> FALSE])], "ok")

ConsumeEnrollmentToken(s, id) ==
  IF id \in DOMAIN s.tok /\ ~s.tok[id].used /\ ~s.tok[id].expired
    THEN Ret([s EXCEPT !.tok[id].used = TRUE], s.tok[id].tenant)
    ELSE Ret(s, "invalid token")

RevokeEnrollmentToken(s, id, tenantID) ==
  LET owned == id \in DOMAIN s.tok /\ Sees(s.tok[id].tenant, tenantID)
      s2 == IF owned THEN [s EXCEPT !.tok[id].used = TRUE] ELSE s
  IN  Ret(s2, IF tenantID # NoTenant /\ ~owned THEN "forbidden" ELSE "ok")

EnrollmentTokenTenant(s, id) ==
  IF id \in DOMAIN s.tok THEN <<s.tok[id].tenant, TRUE>> ELSE <<NoTenant, FALSE>>

ListEnrollmentTokens(s, tenantID) ==
  {[id |-> id, used |-> s.tok[id].used] : id \in {i \in DOMAIN s.tok : Sees(s.tok[i].tenant, tenantID)}}

TenantForDevice(s, d) == IF d \in DOMAIN s.dev THEN s.dev[d].tenant ELSE NoTenant

Revived(status) == IF status \in {"PENDING_ENROLLMENT", "OFFLINE", "UNINSTALLED"} THEN "ACTIVE" ELSE status

\* uq_devices_tenant_mac: the unique index on the canonical tenant and the mac.
\* Mutant: the index is on the tenant as written, so "" and "default" differ.
HoldersOfMacRaw(s, tenantID, mac) == {d \in DOMAIN s.dev : s.dev[d].mac = mac /\ s.dev[d].tenant = tenantID}

HoldersOfMac(s, tenantID, mac) ==
  {d \in DOMAIN s.dev : s.dev[d].mac = mac /\ Equivalent(s.dev[d].tenant, tenantID)}

\* Mutant (UpsertMovesTenant): the token's tenant overwrites the device's.
\* pref is the device the token is bound to ("" for none), new the id an INSERT
\* would generate.  last_seen is left alone: a device that never sent a
\* heartbeat has none.
UpsertMovesTenant(s, pref, new, mac, tenantID) ==
  LET row == [tenant |-> tenantID, mac |-> mac, status |-> "ACTIVE", seen |-> "never", tags |-> {}, hash |-> "", ver |-> ""]
  IN  Ret([s EXCEPT !.dev = Put(@, IF pref # "" THEN pref ELSE new, row)], IF pref # "" THEN pref ELSE new)

UpsertEnrollingDevice(s, pref, new, mac, tenantID) ==
  LET Update(d, m) == [s EXCEPT !.dev[d].mac = m, !.dev[d].tenant = Canonical(@), !.dev[d].status = Revived(@)]
      holders == HoldersOfMac(s, tenantID, mac)
  IN  CASE pref # "" /\ pref \notin DOMAIN s.dev -> Ret(s, "error")
        [] pref # "" /\ pref \in DOMAIN s.dev /\ ~Equivalent(s.dev[pref].tenant, tenantID) -> Ret(s, "tenant mismatch")
        [] pref # "" /\ pref \in DOMAIN s.dev /\ Equivalent(s.dev[pref].tenant, tenantID) /\ holders \subseteq {pref} -> Ret(Update(pref, mac), pref)
        [] pref # "" /\ pref \in DOMAIN s.dev /\ Equivalent(s.dev[pref].tenant, tenantID) /\ ~(holders \subseteq {pref}) -> Ret(s, "error")
        [] pref = "" /\ holders # {} -> LET d == CHOOSE h \in holders : TRUE IN Ret(Update(d, mac), d)
        [] OTHER -> Ret([s EXCEPT !.dev = Put(@, new, [tenant |-> tenantID, mac |-> mac, status |-> "ACTIVE",
                                                       seen |-> "never", tags |-> {}, hash |-> "", ver |-> ""])], new)

SaveCertificate(s, fp, d) == Ret([s EXCEPT !.cert = Put(@, fp, [dev |-> d, revoked |-> FALSE])], "ok")

DeviceHasActiveCert(s, d) == \E fp \in DOMAIN s.cert : s.cert[fp].dev = d /\ ~s.cert[fp].revoked

RevokeDeviceCerts(s, d) ==
  Ret([s EXCEPT !.cert = [fp \in DOMAIN s.cert |-> [s.cert[fp] EXCEPT !.revoked = @ \/ s.cert[fp].dev = d]]], "ok")

RevokedFingerprints(s) == {fp \in DOMAIN s.cert : s.cert[fp].revoked}

CertsByDevice(s, d) == {<<fp, s.cert[fp].revoked>> : fp \in {f \in DOMAIN s.cert : s.cert[f].dev = d}}

\* The rows of q that are in K, in their order.
Keep(q, K) ==
  LET keep[i \in 0..Len(q)] == IF i = 0 THEN <<>> ELSE IF q[i] \in K THEN Append(keep[i - 1], q[i]) ELSE keep[i - 1]
  IN  keep[Len(q)]

\* DELETE ... WHERE device_id = $1.
Without(q, d) == Keep(q, {x \in Range(q) : x.dev # d})

\* One transaction: events, commands and artifacts go, certificates are revoked.
EraseDeviceData(s, d) ==
  LET erased == [s EXCEPT !.ev = Without(@, d), !.cmd = Without(@, d), !.art = Without(@, d), !.cert = RevokeDeviceCerts(s, d).s.cert]
      live == {fp \in DOMAIN s.cert : s.cert[fp].dev = d /\ ~s.cert[fp].revoked}
  IN  Ret(erased, <<Len(s.ev) - Len(erased.ev), Len(s.cmd) - Len(erased.cmd), Cardinality(live)>>)

(********************************* the fleet **********************************)

\* The policy version column is never written, so it answers "" in every case.
TouchHeartbeat(s, d) ==
  IF d \in DOMAIN s.dev
    THEN Ret([s EXCEPT !.dev[d].seen = "fresh", !.dev[d].status = IF @ = "OFFLINE" THEN "ACTIVE" ELSE @], "")
    ELSE Ret(s, "error")

\* last_seen < $1 is not true of a NULL.
MarkStaleOffline(s) ==
  Ret([s EXCEPT !.dev = [d \in DOMAIN @ |-> IF @[d].seen = "stale" /\ @[d].status = "ACTIVE"
                                              THEN [@[d] EXCEPT !.status = "OFFLINE"] ELSE @[d]]], "ok")

SetDeviceStatus(s, d, status) ==
  Ret(IF d \in DOMAIN s.dev THEN [s EXCEPT !.dev[d].status = status] ELSE s, "ok")

\* outcomes: a sequence of [type, ok].
ApplyCommandResults(s, d, outcomes) ==
  LET counted == SelectSeq(outcomes, LAMBDA o : o.ok /\ o.type \in {"QUARANTINE", "UNQUARANTINE"})
  IN  IF d \notin DOMAIN s.dev \/ counted = <<>> THEN Ret(s, "ok")
      ELSE Ret([s EXCEPT !.dev[d].status = IF Last(counted).type = "QUARANTINE" THEN "QUARANTINED" ELSE "ACTIVE"], "ok")

\* Two statements: the hash known so far is read, then replaced.
RecordAgentBinary(s, d, version, hash) ==
  IF d \notin DOMAIN s.dev THEN Ret(s, FALSE)
  ELSE Ret([s EXCEPT !.dev[d].hash = hash, !.dev[d].ver = version],
           s.dev[d].hash # "" /\ s.dev[d].hash # hash /\ s.dev[d].ver = version)

SetDeviceTags(s, d, tags, tenantID) ==
  LET hit == d \in DOMAIN s.dev /\ Sees(s.dev[d].tenant, tenantID)
  IN  Ret(IF hit THEN [s EXCEPT !.dev[d].tags = tags] ELSE s,
          IF tenantID # NoTenant /\ ~hit THEN "forbidden" ELSE "ok")

DeviceByID(s, d) == IF d \in DOMAIN s.dev THEN <<s.dev[d].status, s.dev[d].tags, s.dev[d].tenant>> ELSE <<>>

\* The answers LIMIT allows: last_seen orders the rows, ties are broken anyhow.
ListDevices(s, limit, tenantID) ==
  LET rows == {d \in DOMAIN s.dev : Sees(s.dev[d].tenant, tenantID)}
      rank(d) == CASE s.dev[d].seen = "fresh" -> 2 [] s.dev[d].seen = "stale" -> 1 [] OTHER -> 0
  IN  {P \in SUBSET rows : /\ Cardinality(P) = (IF Cardinality(rows) < limit THEN Cardinality(rows) ELSE limit)
                           /\ \A p \in P, q \in rows \ P : rank(p) >= rank(q)}

DeviceStatusCounts(s, tenantID) ==
  LET rows == {d \in DOMAIN s.dev : Sees(s.dev[d].tenant, tenantID)}
      st == {s.dev[d].status : d \in rows}
  IN  [x \in st |-> Cardinality({d \in rows : s.dev[d].status = x})]

EnqueueCommand(s, d, type, by) ==
  Ret([s EXCEPT !.cmd = Append(@, [dev |-> d, type |-> type, by |-> by])], "ok")

CommandHistory(s, d) == Reverse(SelectSeq(s.cmd, LAMBDA c : c.dev = d))

(*********************** events, triage, incidents ****************************)

\* One transaction for the batch; details is what kind of JSON the event carries.
SaveEvents(s, d, evs) == Ret([s EXCEPT !.ev = @ \o [i \in DOMAIN evs |-> [evs[i] EXCEPT !.dev = d]]], "ok")

EventsMatching(s, f) ==
  SelectSeq(s.ev, LAMBDA e : /\ f.dev # "" => e.dev = f.dev
                             /\ f.sev # "" => e.sev = f.sev
                             /\ Sees(e.tenant, f.tenant))

QueryEvents(s, f) == Newest(EventsMatching(s, f), f.limit)

\* The same query without a tenant column.
ListEvents(s, f) == Newest(EventsMatching(s, [f EXCEPT !.tenant = NoTenant]), f.limit)

EventSeverityCounts(s, tenantID) ==
  LET rows == SelectSeq(s.ev, LAMBDA e : Sees(e.tenant, tenantID))
  IN  [x \in {rows[i].sev : i \in DOMAIN rows} |-> Cardinality({i \in DOMAIN rows : rows[i].sev = x})]

\* DISTINCT ON (device_id) ... ORDER BY created_at DESC over the events that
\* carry the key.
LatestByDevice(s, kind, tenantID) ==
  LET rows == {i \in DOMAIN s.ev : s.ev[i].kind = kind /\ Sees(s.ev[i].tenant, tenantID)}
  IN  [d \in {s.ev[i].dev : i \in rows} |-> s.ev[Max({i \in rows : s.ev[i].dev = d})].id]

LatestComplianceByDevice(s, tenantID) == LatestByDevice(s, "compliance", tenantID)
LatestSoftwareByDevice(s, tenantID) == LatestByDevice(s, "software", tenantID)

\* Only the latest inventory of a device is searched for the name.
SearchSoftware(s, wanted, tenantID) ==
  LET latest == LatestByDevice(s, "software", tenantID)
  IN  {d \in DOMAIN latest : latest[d] \in wanted}

EventTenant(s, id) ==
  LET hits == {i \in DOMAIN s.ev : s.ev[i].id = id} IN IF hits = {} THEN NoTenant ELSE s.ev[Max(hits)].tenant

\* (tenant, found): the tenant of an acknowledged event follows the event row.
ackTenant(s, id) == IF \E i \in DOMAIN s.ev : s.ev[i].id = id THEN Canonical(EventTenant(s, id)) ELSE ""

UpsertAck(s, id, by, status, assignee) ==
  LET tn == ackTenant(s, id)
      row == IF id \in DOMAIN s.ack
               THEN [s.ack[id] EXCEPT !.tenant = IF tn = "" THEN @ ELSE tn, !.by = by]
               ELSE [tenant |-> Canonical(tn), status |-> "", assignee |-> "", by |-> by]
  IN  Ret([s EXCEPT !.ack = Put(@, id, [row EXCEPT !.status = IF status = "keep" THEN @ ELSE status,
                                                   !.assignee = IF assignee = "keep" THEN @ ELSE assignee])], "ok")

SetEventAck(s, id, by, status) == UpsertAck(s, id, by, status, "keep")
SetEventCase(s, id, by, assignee) == UpsertAck(s, id, by, "keep", assignee)
EventAcks(s) == [id \in DOMAIN s.ack |-> <<s.ack[id].status, s.ack[id].assignee>>]

OpenIncident(s, id, d) ==
  Ret([s EXCEPT !.inc = Append(@, [id |-> id, dev |-> d, tenant |-> Canonical(TenantForDevice(s, d)), count |-> 1])], id)

\* count + 1 and last_seen = now: the row moves to the end of the order.
BumpIncident(s, id) ==
  LET hit == SelectSeq(s.inc, LAMBDA x : x.id = id)
      rest == SelectSeq(s.inc, LAMBDA x : x.id # id)
  IN  Ret([s EXCEPT !.inc = IF hit = <<>> THEN @ ELSE Append(rest, [hit[1] EXCEPT !.count = @ + 1])], "ok")

\* Filtered through the device, not through incidents.tenant_id.
DeviceSeen(s, d, tenantID) == tenantID = NoTenant \/ (d \in DOMAIN s.dev /\ s.dev[d].tenant = tenantID)

ListIncidents(s, limit, tenantID) ==
  LET rows == Newest(SelectSeq(s.inc, LAMBDA x : DeviceSeen(s, x.dev, tenantID)), limit)
  IN  [i \in DOMAIN rows |-> <<rows[i].id, rows[i].count>>]

(****************************** pending wipes *********************************)

SavePendingWipe(s, d, by) == Ret([s EXCEPT !.wipe = Put(@, d, by)], "ok")
GetPendingWipe(s, d) == IF d \in DOMAIN s.wipe THEN <<s.wipe[d], TRUE>> ELSE <<"", FALSE>>
DeletePendingWipe(s, d) == Ret([s EXCEPT !.wipe = Restrict(@, DOMAIN @ \ {d})], "ok")

\* DELETE ... AND requested_by <> approver RETURNING: one claim, never one's own.
ConsumePendingWipe(s, d, approver) ==
  CASE d \notin DOMAIN s.wipe -> Ret(s, <<"", FALSE>>)
    [] d \in DOMAIN s.wipe /\ s.wipe[d] = approver -> Ret(s, <<approver, FALSE>>)
    [] OTHER -> Ret(DeletePendingWipe(s, d).s, <<s.wipe[d], TRUE>>)

ListPendingWipes(s, tenantID) == {<<d, s.wipe[d]>> : d \in {x \in DOMAIN s.wipe : DeviceSeen(s, x, tenantID)}}

(********************************* policies ***********************************)

\* now(): later than every updated_at so far.
Now(s) == 1 + Max({0} \cup {s.pol[p].updated : p \in DOMAIN s.pol})

CreatePolicy(s, id, tenantID) ==
  Ret([s EXCEPT !.pol = Put(@, id, [tenant |-> tenantID, version |-> 0, updated |-> Now(s), rules |-> <<>>])], id)

PolicyTenant(s, p) == IF p \in DOMAIN s.pol THEN <<s.pol[p].tenant, TRUE>> ELSE <<NoTenant, FALSE>>

PolicyFits(s, p, d) == s.pol[p].tenant = NoTenant \/ s.pol[p].tenant = Canonical(s.dev[d].tenant)

\* INSERT ... SELECT: earlier assignments of the device stay.
AssignPolicy(s, d, p) ==
  IF d \in DOMAIN s.dev /\ p \in DOMAIN s.pol /\ PolicyFits(s, p, d)
    THEN Ret([s EXCEPT !.asg = @ \cup {<<d, p>>}], "ok") ELSE Ret(s, "forbidden")

\* A rule without days applies on every day.
AddPolicyRule(s, p, target, days) ==
  IF p \notin DOMAIN s.pol THEN Ret(s, "error")
  ELSE Ret([s EXCEPT !.pol[p].rules = Append(@, [target |-> target, days |-> IF days = {} THEN 0..6 ELSE days])], "ok")

\* The new version is the time of the change.
BumpPolicyVersion(s, p) ==
  IF p \in DOMAIN s.pol THEN Ret([s EXCEPT !.pol[p].version = Now(s), !.pol[p].updated = Now(s)], "ok") ELSE Ret(s, "error")

DevicesForPolicy(s, p) == {d \in DOMAIN s.dev : <<d, p>> \in s.asg}

\* The tenant is checked again when the policy is read; ORDER BY updated_at.
CurrentPolicy(s, d) ==
  LET fit == {p \in DOMAIN s.pol : <<d, p>> \in s.asg /\ PolicyFits(s, p, d)}
      newest == {p \in fit : \A q \in fit : s.pol[p].updated >= s.pol[q].updated}
  IN  {[version |-> s.pol[p].version, rules |-> s.pol[p].rules] : p \in newest}

AssignedPolicy(s, d) == {<<p, s.pol[p].version>> : p \in {q \in DOMAIN s.pol : <<d, q>> \in s.asg}}

ListPolicyRules(s, p) == IF p \in DOMAIN s.pol THEN s.pol[p].rules ELSE <<>>

ListPolicies(s, tenantID) ==
  {[id |-> p, rules |-> Len(s.pol[p].rules),
    devices |-> Cardinality({d \in DevicesForPolicy(s, p) : Sees(s.dev[d].tenant, tenantID)})]
     : p \in {q \in DOMAIN s.pol : s.pol[q].tenant = NoTenant \/ Sees(s.pol[q].tenant, tenantID)}}

(************************ administrators, MFA, audit **************************)

CreateAdmin(s, id, email, role, tenantID) ==
  IF \E a \in DOMAIN s.adm : s.adm[a].email = email THEN Ret(s, "error")
  ELSE Ret([s EXCEPT !.adm = Put(@, id, [email |-> email, role |-> role, tenant |-> tenantID, active |-> TRUE,
                                         secret |-> "", pending |-> "", enrolled |-> FALSE, step |-> 0])], id)

Active(s, a) == a \in DOMAIN s.adm /\ s.adm[a].active
AdminRole(s, a) == IF Active(s, a) THEN s.adm[a].role ELSE ""
AdminTenant(s, a) == IF Active(s, a) THEN s.adm[a].tenant ELSE "unknown admin"
LookupAdmin(s, email) == {a \in DOMAIN s.adm : s.adm[a].email = email /\ s.adm[a].active}

AdminReachable(s, a, tenantID) == a \in DOMAIN s.adm /\ Sees(s.adm[a].tenant, tenantID)

SetAdminRole(s, a, role, tenantID) ==
  IF AdminReachable(s, a, tenantID) THEN Ret([s EXCEPT !.adm[a].role = role], "ok")
  ELSE Ret(s, IF tenantID # NoTenant THEN "forbidden" ELSE "ok")

DeactivateAdmin(s, a, tenantID) ==
  IF AdminReachable(s, a, tenantID) THEN Ret([s EXCEPT !.adm[a].active = FALSE], "ok")
  ELSE Ret(s, IF tenantID # NoTenant THEN "forbidden" ELSE "ok")

ListAdmins(s, tenantID) ==
  {<<a, s.adm[a].role, s.adm[a].active>> : a \in {x \in DOMAIN s.adm : Sees(s.adm[x].tenant, tenantID)}}

SetPendingMFASecret(s, a, secret) ==
  Ret(IF a \in DOMAIN s.adm THEN [s EXCEPT !.adm[a].pending = secret] ELSE s, "ok")
LookupPendingMFA(s, a) == IF Active(s, a) THEN s.adm[a].pending ELSE ""
LookupMFA(s, a) == IF Active(s, a) /\ s.adm[a].secret # "" THEN <<s.adm[a].secret, s.adm[a].enrolled>> ELSE <<"", FALSE>>

\* Promotes whatever secret is pending when the statement runs.
ActivateMFA(s, a) ==
  IF a \in DOMAIN s.adm /\ s.adm[a].pending # ""
    THEN Ret([s EXCEPT !.adm[a].secret = s.adm[a].pending, !.adm[a].pending = "", !.adm[a].enrolled = TRUE], "ok")
    ELSE Ret(s, "ok")

\* The step counter restarts with the secret.
DisableMFA(s, a) ==
  IF a \in DOMAIN s.adm
    THEN Ret([s EXCEPT !.adm[a].secret = "", !.adm[a].pending = "", !.adm[a].enrolled = FALSE, !.adm[a].step = 0], "ok")
    ELSE Ret(s, "ok")

ConsumeTOTPStep(s, a, step) ==
  IF a \in DOMAIN s.adm /\ step > s.adm[a].step THEN Ret([s EXCEPT !.adm[a].step = step], TRUE) ELSE Ret(s, FALSE)

\* A hash is the entry it covers together with the hash before it.
AuditChainHash(prev, tenantID, by, action) == <<prev, tenantID, by, action>>
LastHash(s) == IF s.aud = <<>> THEN <<>> ELSE Last(s.aud).hash

\* Under the advisory lock: the previous hash is read and the entry inserted.
WriteAudit(s, by, action) ==
  LET tn == IF by \in DOMAIN s.adm THEN s.adm[by].tenant ELSE NoTenant
  IN  Ret([s EXCEPT !.aud = Append(@, [by |-> by, tenant |-> tn, action |-> action,
                                       hash |-> AuditChainHash(LastHash(s), tn, by, action)])], "ok")

VerifyAuditChain(s) ==
  \A i \in DOMAIN s.aud :
    s.aud[i].hash = AuditChainHash(IF i = 1 THEN <<>> ELSE s.aud[i - 1].hash, s.aud[i].tenant, s.aud[i].by, s.aud[i].action)

\* By the tenant the acting administrator has now, not the one in the entry.
ListAudit(s, limit, tenantID) ==
  LET rows == SelectSeq(s.aud, LAMBDA x : tenantID = NoTenant \/ AdminReachable(s, x.by, tenantID))
      top == Newest(rows, limit)
  IN  [i \in DOMAIN top |-> <<top[i].by, top[i].action>>]

(************ saved searches, artifacts, custody, customers, tokens ***********)

SaveSearch(s, id, by) == Ret([s EXCEPT !.srch = Append(@, [id |-> id, by |-> by])], id)
ListSavedSearches(s, tenantID) ==
  Reverse(SelectSeq(s.srch, LAMBDA x : tenantID = NoTenant \/ AdminReachable(s, x.by, tenantID)))
DeleteSavedSearch(s, id, owner) ==
  LET kept == SelectSeq(s.srch, LAMBDA x : ~(x.id = id /\ x.by = owner))
  IN  Ret([s EXCEPT !.srch = kept], kept # s.srch)

SaveArtifact(s, id, d) == Ret([s EXCEPT !.art = Append(@, [id |-> id, dev |-> d, old |-> FALSE])], id)
ListArtifacts(s, d) == LET rows == Reverse(SelectSeq(s.art, LAMBDA x : x.dev = d)) IN [i \in DOMAIN rows |-> rows[i].id]
GetArtifact(s, id, tenantID) == \E i \in DOMAIN s.art : s.art[i].id = id /\ DeviceSeen(s, s.art[i].dev, tenantID)
PurgeArtifactsOlderThan(s) ==
  LET kept == SelectSeq(s.art, LAMBDA x : ~x.old) IN Ret([s EXCEPT !.art = kept], Len(s.art) - Len(kept))

ListCustody(s, ev) == IF ev \in DOMAIN s.cust THEN s.cust[ev] ELSE <<>>
\* UNIQUE (evidence_id, seq) refuses a second entry with the same number.
AppendCustody(s, ev, e) ==
  IF \E i \in DOMAIN ListCustody(s, ev) : ListCustody(s, ev)[i].seq = e.seq THEN Ret(s, "error")
  ELSE Ret([s EXCEPT !.cust = Put(@, ev, SortSeq(Append(ListCustody(s, ev), e), LAMBDA x, y : x.seq < y.seq))], "ok")

MSPAddCustomer(s, id, tenantID) == Ret([s EXCEPT !.msp = Append(@, [id |-> id, tenant |-> tenantID, active |-> TRUE])], id)
MSPListCustomers(s) == Reverse(s.msp)
MSPGetCustomer(s, id) == SelectSeq(s.msp, LAMBDA c : c.id = id)
MSPDeactivateCustomer(s, id) ==
  Ret([s EXCEPT !.msp = [i \in DOMAIN @ |-> IF @[i].id = id THEN [@[i] EXCEPT !.active = FALSE] ELSE @[i]]],
      \E i \in DOMAIN s.msp : s.msp[i].id = id /\ s.msp[i].active)

\* tokens: only an ingest token may be bound to a tenant.
ValidateTenantBinding(scope, tenantID) == tenantID = NoTenant \/ scope = "ingest"
CreateForTenant(s, id, scope, tenantID) ==
  IF ValidateTenantBinding(scope, tenantID)
    THEN Ret([s EXCEPT !.api = Put(@, id, [scope |-> scope, tenant |-> tenantID, revoked |-> FALSE, expired |-> FALSE])], id)
    ELSE Ret(s, "invalid binding")
VerifyTenant(s, scope, id) ==
  IF id \in DOMAIN s.api /\ s.api[id].scope = scope /\ ~s.api[id].revoked /\ ~s.api[id].expired
    THEN <<s.api[id].tenant, TRUE>> ELSE <<NoTenant, FALSE>>
Verify(s, scope, id) == VerifyTenant(s, scope, id) = <<NoTenant, TRUE>>
Revoke(s, id) ==
  IF id \in DOMAIN s.api /\ ~s.api[id].revoked THEN Ret([s EXCEPT !.api[id].revoked = TRUE], "ok") ELSE Ret(s, "not found")
ListTokens(s, scope) == {<<i, s.api[i].revoked>> : i \in {x \in DOMAIN s.api : scope = "" \/ s.api[x].scope = scope}}
=============================================================================
