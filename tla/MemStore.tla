------------------------------ MODULE MemStore ------------------------------
(* The in-memory store (server/internal/memstore), with which the server runs  *)
(* when no database is configured.  Every method holds Store.mu from start to   *)
(* end, so every operator here is one atomic step.  The conventions are those   *)
(* of DbStore; the maps and slices of the Go struct are the fields of s.        *)
EXTENDS Naturals, Sequences, FiniteSets, SequencesExt, Functions, FiniteSetsExt

CONSTANT EventCap    \* how many events SaveEvents keeps (5000 in the code)

Ret(s, r) == [s |-> s, r |-> r]
Put(f, k, v) == [x \in DOMAIN f \cup {k} |-> IF x = k THEN v ELSE f[x]]
Canonical(t) == IF t = "" THEN "default" ELSE t
Equivalent(a, b) == Canonical(a) = Canonical(b)

\* The rows skipped by "if tenantID != "" && x.tenant != tenantID { continue }".
Skipped(t, tenantID) == tenantID # "" /\ t # tenantID

Empty == <<>>
New ==
  [tokens |-> Empty, devices |-> Empty, certs |-> <<>>, events |-> <<>>, eventAcks |-> Empty,
   incidents |-> <<>>, pendWipes |-> Empty, policies |-> Empty, admins |-> Empty, adminsByID |-> Empty,
   audit |-> <<>>, savedSrch |-> <<>>, artifacts |-> <<>>, custody |-> Empty,
   commands |-> Empty, cmdHistory |-> <<>>, mspCusts |-> <<>>, byID |-> Empty]

Take(q, n) == SubSeq(q, 1, IF n > 0 /\ n < Len(q) THEN n ELSE Len(q))

(*************************** enrolment and certificates ***********************)

SaveEnrollmentToken(s, id, by, tenantID) ==
  Ret([s EXCEPT !.tokens = Put(@, id, [createdBy |-> by, tenant |-> tenantID, used |-> FALSE, expired |-> FALSE])], "ok")

ConsumeEnrollmentToken(s, id) ==
  IF id \notin DOMAIN s.tokens \/ s.tokens[id].used \/ s.tokens[id].expired
    THEN Ret(s, "invalid token") ELSE Ret([s EXCEPT !.tokens[id].used = TRUE], s.tokens[id].tenant)

RevokeEnrollmentToken(s, id, tenantID) ==
  IF id \in DOMAIN s.tokens /\ ~Skipped(s.tokens[id].tenant, tenantID)
    THEN Ret([s EXCEPT !.tokens[id].used = TRUE], "ok")
    ELSE Ret(s, IF tenantID # "" THEN "forbidden" ELSE "ok")

EnrollmentTokenTenant(s, id) == IF id \in DOMAIN s.tokens THEN <<s.tokens[id].tenant, TRUE>> ELSE <<"", FALSE>>

ListEnrollmentTokens(s, tenantID) ==
  {[id |-> id, used |-> s.tokens[id].used] : id \in {i \in DOMAIN s.tokens : ~Skipped(s.tokens[i].tenant, tenantID)}}

TenantForDevice(s, d) == IF d \in DOMAIN s.devices THEN s.devices[d].tenant ELSE ""

SameMac(s, mac, tenantID) == {d \in DOMAIN s.devices : s.devices[d].macBidx = mac /\ Equivalent(s.devices[d].tenant, tenantID)}

\* The mac finds the device when the token names none; a device id that is not
\* there is created under that id.
UpsertEnrollingDevice(s, pref, new, mac, tenantID) ==
  LET same == SameMac(s, mac, tenantID)
      id == IF pref # "" THEN pref ELSE IF same # {} THEN CHOOSE d \in same : TRUE ELSE new
  IN  CASE id \in DOMAIN s.devices /\ ~Equivalent(s.devices[id].tenant, tenantID) -> Ret(s, "tenant mismatch")
        [] id \in DOMAIN s.devices /\ Equivalent(s.devices[id].tenant, tenantID) /\ SameMac(s, mac, s.devices[id].tenant) \ {id} # {} -> Ret(s, "error")
        [] id \in DOMAIN s.devices /\ Equivalent(s.devices[id].tenant, tenantID) /\ SameMac(s, mac, s.devices[id].tenant) \ {id} = {} ->
             Ret([s EXCEPT !.devices[id].tenant = Canonical(@), !.devices[id].macBidx = mac, !.devices[id].lastSeen = "fresh",
                           !.devices[id].status = IF @ \in {"PENDING_ENROLLMENT", "OFFLINE", "UNINSTALLED", ""} THEN "ACTIVE" ELSE @], id)
        [] OTHER ->
             Ret([s EXCEPT !.devices = Put(@, id, [tenant |-> tenantID, macBidx |-> mac, status |-> "ACTIVE", lastSeen |-> "fresh",
                                                   tags |-> {}, binaryHash |-> "", binaryVersion |-> "", policyID |-> "", policyVersion |-> 0])], id)

SaveCertificate(s, fp, d) == Ret([s EXCEPT !.certs = Append(@, [fingerprint |-> fp, deviceID |-> d, revoked |-> FALSE])], "ok")

DeviceHasActiveCert(s, d) == \E i \in DOMAIN s.certs : s.certs[i].deviceID = d /\ ~s.certs[i].revoked

RevokeDeviceCerts(s, d) ==
  Ret([s EXCEPT !.certs = [i \in DOMAIN @ |-> IF @[i].deviceID = d THEN [@[i] EXCEPT !.revoked = TRUE] ELSE @[i]]], "ok")

RevokedFingerprints(s) == {s.certs[i].fingerprint : i \in {j \in DOMAIN s.certs : s.certs[j].revoked}}

CertsByDevice(s, d) == {<<s.certs[i].fingerprint, s.certs[i].revoked>> : i \in {j \in DOMAIN s.certs : s.certs[j].deviceID = d}}

EraseDeviceData(s, d) ==
  LET kept(q) == SelectSeq(q, LAMBDA x : x.deviceID # d)
      live == SelectSeq(s.certs, LAMBDA c : c.deviceID = d /\ ~c.revoked)
  IN  Ret([s EXCEPT !.events = kept(@), !.cmdHistory = kept(@), !.artifacts = kept(@),
                    !.commands = Restrict(@, DOMAIN @ \ {d}), !.certs = RevokeDeviceCerts(s, d).s.certs],
          <<Len(s.events) - Len(kept(s.events)), Len(s.cmdHistory) - Len(kept(s.cmdHistory)), Len(live)>>)

(********************************* the fleet **********************************)

TouchHeartbeat(s, d) ==
  IF d \notin DOMAIN s.devices THEN Ret(s, 0)
  ELSE Ret([s EXCEPT !.devices[d].lastSeen = "fresh", !.devices[d].status = IF @ = "OFFLINE" THEN "ACTIVE" ELSE @],
           s.devices[d].policyVersion)

\* Mutant: every silent device goes OFFLINE, a quarantined one too.
MarkStaleOfflineAny(s) ==
  Ret([s EXCEPT !.devices = [d \in DOMAIN @ |-> IF @[d].lastSeen = "stale" THEN [@[d] EXCEPT !.status = "OFFLINE"] ELSE @[d]]], "ok")

MarkStaleOffline(s) ==
  LET down(d) == s.devices[d].status = "ACTIVE" /\ s.devices[d].lastSeen = "stale"
  IN  Ret([s EXCEPT !.devices = [d \in DOMAIN @ |-> IF down(d) THEN [@[d] EXCEPT !.status = "OFFLINE"] ELSE @[d]]], "ok")

SetDeviceStatus(s, d, status) == Ret(IF d \in DOMAIN s.devices THEN [s EXCEPT !.devices[d].status = status] ELSE s, "ok")

\* The status after one outcome, applied to the outcomes in order.
StatusAfter(status, o) ==
  CASE o.ok /\ o.type = "QUARANTINE" -> "QUARANTINED"
    [] o.ok /\ o.type = "UNQUARANTINE" -> "ACTIVE"
    [] OTHER -> status
ApplyCommandResults(s, d, outcomes) ==
  Ret(IF d \in DOMAIN s.devices THEN [s EXCEPT !.devices[d].status = FoldLeft(StatusAfter, @, outcomes)] ELSE s, "ok")

RecordAgentBinary(s, d, version, hash) ==
  IF d \notin DOMAIN s.devices THEN Ret(s, FALSE)
  ELSE LET x == s.devices[d]
       IN  Ret([s EXCEPT !.devices[d] = [@ EXCEPT !.binaryHash = hash, !.binaryVersion = version]],
               x.binaryHash # "" /\ x.binaryHash # hash /\ x.binaryVersion = version)

SetDeviceTags(s, d, tags, tenantID) ==
  CASE tenantID # "" /\ (d \notin DOMAIN s.devices \/ Skipped(TenantForDevice(s, d), tenantID)) -> Ret(s, "forbidden")
    [] d \in DOMAIN s.devices /\ ~Skipped(TenantForDevice(s, d), tenantID) -> Ret([s EXCEPT !.devices[d].tags = tags], "ok")
    [] OTHER -> Ret(s, "ok")

DeviceByID(s, d) == IF d \in DOMAIN s.devices THEN <<s.devices[d].status, s.devices[d].tags, s.devices[d].tenant>> ELSE <<>>

\* A range over a map that stops at the limit: any rows, in any order.
ListDevices(s, limit, tenantID) ==
  LET rows == {d \in DOMAIN s.devices : ~Skipped(s.devices[d].tenant, tenantID)}
      n == IF limit > 0 /\ limit < Cardinality(rows) THEN limit ELSE Cardinality(rows)
  IN  {P \in SUBSET rows : Cardinality(P) = n}

DeviceStatusCounts(s, tenantID) ==
  LET rows == {d \in DOMAIN s.devices : ~Skipped(s.devices[d].tenant, tenantID)}
      Incr(f, d) == Put(f, s.devices[d].status, 1 + (IF s.devices[d].status \in DOMAIN f THEN f[s.devices[d].status] ELSE 0))
  IN  FoldLeft(Incr, Empty, SetToSeq(rows))

EnqueueCommand(s, d, type, by) ==
  Ret([s EXCEPT !.commands = Put(@, d, Append(IF d \in DOMAIN @ THEN @[d] ELSE <<>>, type)),
                !.cmdHistory = Append(@, [deviceID |-> d, cmdType |-> type, issuedBy |-> by, delivered |-> FALSE])], "ok")

\* Handed out once and forgotten: there is no redelivery here.
PendingCommands(s, d) ==
  LET out == IF d \in DOMAIN s.commands THEN s.commands[d] ELSE <<>>
  IN  Ret([s EXCEPT !.commands = Put(@, d, <<>>),
                    !.cmdHistory = IF out = <<>> THEN @ ELSE [i \in DOMAIN @ |-> IF @[i].deviceID = d THEN [@[i] EXCEPT !.delivered = TRUE] ELSE @[i]]], out)

AckCommands(s, d, ids) == Ret(s, "ok")

CommandHistory(s, d) == Reverse(SelectSeq(s.cmdHistory, LAMBDA c : c.deviceID = d))

(*********************** events, triage, incidents ****************************)

\* Only the newest EventCap events are kept.
SaveEvents(s, d, evs) ==
  LET all == s.events \o [i \in DOMAIN evs |-> [id |-> evs[i].id, deviceID |-> d, tenant |-> evs[i].tenant, severity |-> evs[i].sev, details |-> evs[i].kind]]
  IN  Ret([s EXCEPT !.events = SubSeq(all, IF Len(all) > EventCap THEN Len(all) - EventCap + 1 ELSE 1, Len(all))], "ok")

Attribute(e, f) == (f.dev = "" \/ e.deviceID = f.dev) /\ (f.sev = "" \/ e.severity = f.sev)
Row(e) == [id |-> e.id, dev |-> e.deviceID, tenant |-> e.tenant, sev |-> e.severity, kind |-> e.details]
Rows(q) == [i \in DOMAIN q |-> Row(q[i])]

QueryEvents(s, f) == Rows(Take(Reverse(SelectSeq(s.events, LAMBDA e : Attribute(e, f) /\ ~Skipped(e.tenant, f.tenant))), f.limit))
ListEvents(s, f) == Rows(Take(Reverse(SelectSeq(s.events, LAMBDA e : Attribute(e, f))), f.limit))

EventSeverityCounts(s, tenantID) ==
  LET Incr(f, e) == IF Skipped(e.tenant, tenantID) THEN f ELSE Put(f, e.severity, 1 + (IF e.severity \in DOMAIN f THEN f[e.severity] ELSE 0))
  IN  FoldLeft(Incr, Empty, s.events)

\* From the newest event back: the first one of the kind a device has counts.
LatestByDevice(s, kind, tenantID) ==
  LET Keep(f, e) == IF e.details # kind \/ Skipped(e.tenant, tenantID) \/ e.deviceID \in DOMAIN f THEN f ELSE Put(f, e.deviceID, e.id)
  IN  FoldLeft(Keep, Empty, Reverse(s.events))

LatestComplianceByDevice(s, tenantID) == LatestByDevice(s, "compliance", tenantID)
LatestSoftwareByDevice(s, tenantID) == LatestByDevice(s, "software", tenantID)
SearchSoftware(s, wanted, tenantID) ==
  LET latest == LatestByDevice(s, "software", tenantID) IN {d \in DOMAIN latest : latest[d] \in wanted}

EventTenant(s, id) ==
  LET hits == SelectSeq(s.events, LAMBDA e : e.id = id) IN IF hits = <<>> THEN "" ELSE hits[1].tenant

ackTenantLocked(s, id, existing) ==
  CASE \E i \in DOMAIN s.events : s.events[i].id = id -> Canonical(EventTenant(s, id))
    [] ~(\E i \in DOMAIN s.events : s.events[i].id = id) /\ existing # "" -> existing
    [] OTHER -> "default"

AckOf(s, id) == IF id \in DOMAIN s.eventAcks THEN s.eventAcks[id] ELSE [tenant |-> "", status |-> "", assignee |-> "", adminID |-> ""]

SetEventAck(s, id, by, status) ==
  LET rec == AckOf(s, id)
  IN  Ret([s EXCEPT !.eventAcks = Put(@, id, [rec EXCEPT !.status = status, !.adminID = by, !.tenant = ackTenantLocked(s, id, rec.tenant)])], "ok")

SetEventCase(s, id, by, assignee) ==
  LET rec == AckOf(s, id)
  IN  Ret([s EXCEPT !.eventAcks = Put(@, id, [rec EXCEPT !.assignee = assignee, !.adminID = by, !.tenant = ackTenantLocked(s, id, rec.tenant)])], "ok")

EventAcks(s) == [id \in DOMAIN s.eventAcks |-> <<s.eventAcks[id].status, s.eventAcks[id].assignee>>]

\* Times are numbers: the next event is later than everything before it.
Later(s) == 1 + Max({0} \cup {s.incidents[i].lastSeen : i \in DOMAIN s.incidents})

OpenIncident(s, id, d) ==
  LET t == IF d \in DOMAIN s.devices THEN Canonical(s.devices[d].tenant) ELSE "default"
  IN  Ret([s EXCEPT !.incidents = Append(@, [id |-> id, deviceID |-> d, tenant |-> t, count |-> 1, lastSeen |-> Later(s)])], id)

BumpIncident(s, id) ==
  Ret([s EXCEPT !.incidents = [i \in DOMAIN @ |-> IF @[i].id = id THEN [@[i] EXCEPT !.count = @ + 1, !.lastSeen = Later(s)] ELSE @[i]]], "ok")

InTenant(s, d, tenantID) == tenantID = "" \/ (d \in DOMAIN s.devices /\ s.devices[d].tenant = tenantID)

ListIncidents(s, limit, tenantID) ==
  LET sorted == SortSeq(s.incidents, LAMBDA a, b : a.lastSeen > b.lastSeen)
      rows == Take(SelectSeq(sorted, LAMBDA x : InTenant(s, x.deviceID, tenantID)), limit)
  IN  [i \in DOMAIN rows |-> <<rows[i].id, rows[i].count>>]

(****************************** pending wipes *********************************)

SavePendingWipe(s, d, by) == Ret([s EXCEPT !.pendWipes = Put(@, d, by)], "ok")
GetPendingWipe(s, d) == IF d \in DOMAIN s.pendWipes THEN <<s.pendWipes[d], TRUE>> ELSE <<"", FALSE>>
DeletePendingWipe(s, d) == Ret([s EXCEPT !.pendWipes = Restrict(@, DOMAIN @ \ {d})], "ok")
ConsumePendingWipe(s, d, approver) ==
  LET rec == GetPendingWipe(s, d)
  IN  IF ~rec[2] \/ rec[1] = approver THEN Ret(s, <<rec[1], FALSE>>)
      ELSE Ret(DeletePendingWipe(s, d).s, <<rec[1], TRUE>>)
ListPendingWipes(s, tenantID) == {<<d, s.pendWipes[d]>> : d \in {x \in DOMAIN s.pendWipes : InTenant(s, x, tenantID)}}

(********************************* policies ***********************************)

CreatePolicy(s, id, tenantID) == Ret([s EXCEPT !.policies = Put(@, id, [tenant |-> tenantID, version |-> 0, rules |-> <<>>])], id)

PolicyTenant(s, p) == IF p \in DOMAIN s.policies THEN <<s.policies[p].tenant, TRUE>> ELSE <<"", FALSE>>

\* One policy per device: the new one takes the place of the old one.
AssignPolicy(s, d, p) ==
  IF \/ d \notin DOMAIN s.devices
     \/ p \notin DOMAIN s.policies
     \/ s.policies[p].tenant # "" /\ ~Equivalent(s.policies[p].tenant, s.devices[d].tenant)
    THEN Ret(s, "forbidden")
    ELSE Ret([s EXCEPT !.devices[d].policyID = p, !.devices[d].policyVersion = s.policies[p].version], "ok")

AddPolicyRule(s, p, target, days) ==
  IF p \notin DOMAIN s.policies THEN Ret(s, "ok")
  ELSE Ret([s EXCEPT !.policies[p].rules = Append(@, [target |-> target, days |-> IF days = {} THEN 0..6 ELSE days])], "ok")

\* The clock is shared with the database side: the new version is an argument.
BumpPolicyVersion(s, p, now) ==
  IF p \notin DOMAIN s.policies THEN Ret(s, "ok")
  ELSE Ret([s EXCEPT !.policies[p].version = now,
                     !.devices = [d \in DOMAIN @ |-> IF @[d].policyID = p THEN [@[d] EXCEPT !.policyVersion = now] ELSE @[d]]], "ok")

DevicesForPolicy(s, p) == {d \in DOMAIN s.devices : s.devices[d].policyID = p}

CurrentPolicy(s, d) ==
  LET p == IF d \in DOMAIN s.devices THEN s.devices[d].policyID ELSE ""
  IN  IF p \notin DOMAIN s.policies THEN {}
      ELSE IF s.policies[p].tenant # "" /\ ~Equivalent(s.policies[p].tenant, s.devices[d].tenant) THEN {}
      ELSE {[version |-> s.policies[p].version, rules |-> s.policies[p].rules]}

AssignedPolicy(s, d) ==
  IF d \notin DOMAIN s.devices \/ s.devices[d].policyID = "" THEN {} ELSE {<<s.devices[d].policyID, s.devices[d].policyVersion>>}

ListPolicyRules(s, p) == IF p \in DOMAIN s.policies THEN s.policies[p].rules ELSE <<>>

ListPolicies(s, tenantID) ==
  {[id |-> p, rules |-> Len(s.policies[p].rules),
    devices |-> Cardinality({d \in DevicesForPolicy(s, p) : ~Skipped(s.devices[d].tenant, tenantID)})]
     : p \in {q \in DOMAIN s.policies : ~(tenantID # "" /\ s.policies[q].tenant # "" /\ s.policies[q].tenant # tenantID)}}

(************************ administrators, MFA, audit **************************)

\* No uniqueness check: a second account takes the place of the first under its
\* email while both keep their ids.
CreateAdmin(s, id, email, role, tenantID) ==
  Ret([s EXCEPT !.admins = Put(@, email, id),
                !.adminsByID = Put(@, id, [email |-> email, role |-> role, tenant |-> tenantID, active |-> TRUE,
                                           mfaSecret |-> "", mfaPending |-> "", mfaEnrolled |-> FALSE, mfaLastStep |-> 0])], id)

AdminRole(s, a) == IF a \in DOMAIN s.adminsByID /\ s.adminsByID[a].active THEN s.adminsByID[a].role ELSE ""
AdminTenant(s, a) == IF a \in DOMAIN s.adminsByID /\ s.adminsByID[a].active THEN s.adminsByID[a].tenant ELSE "unknown admin"
LookupAdmin(s, email) ==
  IF email \in DOMAIN s.admins /\ s.adminsByID[s.admins[email]].active THEN {s.admins[email]} ELSE {}

Refused(s, a, tenantID) == tenantID # "" /\ (a \notin DOMAIN s.adminsByID \/ s.adminsByID[a].tenant # tenantID)

SetAdminRole(s, a, role, tenantID) ==
  IF Refused(s, a, tenantID) THEN Ret(s, "forbidden")
  ELSE Ret(IF a \in DOMAIN s.adminsByID THEN [s EXCEPT !.adminsByID[a].role = role] ELSE s, "ok")

DeactivateAdmin(s, a, tenantID) ==
  IF Refused(s, a, tenantID) THEN Ret(s, "forbidden")
  ELSE Ret(IF a \in DOMAIN s.adminsByID THEN [s EXCEPT !.adminsByID[a].active = FALSE] ELSE s, "ok")

ListAdmins(s, tenantID) ==
  {<<a, s.adminsByID[a].role, s.adminsByID[a].active>> : a \in {x \in DOMAIN s.adminsByID : ~Skipped(s.adminsByID[x].tenant, tenantID)}}

SetPendingMFASecret(s, a, secret) == Ret(IF a \in DOMAIN s.adminsByID THEN [s EXCEPT !.adminsByID[a].mfaPending = secret] ELSE s, "ok")
LookupPendingMFA(s, a) == IF a \in DOMAIN s.adminsByID THEN s.adminsByID[a].mfaPending ELSE ""
LookupMFA(s, a) == IF a \in DOMAIN s.adminsByID THEN <<s.adminsByID[a].mfaSecret, s.adminsByID[a].mfaEnrolled>> ELSE <<"", FALSE>>
ActivateMFA(s, a) ==
  IF a \in DOMAIN s.adminsByID /\ s.adminsByID[a].mfaPending # ""
    THEN Ret([s EXCEPT !.adminsByID[a] = [@ EXCEPT !.mfaSecret = s.adminsByID[a].mfaPending, !.mfaPending = "", !.mfaEnrolled = TRUE]], "ok")
    ELSE Ret(s, "ok")
\* The step counter is kept.
DisableMFA(s, a) ==
  Ret(IF a \in DOMAIN s.adminsByID THEN [s EXCEPT !.adminsByID[a] = [@ EXCEPT !.mfaSecret = "", !.mfaPending = "", !.mfaEnrolled = FALSE]] ELSE s, "ok")

ConsumeTOTPStep(s, a, step) ==
  IF a \notin DOMAIN s.adminsByID THEN Ret(s, FALSE)
  ELSE IF step <= s.adminsByID[a].mfaLastStep THEN Ret(s, FALSE)
  ELSE Ret([s EXCEPT !.adminsByID[a].mfaLastStep = step], TRUE)

AuditChainHash(prev, tenantID, email, action) == <<prev, tenantID, email, action>>

WriteAudit(s, by, action) ==
  LET known == by \in DOMAIN s.adminsByID
      email == IF known THEN s.adminsByID[by].email ELSE ""
      tn == IF known THEN s.adminsByID[by].tenant ELSE ""
      prev == IF s.audit = <<>> THEN <<>> ELSE Last(s.audit).hash
  IN  Ret([s EXCEPT !.audit = Append(@, [adminEmail |-> email, tenant |-> tn, action |-> action, hash |-> AuditChainHash(prev, tn, email, action)])], "ok")

VerifyAuditChain(s) ==
  \A i \in DOMAIN s.audit :
    s.audit[i].hash = AuditChainHash(IF i = 1 THEN <<>> ELSE s.audit[i - 1].hash, s.audit[i].tenant, s.audit[i].adminEmail, s.audit[i].action)

\* The acting administrator is found again by the email in the entry.
ListAudit(s, limit, tenantID) ==
  LET owner(x) == s.adminsByID[s.admins[x.adminEmail]]
      rows == Take(SelectSeq(Reverse(s.audit), LAMBDA x : tenantID = "" \/ (x.adminEmail \in DOMAIN s.admins /\ owner(x).tenant = tenantID)), limit)
  IN  [i \in DOMAIN rows |-> <<IF rows[i].adminEmail \in DOMAIN s.admins THEN s.admins[rows[i].adminEmail] ELSE "", rows[i].action>>]

(************ saved searches, artifacts, custody, customers, tokens ***********)

SaveSearch(s, id, by) == Ret([s EXCEPT !.savedSrch = Append(@, [id |-> id, by |-> by])], id)
ListSavedSearches(s, tenantID) ==
  SelectSeq(Reverse(s.savedSrch), LAMBDA x : tenantID = "" \/ (x.by \in DOMAIN s.adminsByID /\ s.adminsByID[x.by].tenant = tenantID))
\* The first record with that id and owner is cut out of the slice.
DeleteSavedSearch(s, id, owner) ==
  LET hits == {i \in DOMAIN s.savedSrch : s.savedSrch[i] = [id |-> id, by |-> owner]}
  IN  IF hits = {} THEN Ret(s, FALSE) ELSE Ret([s EXCEPT !.savedSrch = RemoveAt(@, Min(hits))], TRUE)

SaveArtifact(s, id, d) == Ret([s EXCEPT !.artifacts = Append(@, [id |-> id, deviceID |-> d, old |-> FALSE])], id)
ListArtifacts(s, d) == LET rows == SelectSeq(Reverse(s.artifacts), LAMBDA x : x.deviceID = d) IN [i \in DOMAIN rows |-> rows[i].id]
GetArtifact(s, id, tenantID) ==
  LET hits == SelectSeq(s.artifacts, LAMBDA x : x.id = id) IN hits # <<>> /\ InTenant(s, hits[1].deviceID, tenantID)
PurgeArtifactsOlderThan(s) ==
  LET removed == SelectSeq(s.artifacts, LAMBDA x : x.old)
  IN  Ret([s EXCEPT !.artifacts = SelectSeq(@, LAMBDA x : ~x.old)], Len(removed))

ListCustody(s, ev) == IF ev \in DOMAIN s.custody THEN s.custody[ev] ELSE <<>>
AppendCustody(s, ev, e) ==
  IF e.seq \in {ListCustody(s, ev)[i].seq : i \in DOMAIN ListCustody(s, ev)} THEN Ret(s, "error")
  ELSE Ret([s EXCEPT !.custody = Put(@, ev, Append(ListCustody(s, ev), e))], "ok")

MSPAddCustomer(s, id, tenantID) == Ret([s EXCEPT !.mspCusts = Append(@, [id |-> id, tenant |-> tenantID, active |-> TRUE])], id)
MSPListCustomers(s) == Reverse(s.mspCusts)
MSPGetCustomer(s, id) == SelectSeq(s.mspCusts, LAMBDA c : c.id = id)
MSPDeactivateCustomer(s, id) ==
  LET hits == {i \in DOMAIN s.mspCusts : s.mspCusts[i].id = id /\ s.mspCusts[i].active}
  IN  IF hits = {} THEN Ret(s, FALSE) ELSE Ret([s EXCEPT !.mspCusts[Min(hits)].active = FALSE], TRUE)

\* authtoken.MemStore, the token store that goes with this one.
CreateForTenant(s, id, scope, tenantID) ==
  IF tenantID # "" /\ scope # "ingest" THEN Ret(s, "invalid binding")
  ELSE Ret([s EXCEPT !.byID = Put(@, id, [scope |-> scope, tenant |-> tenantID, revoked |-> FALSE, expired |-> FALSE])], id)
VerifyTenant(s, scope, id) ==
  LET hits == {i \in DOMAIN s.byID : i = id /\ s.byID[i].scope = scope /\ ~s.byID[i].revoked /\ ~s.byID[i].expired}
  IN  IF hits = {} THEN <<"", FALSE>> ELSE <<s.byID[id].tenant, TRUE>>
Verify(s, scope, id) == LET v == VerifyTenant(s, scope, id) IN v[2] /\ v[1] = ""
Revoke(s, id) == IF id \in DOMAIN s.byID THEN Ret([s EXCEPT !.byID[id].revoked = TRUE], "ok") ELSE Ret(s, "not found")
ListTokens(s, scope) == {<<i, s.byID[i].revoked>> : i \in {x \in DOMAIN s.byID : scope = "" \/ s.byID[x].scope = scope}}
=============================================================================
