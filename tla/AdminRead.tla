------------------------------ MODULE AdminRead ------------------------------
(* The read side of the console: the reader (server/internal/adminread) and    *)
(* the GET handlers of server/internal/adminapi, as functions of the store.    *)
(* A handler resolves the caller's tenant and passes it down to the query; a   *)
(* reader method is what it computes from the rows it gets.  Where LIMIT may   *)
(* keep one row or another the answer is the set of possible answers.          *)
EXTENDS AdminService

DefaultLimit == 2     \* 100 in the code
MaxLimit == 4         \* 1000
clampLimit(n) == IF n <= 0 THEN DefaultLimit ELSE IF n > MaxLimit THEN MaxLimit ELSE n

(********************************* the reader *********************************)

DeviceDTO(s, d) == [id |-> d, status |-> s.dev[d].status, tags |-> s.dev[d].tags, seen |-> s.dev[d].seen]
Devices(s, limit, t) == {{DeviceDTO(s, d) : d \in P} : P \in Db!ListDevices(s, clampLimit(limit), t)}

\* Another tenant's device is as good as absent.
DeviceDetail(s, d, t) ==
  IF d \notin DOMAIN s.dev \/ (t # "" /\ s.dev[d].tenant # t) THEN <<>>
  ELSE <<DeviceDTO(s, d), Db!CertsByDevice(s, d), Db!CommandHistory(s, d), Db!AssignedPolicy(s, d)>>

Filter(d, sev, limit, t) == [dev |-> d, sev |-> sev, limit |-> limit, tenant |-> t]

\* The triage marks of all tenants are read and joined on the event id.
Acked(s, row) == [row |-> row, ack |-> IF row.id \in DOMAIN Db!EventAcks(s) THEN Db!EventAcks(s)[row.id] ELSE <<>>]
\* Mutant: the filter is built without the caller's tenant.
EventsOfAll(s, d, sev, limit, t) == LET rows == Db!QueryEvents(s, Filter(d, sev, clampLimit(limit), "")) IN [i \in DOMAIN rows |-> Acked(s, rows[i])]

Events(s, d, sev, limit, t) ==
  LET rows == Db!QueryEvents(s, Filter(d, sev, clampLimit(limit), t)) IN [i \in DOMAIN rows |-> Acked(s, rows[i])]

QueryEvents(s, f) == Db!QueryEvents(s, [f EXCEPT !.limit = clampLimit(@)])

\* What a compliance report says: the event's id is its content.
Enc(id) == IF id % 2 = 0 THEN "off" ELSE "on"
Fw(id) == IF id % 3 = 0 THEN "off" ELSE "unknown"

\* The total comes from the counts, online from at most DefaultLimit rows.
Summary(s, t) ==
  LET counts == Db!DeviceStatusCounts(s, t)
      total == Cardinality({d \in DOMAIN s.dev : Db!Sees(s.dev[d].tenant, t)})
      comp == Db!LatestComplianceByDevice(s, t)
      online(P) == Cardinality({d \in P : s.dev[d].seen = "fresh"})
  IN  {[total |-> total, online |-> online(P), offline |-> IF total < online(P) THEN 0 ELSE total - online(P),
        quarantined |-> IF "QUARANTINED" \in DOMAIN counts THEN counts["QUARANTINED"] ELSE 0,
        severity |-> Db!EventSeverityCounts(s, t),
        encOff |-> Cardinality({d \in DOMAIN comp : Enc(comp[d]) = "off"}),
        nonCompliant |-> Cardinality({d \in DOMAIN comp : "off" \in {Enc(comp[d]), Fw(comp[d])}})]
         : P \in Db!ListDevices(s, clampLimit(0), t)}

\* ListDevices gets the limit 0 here, which the query takes at its word.
Coverage(s, t) ==
  {[total |-> Cardinality(P), online |-> Cardinality({d \in P : s.dev[d].seen = "fresh"}),
    versions |-> {s.dev[d].ver : d \in P}] : P \in Db!ListDevices(s, 0, t)}

Incidents(s, limit, t) == Db!ListIncidents(s, clampLimit(limit), t)
PendingWipes(s, t) == Db!ListPendingWipes(s, t)

\* The incident is searched among the caller's, then its device's events.
IncidentTimeline(s, id, t) ==
  LET found == {i \in DOMAIN s.inc : s.inc[i].id = id /\ \E k \in DOMAIN Incidents(s, 1000, t) : Incidents(s, 1000, t)[k][1] = id}
  IN  IF found = {} THEN <<>>
      ELSE LET inc == s.inc[CHOOSE i \in found : TRUE]
           IN  <<inc.id, Db!QueryEvents(s, Filter(inc.dev, "", MaxLimit, t))>>

FrameworkCompliance(s, t) ==
  LET comp == Db!LatestComplianceByDevice(s, t)
      known(f(_)) == {d \in DOMAIN comp : f(comp[d]) # "unknown"}
      on(f(_)) == {d \in DOMAIN comp : f(comp[d]) = "on"}
  IN  [disk |-> <<Cardinality(on(Enc)), Cardinality(known(Enc))>>, firewall |-> <<Cardinality(on(Fw)), Cardinality(known(Fw))>>]

\* What drives a device's score; the score is a function of the drivers.
FleetRisk(s, t) ==
  LET inc == Incidents(s, 1000, t)
      comp == Db!LatestComplianceByDevice(s, t)
      devOf(id) == s.inc[CHOOSE i \in DOMAIN s.inc : s.inc[i].id = id].dev
      drivers(x) == {<<"incident", inc[i][1]>> : i \in {j \in DOMAIN inc : devOf(inc[j][1]) = x.id}}
               \cup (IF x.id \in DOMAIN comp /\ Enc(comp[x.id]) = "off" THEN {<<"encryption", 0>>} ELSE {})
               \cup (IF x.id \in DOMAIN comp /\ Fw(comp[x.id]) = "off" THEN {<<"firewall", 0>>} ELSE {})
               \cup (IF x.status = "QUARANTINED" THEN {<<"quarantined", 0>>} ELSE {})
  IN  {{<<x.id, drivers(x)>> : x \in P} : P \in Devices(s, 0, t)}

AdminBehavior(s, limit) == Db!ListAudit(s, clampLimit(limit), "")

\* Triaged events of the window, whoever they belong to.
ComputeTrends(rows) == [detect |-> Cardinality({i \in DOMAIN rows : rows[i].row.kind = "security"}),
                        respond |-> Cardinality({i \in DOMAIN rows : rows[i].ack # <<>>})]
DetectionResponseTrends(s) ==
  LET rows == Db!QueryEvents(s, Filter("", "", MaxLimit, "")) IN ComputeTrends([i \in DOMAIN rows |-> Acked(s, rows[i])])

deviceInTenant(s, d, t) == t = "" \/ (d \in DOMAIN s.dev /\ s.dev[d].tenant = t)
Artifacts(s, d, t) == IF deviceInTenant(s, d, t) THEN Db!ListArtifacts(s, d) ELSE <<>>
ArtifactBytes(s, id, t) == Db!GetArtifact(s, id, t)

\* A custody entry covers the one before it.
EntryHash(prev, seq, by) == <<prev, seq, by>>
VerifyCustody(chain) ==
  \A i \in DOMAIN chain : chain[i].seq = i /\ chain[i].hash = EntryHash(IF i = 1 THEN <<>> ELSE chain[i - 1].hash, i, chain[i].by)
DeviceEvidence(s, d, t) ==
  IF ~deviceInTenant(s, d, t) THEN <<>>
  ELSE LET rows == Db!ListArtifacts(s, d)
       IN  [i \in DOMAIN rows |-> <<rows[i], Db!ListCustody(s, rows[i]), VerifyCustody(Db!ListCustody(s, rows[i]))>>]

SoftwareSearch(s, wanted, t) ==
  LET hits == Db!SearchSoftware(s, wanted, t)
  IN  {{<<d, d \in P>> : d \in hits} : P \in Db!ListDevices(s, clampLimit(0), t)}
Audit(s, limit, t) == Db!ListAudit(s, clampLimit(limit), t)
EnrollmentTokens(s, t) == Db!ListEnrollmentTokens(s, t)
Policies(s, t) == Db!ListPolicies(s, t)
SavedSearches(s, t) == Db!ListSavedSearches(s, t)

\* Audit entries about the device among the caller's newest DefaultLimit ones.
ExportDevice(s, d, t) ==
  IF DeviceDetail(s, d, t) = <<>> THEN <<>> ELSE <<DeviceDetail(s, d, t), Events(s, d, "", 0, t), Audit(s, 0, t)>>

sevRankValue(sev) ==
  CASE sev = "CRITICAL" -> 5 [] sev = "HIGH" -> 4 [] sev = "MEDIUM" -> 3 [] sev = "LOW" -> 2 [] sev = "INFO" -> 1 [] OTHER -> 0
\* The stage of an event is given by its kind; SYSTEM events are left out.
classifyStage(kind) == CASE kind = "security" -> 11 [] kind = "software" -> 2 [] OTHER -> 0
BuildAttackStory(d, rows) ==
  LET told == SelectSeq(rows, LAMBDA x : x.row.kind # "compliance")
  IN  [device |-> d, steps |-> told, stages |-> {classifyStage(told[i].row.kind) : i \in DOMAIN told},
       worst |-> {told[i].row.sev : i \in {j \in DOMAIN told : \A k \in DOMAIN told : sevRankValue(told[k].row.sev) <= sevRankValue(told[j].row.sev)}}]
DeviceAttackStory(s, d, t) == BuildAttackStory(d, Events(s, d, "", 0, t))
\* One node and one edge per entity, with the worst severity seen on it.
BuildEntityGraph(d, rows) ==
  {[to |-> k, sev |-> CHOOSE v \in {rows[i].row.sev : i \in {j \in DOMAIN rows : rows[j].row.kind = k}} :
                        \A i \in DOMAIN rows : rows[i].row.kind = k => sevRankValue(rows[i].row.sev) <= sevRankValue(v)]
     : k \in {rows[i].row.kind : i \in DOMAIN rows}}
DeviceEntityGraph(s, d, t) == BuildEntityGraph(d, Events(s, d, "", 0, t))

replayScanCap == 4
\* rule: the severities it matches.
ReplayDetections(s, f, rule) ==
  LET rows == Db!QueryEvents(s, [f EXCEPT !.limit = IF @ <= 0 \/ @ > replayScanCap THEN replayScanCap ELSE @])
  IN  [scanned |-> Len(rows), matched |-> SelectSeq(rows, LAMBDA e : e.sev \in rule)]

(******************************** the handlers ********************************)
(* h(s, c, a, x): the answer to administrator a; "denied" is 403.              *)

callerTenant(s, a) == AdminTenant(s, a)
EnsureRole(s, a, min) == require(s, a, min) = "ok"
Need(s, a, min, answer) == IF EnsureRole(s, a, min) THEN <<answer>> ELSE <<"denied">>
requirePlatformAdmin(s, a) == callerTenant(s, a) = ""

handleListTokens(s, a) == Need(s, a, "OPERATOR", EnrollmentTokens(s, callerTenant(s, a)))
handleListRules(s, a, p) ==
  LET plan == ListPolicyRules(s, <<>>, [by |-> a, on |-> p]) IN IF plan.err = "" THEN <<Db!ListPolicyRules(s, p)>> ELSE <<"denied">>
handleListAdmins(s, a) == Need(s, a, "OPERATOR", Db!ListAdmins(s, callerTenant(s, a)))
handleListDevices(s, a, tag) ==
  {{x \in P : tag = "" \/ tag \in x.tags} : P \in Devices(s, 0, callerTenant(s, a))}
handleDeviceDetail(s, a, d) == DeviceDetail(s, d, callerTenant(s, a))
handleListPolicies(s, a) == Policies(s, callerTenant(s, a))
handleExportDevice(s, a, d) == Need(s, a, "ADMIN", ExportDevice(s, d, callerTenant(s, a)))
handleListEvents(s, a, d) == Events(s, d, "", 0, callerTenant(s, a))
handleSummary(s, a) == Summary(s, callerTenant(s, a))
handleReplayDetection(s, a) == Need(s, a, "OPERATOR", ReplayDetections(s, Filter("", "", 0, callerTenant(s, a)), {"HIGH"}))
\* At most 1000 rows, then the rules are run over them if asked to.
handleHunt(s, a) ==
  LET rows == QueryEvents(s, Filter("", "", 3, callerTenant(s, a))) IN <<rows, SelectSeq(rows, LAMBDA e : e.sev = "HIGH")>>
\* A tenant's report leaves the process-wide counters out.
buildReportData(s, t) == <<Summary(s, t), Incidents(s, 2, t), t # "">>
handleReport(s, a) == buildReportData(s, callerTenant(s, a))
handleEntityGraph(s, a, d) == DeviceEntityGraph(s, d, callerTenant(s, a))
handleAttackStory(s, a, d) == DeviceAttackStory(s, d, callerTenant(s, a))
handleFrameworks(s, a) == FrameworkCompliance(s, callerTenant(s, a))
handleRisk(s, a) == FleetRisk(s, callerTenant(s, a))
handleCoverage(s, a) == Coverage(s, callerTenant(s, a))
handleAdminBehavior(s, a) == Need(s, a, "OPERATOR", AdminBehavior(s, 0))
\* Oldest first, chained anew from the rows the caller may see.
handleAuditExport(s, a) == Need(s, a, "OPERATOR", Reverse(Audit(s, 0, callerTenant(s, a))))
handleListSavedSearches(s, a) == SavedSearches(s, callerTenant(s, a))
handleMetricsTrends(s, a) == DetectionResponseTrends(s)
handleIncidentTimeline(s, a, i) == IncidentTimeline(s, i, callerTenant(s, a))
handleIncidents(s, a) == Incidents(s, 3, callerTenant(s, a))
handlePendingWipes(s, a) == PendingWipes(s, callerTenant(s, a))
handleListArtifacts(s, a, d) == Need(s, a, "OPERATOR", Artifacts(s, d, callerTenant(s, a)))
handleDeviceEvidence(s, a, d) == Need(s, a, "OPERATOR", DeviceEvidence(s, d, callerTenant(s, a)))
handleDownloadArtifact(s, a, i) == Need(s, a, "OPERATOR", ArtifactBytes(s, i, callerTenant(s, a)))
\* Hostnames come from the first page of devices only.
handleVulnerabilities(s, a) ==
  LET byDev == Db!LatestSoftwareByDevice(s, callerTenant(s, a))
  IN  {{<<d, d \in {x.id : x \in P}>> : d \in {k \in DOMAIN byDev : byDev[k] % 2 = 1}} : P \in Devices(s, 0, callerTenant(s, a))}
handleSoftwareSearch(s, a) == SoftwareSearch(s, {1, 2}, callerTenant(s, a))
handleActivity(s, a) == IF callerTenant(s, a) # "" THEN "omitted" ELSE "counters"
handleListAudit(s, a) == Need(s, a, "OPERATOR", Audit(s, 0, callerTenant(s, a)))
handleVerifyAudit(s, a) == Need(s, a, "ADMIN", Db!VerifyAuditChain(s))
handleTokenList(s, a) == IF EnsureRole(s, a, "ADMIN") /\ requirePlatformAdmin(s, a) THEN <<Db!ListTokens(s, "")>> ELSE <<"denied">>
handleMSPListCustomers(s, a) == IF EnsureRole(s, a, "ADMIN") /\ requirePlatformAdmin(s, a) THEN <<Db!MSPListCustomers(s)>> ELSE <<"denied">>
=============================================================================
