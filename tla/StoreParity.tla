----------------------------- MODULE StoreParity -----------------------------
(* The server runs on the database store or on the in-memory store behind the   *)
(* same interfaces, and its tests run on the second.  Here every call is made   *)
(* to both.  The calls fall into families that touch tables of their own (and   *)
(* the devices or administrators they refer to); the initial state picks the    *)
(* family whose calls are made, so that each family is explored on its own.     *)
EXTENDS Naturals, Sequences, FiniteSets

CONSTANTS Devices, Tenants, Macs, Admins,
          EventCap,   \* events the in-memory store keeps
          Families,   \* the families of calls to explore
          MaxRows     \* bound on the rows of the append-only tables

ASSUME ParityAssumption ==
  /\ EventCap \in Nat \ {0} /\ MaxRows \in Nat \ {0}
  /\ "" \notin Devices    \* the empty id asks for a new device

Db == INSTANCE DbStore
Mem == INSTANCE MemStore

VARIABLES family, db, mem,
          ret     \* what the two stores returned from the last call
vars == <<family, db, mem, ret>>

Both(d, m) == /\ db' = d.s
              /\ mem' = m.s
              /\ ret' = <<d.r, m.r>>
              /\ UNCHANGED family

Init == /\ family \in Families
        /\ db = Db!EmptyStore
        /\ mem = Mem!New
        /\ ret = <<"ok", "ok">>

(***************************** family "enrolment" *****************************)

\* A token names a device only when an operator wrote it into the row, so the
\* device it names exists.
Enrol == \E t \in Tenants, m \in Macs, n \in Devices \ DOMAIN db.dev, p \in {""} \cup DOMAIN db.dev :
           Both(Db!UpsertEnrollingDevice(db, p, n, m, t), Mem!UpsertEnrollingDevice(mem, p, n, m, t))
ReEnrol == \E t \in Tenants, m \in Macs, p \in DOMAIN db.dev :
           Both(Db!UpsertEnrollingDevice(db, p, "d0", m, t), Mem!UpsertEnrollingDevice(mem, p, "d0", m, t))
IssueToken == \E id \in {"t1", "t2"} \ DOMAIN db.tok, t \in Tenants :
           Both(Db!SaveEnrollmentToken(db, id, "a1", t), Mem!SaveEnrollmentToken(mem, id, "a1", t))
UseToken == \E id \in {"t1", "t2"} : Both(Db!ConsumeEnrollmentToken(db, id), Mem!ConsumeEnrollmentToken(mem, id))
RevokeToken == \E id \in {"t1", "t2"}, t \in Tenants :
           Both(Db!RevokeEnrollmentToken(db, id, t), Mem!RevokeEnrollmentToken(mem, id, t))
TokenExpires == \E id \in DOMAIN db.tok : /\ ~db.tok[id].expired
                                          /\ db' = [db EXCEPT !.tok[id].expired = TRUE]
                                          /\ mem' = [mem EXCEPT !.tokens[id].expired = TRUE]
                                          /\ UNCHANGED <<family, ret>>
Certify == \E d \in DOMAIN db.dev, fp \in {"f1", "f2"} \ DOMAIN db.cert :
           Both(Db!SaveCertificate(db, fp, d), Mem!SaveCertificate(mem, fp, d))
RevokeCerts == \E d \in DOMAIN db.dev : Both(Db!RevokeDeviceCerts(db, d), Mem!RevokeDeviceCerts(mem, d))
Erase == \E d \in DOMAIN db.dev : Both(Db!EraseDeviceData(db, d), Mem!EraseDeviceData(mem, d))

TokenCalls == family = "tokens" /\ (IssueToken \/ UseToken \/ RevokeToken \/ TokenExpires)
EnrolCalls == family = "enrolment" /\ (Enrol \/ ReEnrol \/ Certify \/ RevokeCerts \/ Erase)

(******************************* family "fleet" *******************************)

Beat == \E d \in DOMAIN db.dev : /\ db' = Db!TouchHeartbeat(db, d).s
                                 /\ mem' = Mem!TouchHeartbeat(mem, d).s
                                 /\ UNCHANGED <<family, ret>>
FallSilent == \E d \in DOMAIN db.dev : /\ mem.devices[d].lastSeen = "fresh"
                                       /\ db' = [db EXCEPT !.dev[d].seen = IF @ = "fresh" THEN "stale" ELSE @]
                                       /\ mem' = [mem EXCEPT !.devices[d].lastSeen = "stale"]
                                       /\ UNCHANGED <<family, ret>>
Sweep == Both(Db!MarkStaleOffline(db), Mem!MarkStaleOffline(mem))
SetStatus == \E d \in Devices, x \in {"QUARANTINED"} : Both(Db!SetDeviceStatus(db, d, x), Mem!SetDeviceStatus(mem, d, x))
Outcomes == {<<[type |-> x, ok |-> o]>> : x \in {"QUARANTINE", "UNQUARANTINE", "LOCK"}, o \in BOOLEAN}
            \cup {<<[type |-> "UNQUARANTINE", ok |-> TRUE], [type |-> "QUARANTINE", ok |-> o]>> : o \in BOOLEAN}
Results == \E d \in Devices, o \in Outcomes : Both(Db!ApplyCommandResults(db, d, o), Mem!ApplyCommandResults(mem, d, o))
Attest == \E d \in {"d1"}, h \in {"h1", "h2"} : Both(Db!RecordAgentBinary(db, d, "v1", h), Mem!RecordAgentBinary(mem, d, "v1", h))
Tag == \E d \in Devices, t \in Tenants : Both(Db!SetDeviceTags(db, d, {"x"}, t), Mem!SetDeviceTags(mem, d, {"x"}, t))
Command == \E d \in DOMAIN db.dev : /\ Len(db.cmd) < MaxRows - 1
                                    /\ Both(Db!EnqueueCommand(db, d, "LOCK", "a1"), Mem!EnqueueCommand(mem, d, "LOCK", "a1"))

\* The in-memory store hands a command out once; CommandDelivery models the
\* redelivery of the database.
HandOut == \E d \in DOMAIN db.dev : /\ mem' = Mem!PendingCommands(mem, d).s
                                    /\ UNCHANGED <<family, db, ret>>
Confirm == \E d \in DOMAIN db.dev : /\ mem' = Mem!AckCommands(mem, d, <<>>).s
                                    /\ UNCHANGED <<family, db, ret>>

\* The fleet is enrolled with one tenant each before the other calls.
EnrolFleet == \E t \in Tenants, n \in Devices \ DOMAIN db.dev, m \in {"m1", "m2"} :
                /\ m = IF n = "d1" THEN "m1" ELSE "m2"
                /\ Both(Db!UpsertEnrollingDevice(db, "", n, m, t), Mem!UpsertEnrollingDevice(mem, "", n, m, t))

FleetCalls == family = "fleet" /\ (EnrolFleet \/ Beat \/ FallSilent \/ Sweep \/ SetStatus \/ Results \/ Attest \/ Tag)

(******************************* family "events" ******************************)

EventIds == {"e1", "e2", "e3"}
NewEvents == EventIds \ ({db.ev[i].id : i \in DOMAIN db.ev} \cup DOMAIN db.ack)
Severity(id) == IF id = "e1" THEN "HIGH" ELSE "LOW"
Report == \E d \in DOMAIN db.dev, id \in NewEvents, k \in {"software", "compliance"} :
            LET e == <<[id |-> id, dev |-> d, tenant |-> db.dev[d].tenant, sev |-> Severity(id), kind |-> k]>>
            IN  /\ Len(db.ev) < EventCap    \* the database keeps what the other store drops
                /\ Both(Db!SaveEvents(db, d, e), Mem!SaveEvents(mem, d, e))
Ack == \E id \in {"e1"} : Both(Db!SetEventAck(db, id, "a1", "ACK"), Mem!SetEventAck(mem, id, "a1", "ACK"))
Assign == \E id \in {"e1"} : Both(Db!SetEventCase(db, id, "a1", "bob"), Mem!SetEventCase(mem, id, "a1", "bob"))
EraseEvents == \E d \in DOMAIN db.dev : Both(Db!EraseDeviceData(db, d), Mem!EraseDeviceData(mem, d))

EventCalls == family = "events" /\ (EnrolFleet \/ Report \/ Ack \/ Assign \/ EraseEvents)

(*************** families "incidents", "policies", "evidence" *****************)

IncidentIds == {"i1", "i2"}
Open == \E id \in IncidentIds \ {db.inc[i].id : i \in DOMAIN db.inc}, d \in Devices \cup {""} :
          Both(Db!OpenIncident(db, id, d), Mem!OpenIncident(mem, id, d))
Bump == \E id \in IncidentIds : /\ \A i \in DOMAIN db.inc : db.inc[i].count < MaxRows
                                /\ Both(Db!BumpIncident(db, id), Mem!BumpIncident(mem, id))
AskWipe == \E d \in DOMAIN db.dev, a \in Admins : Both(Db!SavePendingWipe(db, d, a), Mem!SavePendingWipe(mem, d, a))
ClaimWipe == \E d \in Devices, a \in Admins : Both(Db!ConsumePendingWipe(db, d, a), Mem!ConsumePendingWipe(mem, d, a))
CancelWipe == \E d \in Devices : Both(Db!DeletePendingWipe(db, d), Mem!DeletePendingWipe(mem, d))

IncidentCalls == family = "incidents" /\ (EnrolFleet \/ Open \/ Bump \/ AskWipe \/ ClaimWipe \/ CancelWipe)

Policies == {"p1", "p2"}
NewPolicy == \E p \in Policies \ DOMAIN db.pol, t \in Tenants : Both(Db!CreatePolicy(db, p, t), Mem!CreatePolicy(mem, p, t))
AssignIt == \E d \in Devices, p \in Policies : Both(Db!AssignPolicy(db, d, p), Mem!AssignPolicy(mem, d, p))
AddRule == \E p \in DOMAIN db.pol, w \in {{}, {1}} :
             /\ Len(db.pol[p].rules) < MaxRows - 2
             /\ Both(Db!AddPolicyRule(db, p, "x.exe", w), Mem!AddPolicyRule(mem, p, "x.exe", w))
BumpIt == \E p \in DOMAIN db.pol : /\ Db!Now(db) <= 2 + MaxRows
                                   /\ Both(Db!BumpPolicyVersion(db, p), Mem!BumpPolicyVersion(mem, p, Db!Now(db)))

\* One device is enough: nothing relates the policies of two.
EnrolOne == EnrolFleet /\ "d1" \in DOMAIN db'.dev /\ DOMAIN db.dev = {}
PolicyCalls == family = "policies" /\ (EnrolOne \/ NewPolicy \/ AssignIt \/ AddRule \/ BumpIt)

\* Evidence ids are artifact ids; the number of a custody entry is the caller's.
Collect == \E id \in {"x1", "x2"} \ {db.art[i].id : i \in DOMAIN db.art}, d \in DOMAIN db.dev :
             Both(Db!SaveArtifact(db, id, d), Mem!SaveArtifact(mem, id, d))
Age == \E i \in DOMAIN db.art : /\ ~db.art[i].old
                                /\ db' = [db EXCEPT !.art[i].old = TRUE]
                                /\ mem' = [mem EXCEPT !.artifacts[i].old = TRUE]
                                /\ UNCHANGED <<family, ret>>
Purge == Both(Db!PurgeArtifactsOlderThan(db), Mem!PurgeArtifactsOlderThan(mem))
Custody == \E q \in 1..MaxRows, a \in Admins :
             /\ q <= 1 + Len(Db!ListCustody(db, "x1"))
             /\ Both(Db!AppendCustody(db, "x1", [seq |-> q, actor |-> a]), Mem!AppendCustody(mem, "x1", [seq |-> q, actor |-> a]))
Search == \E id \in {"s1", "s2"} \ {db.srch[i].id : i \in DOMAIN db.srch}, a \in Admins :
             Both(Db!SaveSearch(db, id, a), Mem!SaveSearch(mem, id, a))
Unsearch == \E id \in {"s1", "s2"}, a \in Admins : Both(Db!DeleteSavedSearch(db, id, a), Mem!DeleteSavedSearch(mem, id, a))
Customer == \E id \in {"c1", "c2"} \ {db.msp[i].id : i \in DOMAIN db.msp} :
             Both(Db!MSPAddCustomer(db, id, "acme"), Mem!MSPAddCustomer(mem, id, "acme"))
Uncustomer == \E id \in {"c1", "c2"} : Both(Db!MSPDeactivateCustomer(db, id), Mem!MSPDeactivateCustomer(mem, id))

EvidenceCalls == family = "evidence" /\ (EnrolFleet \/ Collect \/ Age \/ Purge \/ Custody)
QueueCalls == family = "queue" /\ (EnrolFleet \/ Command \/ HandOut \/ Confirm \/ Erase)

(************************ families "admins", "console" ************************)

\* Emails are the ids: the stores differ on a second account with one email.
Hire == \E a \in Admins \ DOMAIN db.adm, t \in Tenants :
          Both(Db!CreateAdmin(db, a, a, "OPERATOR", t), Mem!CreateAdmin(mem, a, a, "OPERATOR", t))
Promote == \E a \in Admins, t \in Tenants : Both(Db!SetAdminRole(db, a, "ADMIN", t), Mem!SetAdminRole(mem, a, "ADMIN", t))
Retire == \E a \in Admins, t \in Tenants : Both(Db!DeactivateAdmin(db, a, t), Mem!DeactivateAdmin(mem, a, t))
Audit == \E a \in {""} \cup DOMAIN db.adm : /\ Len(db.aud) < MaxRows
                                           /\ Both(Db!WriteAudit(db, a, "x"), Mem!WriteAudit(mem, a, "x"))
BeginMFA == \E a \in Admins, k \in {"k1", "k2"} : Both(Db!SetPendingMFASecret(db, a, k), Mem!SetPendingMFASecret(mem, a, k))
EnableMFA == \E a \in Admins : Both(Db!ActivateMFA(db, a), Mem!ActivateMFA(mem, a))
DropMFA == \E a \in Admins : Both(Db!DisableMFA(db, a), Mem!DisableMFA(mem, a))
\* The database forgets the last step when MFA is switched off, the other store
\* does not: what they answer is compared in NoWeakerTOTP.
UseCode == \E a \in Admins, n \in 1..MaxRows : /\ db' = Db!ConsumeTOTPStep(db, a, n).s
                                               /\ mem' = Mem!ConsumeTOTPStep(mem, a, n).s
                                               /\ UNCHANGED <<family, ret>>

\* Codes do not depend on tenants: here everyone is of the default one.
HireDefault == Hire /\ \A a \in DOMAIN db'.adm : db'.adm[a].tenant = Db!Default

AdminCalls == family = "admins" /\ (Hire \/ Promote \/ Retire \/ Audit)
MFACalls == family = "mfa" /\ (HireDefault \/ Retire \/ BeginMFA \/ EnableMFA \/ DropMFA \/ UseCode)

Mint == \E id \in {"k1", "k2"} \ DOMAIN db.api, x \in {"ingest", "metrics"}, t \in Tenants :
          Both(Db!CreateForTenant(db, id, x, t), Mem!CreateForTenant(mem, id, x, t))
\* A second Revoke is an error in the database only.
Unmint == \E id \in DOMAIN db.api : /\ db' = Db!Revoke(db, id).s
                                    /\ mem' = Mem!Revoke(mem, id).s
                                    /\ UNCHANGED <<family, ret>>
ConsoleCalls == family = "console" /\ (Hire \/ Search \/ Unsearch \/ Customer \/ Uncustomer)
APITokenCalls == family = "apitokens" /\ (Mint \/ Unmint)

Next == \/ TokenCalls \/ EnrolCalls \/ FleetCalls \/ EventCalls \/ IncidentCalls
        \/ PolicyCalls \/ EvidenceCalls \/ AdminCalls \/ MFACalls \/ ConsoleCalls \/ APITokenCalls \/ QueueCalls

Spec == Init /\ [][Next]_vars

-----------------------------------------------------------------------------
(* Properties.  The last call's result, then every query of a family.          *)

\* The call that was made last returned the same from both stores: the same
\* refusal, id, count or flag.
ResultsAgree == ret[1] = ret[2]

\* Both stores know the same devices, tokens and certificates and answer the
\* enrolment, revocation and fleet queries alike, for every tenant a caller may
\* be confined to.  Excepted: the status of a device that never sent a
\* heartbeat, which the in-memory store lets go OFFLINE and the database does not.
DeviceParity ==
  /\ DOMAIN db.dev = DOMAIN mem.devices
  /\ \A d \in Devices : /\ Db!TenantForDevice(db, d) = Mem!TenantForDevice(mem, d)
                        /\ Db!DeviceHasActiveCert(db, d) = Mem!DeviceHasActiveCert(mem, d)
                        /\ Db!CertsByDevice(db, d) = Mem!CertsByDevice(mem, d)
                        /\ (d \in DOMAIN db.dev => db.dev[d].seen # "never") => Db!DeviceByID(db, d) = Mem!DeviceByID(mem, d)
  /\ Db!RevokedFingerprints(db) = Mem!RevokedFingerprints(mem)
  /\ \A t \in Tenants : /\ Db!ListEnrollmentTokens(db, t) = Mem!ListEnrollmentTokens(mem, t)
                        /\ \A n \in 1..2 : Db!ListDevices(db, n, t) \subseteq Mem!ListDevices(mem, n, t)
                        /\ (\A d \in DOMAIN db.dev : db.dev[d].seen # "never") => Db!DeviceStatusCounts(db, t) = Mem!DeviceStatusCounts(mem, t)
  /\ \A id \in {"t1", "t2"} : Db!EnrollmentTokenTenant(db, id) = Mem!EnrollmentTokenTenant(mem, id)

Filters == [dev : {"", "d1"}, sev : {"", "HIGH"}, tenant : Tenants, limit : {1, 3}]

\* Both stores return the same events, in the same order, for every filter,
\* limit and tenant, the same latest inventories, and keep the triage state and
\* the tenant of an event alike, also after the event itself was erased.
EventParity ==
  /\ \A f \in Filters : Db!QueryEvents(db, f) = Mem!QueryEvents(mem, f) /\ Db!ListEvents(db, f) = Mem!ListEvents(mem, f)
  /\ \A t \in Tenants : /\ Db!EventSeverityCounts(db, t) = Mem!EventSeverityCounts(mem, t)
                        /\ Db!LatestComplianceByDevice(db, t) = Mem!LatestComplianceByDevice(mem, t)
                        /\ Db!LatestSoftwareByDevice(db, t) = Mem!LatestSoftwareByDevice(mem, t)
                        /\ Db!SearchSoftware(db, {"e1", "e2"}, t) = Mem!SearchSoftware(mem, {"e1", "e2"}, t)
  /\ \A id \in EventIds : Db!EventTenant(db, id) = Mem!EventTenant(mem, id)
  /\ Db!EventAcks(db) = Mem!EventAcks(mem)
  /\ \A id \in DOMAIN db.ack : db.ack[id].tenant = mem.eventAcks[id].tenant
  /\ \A d \in Devices : Len(Db!CommandHistory(db, d)) = Len(Mem!CommandHistory(mem, d))

\* Incidents come back in the same order, most recently bumped first, for every
\* limit and tenant, and both stores hold the same wipe requests.
IncidentParity ==
  \A t \in Tenants : /\ \A n \in 1..2 : Db!ListIncidents(db, n, t) = Mem!ListIncidents(mem, n, t)
                     /\ Db!ListPendingWipes(db, t) = Mem!ListPendingWipes(mem, t)
                     /\ \A d \in Devices : Db!GetPendingWipe(db, d) = Mem!GetPendingWipe(mem, d)

\* A device that was given one policy gets the same bundle from both stores, and
\* the policy lists and rules agree.  (The database keeps earlier assignments.)
PolicyParity ==
  /\ \A d \in Devices : Cardinality({p \in Policies : <<d, p>> \in db.asg}) <= 1 =>
                           /\ Db!CurrentPolicy(db, d) = Mem!CurrentPolicy(mem, d)
                           /\ Db!AssignedPolicy(db, d) = Mem!AssignedPolicy(mem, d)
  /\ \A p \in Policies : /\ Mem!DevicesForPolicy(mem, p) \subseteq Db!DevicesForPolicy(db, p)
                         /\ Db!PolicyTenant(db, p) = Mem!PolicyTenant(mem, p)
                         /\ Db!ListPolicyRules(db, p) = Mem!ListPolicyRules(mem, p)
  /\ (\A d \in Devices : Cardinality({p \in Policies : <<d, p>> \in db.asg}) <= 1) =>
       \A t \in Tenants : Db!ListPolicies(db, t) = Mem!ListPolicies(mem, t)

\* Artifacts, custody chains, saved searches, customers and API tokens read the
\* same from both stores, for every tenant.
EvidenceParity ==
  /\ \A d \in Devices : Db!ListArtifacts(db, d) = Mem!ListArtifacts(mem, d)
  /\ \A id \in {"x1", "x2"}, t \in Tenants : Db!GetArtifact(db, id, t) = Mem!GetArtifact(mem, id, t)
  /\ Db!ListCustody(db, "x1") = Mem!ListCustody(mem, "x1")
  /\ \A t \in Tenants : Db!ListSavedSearches(db, t) = Mem!ListSavedSearches(mem, t)
  /\ Db!MSPListCustomers(db) = Mem!MSPListCustomers(mem)
  /\ \A id \in {"c1", "c2"} : Db!MSPGetCustomer(db, id) = Mem!MSPGetCustomer(mem, id)
  /\ \A x \in {"ingest", "metrics"} : /\ Db!ListTokens(db, x) = Mem!ListTokens(mem, x)
                                      /\ \A id \in {"k1", "k2"} : /\ Db!VerifyTenant(db, x, id) = Mem!VerifyTenant(mem, x, id)
                                                                  /\ Db!Verify(db, x, id) = Mem!Verify(mem, x, id)

\* Roles, tenants, active accounts, the audit trail of a tenant and the MFA state
\* of an active administrator agree.
AdminParity ==
  /\ \A a \in Admins : /\ Db!AdminRole(db, a) = Mem!AdminRole(mem, a)
                       /\ Db!AdminTenant(db, a) = Mem!AdminTenant(mem, a)
                       /\ Db!LookupAdmin(db, a) = Mem!LookupAdmin(mem, a)
                       /\ Db!Active(db, a) => /\ Db!LookupMFA(db, a) = Mem!LookupMFA(mem, a)
                                              /\ Db!LookupPendingMFA(db, a) = Mem!LookupPendingMFA(mem, a)
  /\ \A t \in Tenants : /\ Db!ListAdmins(db, t) = Mem!ListAdmins(mem, t)
                        /\ \A n \in 1..MaxRows : Db!ListAudit(db, n, t) = Mem!ListAudit(mem, n, t)
  /\ Db!VerifyAuditChain(db) /\ Mem!VerifyAuditChain(mem)

\* What the in-memory store has queued for a device is what its history says is
\* undelivered, also after the device's data was erased.
QueueMatchesHistory ==
  \A d \in Devices :
    Len(IF d \in DOMAIN mem.commands THEN mem.commands[d] ELSE <<>>)
      = Cardinality({i \in DOMAIN mem.cmdHistory : mem.cmdHistory[i].deviceID = d /\ ~mem.cmdHistory[i].delivered})

\* A one-time code the in-memory store accepts is one the database accepts.
NoWeakerTOTP ==
  \A a \in DOMAIN db.adm, n \in 1..MaxRows : Mem!ConsumeTOTPStep(mem, a, n).r => Db!ConsumeTOTPStep(db, a, n).r

\* However devices enrol, re-enrol and change their network card, two devices of
\* one tenant (the unnamed tenant being the default one) never share a mac.
OneMacPerTenant ==
  \A c, d \in DOMAIN db.dev : (c # d /\ db.dev[c].mac = db.dev[d].mac) => ~Db!Equivalent(db.dev[c].tenant, db.dev[d].tenant)

\* A policy that is assigned to a device fits the device's tenant, whatever the
\* device does afterwards.
AssignedFits == \A x \in db.asg : Db!PolicyFits(db, x[2], x[1])

\* Whatever was called, in whichever order, the two stores cannot be told apart by any later query, the
\* documented differences excepted (memstore is the store of the demonstration and of the server's tests).
\* And the command history they agree on tells what the in-memory store still has to hand out.
StoresAgree ==
  /\ ResultsAgree /\ DeviceParity /\ EventParity /\ IncidentParity
  /\ PolicyParity /\ EvidenceParity /\ AdminParity /\ QueueMatchesHistory

\* And what they agree on is right: codes and steps, macs and tenants, assignments and tenants fit each
\* other, also after erasure, re-enrolment and retirement.
StoreSound == NoWeakerTOTP /\ OneMacPerTenant /\ AssignedFits

\* No call moves a device to another tenant, not even an enrolment with a token
\* of that tenant.
DeviceKeepsTenant ==
  [][\A d \in DOMAIN db.dev : d \in DOMAIN db'.dev /\ Db!Equivalent(db.dev[d].tenant, db'.dev[d].tenant)]_vars
=============================================================================
