----------------------------- MODULE StoreProofs -----------------------------
(***************************************************************************)
(* What is kept in the stores.  StoreParity, for any devices, tenants,     *)
(* macs and administrators and any calls: one-time codes, macs and         *)
(* assignments stay sound and no device changes its tenant.  Certificates, *)
(* for any number of keys, faults and instants and any life of a           *)
(* certificate: a token buys one certificate, a revoked device comes back  *)
(* by a token only, a revocation reaches the certificate in use, the       *)
(* agent's files stop fitting only in a crash, and a server that opens its *)
(* listeners knows what was revoked before.                                *)
(***************************************************************************)
EXTENDS StoreParity, Certificates, FiniteSetTheorems, TLAPS

(********************************** the stores **********************************)

Hired == {"admins", "mfa", "console"}

\* The tables these properties are about have the columns they read.
ColumnsInv ==
  /\ {"dev", "pol", "asg", "adm"} \subseteq DOMAIN db
  /\ \A d \in DOMAIN db.dev : {"tenant", "mac"} \subseteq DOMAIN db.dev[d]
  /\ \A p \in DOMAIN db.pol : "tenant" \in DOMAIN db.pol[p]

\* No device has the empty id, and an assignment names a device and a policy that are there.
KeysInv ==
  /\ "" \notin DOMAIN db.dev
  /\ \A x \in db.asg : x[1] \in DOMAIN db.dev /\ x[2] \in DOMAIN db.pol

\* The account tables: the ids are the emails, and the database's last step is
\* never ahead of the other store's, which switching MFA off does not reset.
Accounts(f, g) ==
  /\ DOMAIN f = DOMAIN g
  /\ \A a \in DOMAIN f :
       /\ {"email", "step"} \subseteq DOMAIN f[a] /\ "mfaLastStep" \in DOMAIN g[a]
       /\ f[a].email = a
       /\ f[a].step \in Nat /\ g[a].mfaLastStep \in Nat /\ f[a].step <= g[a].mfaLastStep

StepInv ==
  /\ family \in Hired => {"admins", "adminsByID"} \subseteq DOMAIN mem /\ Accounts(db.adm, mem.adminsByID)
  /\ family \notin Hired => DOMAIN db.adm = {}

ParityInv == ColumnsInv /\ KeysInv /\ StepInv /\ OneMacPerTenant /\ AssignedFits

LEMMA ParityInit == Init => ParityInv
  BY DEF Init, ParityInv, ColumnsInv, KeysInv, StepInv, Accounts, OneMacPerTenant, AssignedFits, Hired,
         Db!EmptyStore, Db!Empty, Mem!New, Mem!Empty

\* What a step leaves alone when it touches other tables only.
Untouched ==
  /\ db'.dev = db.dev /\ db'.pol = db.pol /\ db'.asg = db.asg /\ db'.adm = db.adm
  /\ DOMAIN db' = DOMAIN db

LEMMA TokenStep ==
  ASSUME ParityInv, TokenCalls
  PROVE  Untouched /\ family' = family
<1> USE DEF ParityInv, ColumnsInv, Untouched, TokenCalls
<1>1. CASE IssueToken BY <1>1 DEF IssueToken, Both, Db!SaveEnrollmentToken, Db!Ret
<1>2. CASE UseToken BY <1>2 DEF UseToken, Both, Db!ConsumeEnrollmentToken, Db!Ret
<1>3. CASE RevokeToken BY <1>3 DEF RevokeToken, Both, Db!RevokeEnrollmentToken, Db!Ret
<1>4. CASE TokenExpires BY <1>4 DEF TokenExpires
<1> QED BY <1>1, <1>2, <1>3, <1>4

\* An enrolment: every device keeps its tenant, up to its name, and no mac is
\* shared within one.
DevicesHeld ==
  /\ DOMAIN db.dev \subseteq DOMAIN db'.dev /\ "" \notin DOMAIN db'.dev
  /\ \A d \in DOMAIN db'.dev : {"tenant", "mac"} \subseteq DOMAIN db'.dev[d]
  /\ \A d \in DOMAIN db.dev : Db!Equivalent(db.dev[d].tenant, db'.dev[d].tenant)

OthersKept == db'.pol = db.pol /\ db'.asg = db.asg /\ db'.adm = db.adm /\ DOMAIN db' = DOMAIN db

EnrolStep == DevicesHeld /\ OneMacPerTenant' /\ OthersKept

LEMMA Canonically == \A t : Db!Canonical(Db!Canonical(t)) = Db!Canonical(t)
  BY DEF Db!Canonical, Db!NoTenant, Db!Default

\* A device's row after its mac, tenant and status were set.
SetRow(s, d, m, t, x) == [s EXCEPT !.dev[d].mac = m, !.dev[d].tenant = t, !.dev[d].status = x]

RowSet(r, s, d, m, t) ==
  /\ DOMAIN r = DOMAIN s /\ r.pol = s.pol /\ r.asg = s.asg /\ r.adm = s.adm
  /\ DOMAIN r.dev = DOMAIN s.dev
  /\ \A c \in DOMAIN s.dev : c # d => r.dev[c] = s.dev[c]
  /\ DOMAIN r.dev[d] = DOMAIN s.dev[d]
  /\ r.dev[d].mac = m /\ r.dev[d].tenant = t

LEMMA RowIsSet ==
  ASSUME NEW s, NEW d \in DOMAIN s.dev, NEW m, NEW t, NEW x,
         {"dev", "pol", "asg", "adm"} \subseteq DOMAIN s, {"tenant", "mac"} \subseteq DOMAIN s.dev[d]
  PROVE  RowSet(SetRow(s, d, m, t, x), s, d, m, t)
<1> DEFINE a == [s EXCEPT !.dev[d].mac = m]
           b == [a EXCEPT !.dev[d].tenant = t]
           e == [b EXCEPT !.dev[d].status = x]
<1>1. /\ DOMAIN a = DOMAIN s /\ a.pol = s.pol /\ a.asg = s.asg /\ a.adm = s.adm
      /\ DOMAIN a.dev = DOMAIN s.dev
      /\ \A c \in DOMAIN s.dev : c # d => a.dev[c] = s.dev[c]
      /\ DOMAIN a.dev[d] = DOMAIN s.dev[d] /\ a.dev[d].mac = m
  OBVIOUS
<1>0. SetRow(s, d, m, t, x) = e BY DEF SetRow
<1> HIDE DEF a
<1>2. /\ DOMAIN b = DOMAIN s /\ b.pol = s.pol /\ b.asg = s.asg /\ b.adm = s.adm
      /\ DOMAIN b.dev = DOMAIN s.dev
      /\ \A c \in DOMAIN s.dev : c # d => b.dev[c] = s.dev[c]
      /\ DOMAIN b.dev[d] = DOMAIN s.dev[d] /\ b.dev[d].mac = m /\ b.dev[d].tenant = t
  BY <1>1
<1> HIDE DEF b
<1> QED BY <1>0, <1>1, <1>2 DEF RowSet

\* The upsert keeps the unique index on the canonical tenant and the mac.
LEMMA UpsertKeepsIndex ==
  ASSUME ParityInv, NEW pref, NEW new, NEW mac, NEW tenant,
         new # "", new \in DOMAIN db.dev => pref # "",
         db' = Db!UpsertEnrollingDevice(db, pref, new, mac, tenant).s
  PROVE  EnrolStep
<1> USE DEF ParityInv, ColumnsInv, KeysInv, EnrolStep, DevicesHeld, OthersKept
<1> DEFINE holders == Db!HoldersOfMac(db, tenant, mac)
           Moved(d, m) == SetRow(db, d, m, Db!Canonical(db.dev[d].tenant), Db!Revived(db.dev[d].status))
           row == [tenant |-> tenant, mac |-> mac, status |-> "ACTIVE", seen |-> "never", tags |-> {}, hash |-> "", ver |-> ""]
           Added == [db EXCEPT !.dev = Db!Put(@, new, row)]
<1>1. \/ db' = db
      \/ pref \in DOMAIN db.dev /\ Db!Equivalent(db.dev[pref].tenant, tenant) /\ holders \subseteq {pref} /\ db' = Moved(pref, mac)
      \/ holders # {} /\ db' = Moved(CHOOSE h \in holders : TRUE, mac)
      \/ pref = "" /\ holders = {} /\ db' = Added
  BY DEF Db!UpsertEnrollingDevice, Db!Ret, SetRow
<1>h. holders = {d \in DOMAIN db.dev : db.dev[d].mac = mac /\ Db!Equivalent(db.dev[d].tenant, tenant)}
  BY DEF Db!HoldersOfMac
<1>o. \A c, d \in DOMAIN db.dev : (c # d /\ db.dev[c].mac = db.dev[d].mac) => ~Db!Equivalent(db.dev[c].tenant, db.dev[d].tenant)
  BY DEF OneMacPerTenant
<1>c. {"dev", "pol", "asg", "adm"} \subseteq DOMAIN db /\ \A d \in DOMAIN db.dev : {"tenant", "mac"} \subseteq DOMAIN db.dev[d]
  OBVIOUS
<1> HIDE DEF holders
<1>2. CASE db' = db BY <1>2, <1>o DEF OneMacPerTenant, Db!Equivalent
<1>3. ASSUME NEW d \in DOMAIN db.dev, db' = Moved(d, mac),
             \A c \in DOMAIN db.dev : c # d /\ db.dev[c].mac = mac => ~Db!Equivalent(db.dev[c].tenant, db.dev[d].tenant)
      PROVE  EnrolStep
  <2>1. /\ DOMAIN db' = DOMAIN db /\ db'.pol = db.pol /\ db'.asg = db.asg /\ db'.adm = db.adm
        /\ DOMAIN db'.dev = DOMAIN db.dev
        /\ \A c \in DOMAIN db.dev : c # d => db'.dev[c] = db.dev[c]
        /\ DOMAIN db'.dev[d] = DOMAIN db.dev[d]
        /\ db'.dev[d].mac = mac /\ db'.dev[d].tenant = Db!Canonical(db.dev[d].tenant)
    <3>1. RowSet(db', db, d, mac, Db!Canonical(db.dev[d].tenant)) BY <1>3, <1>c, RowIsSet
    <3> QED BY <3>1 DEF RowSet
  <2> HIDE DEF Moved
  <2>2. DevicesHeld BY <2>1, Canonically DEF Db!Equivalent
  <2>3. OneMacPerTenant'
    <3> SUFFICES ASSUME NEW c \in DOMAIN db.dev, NEW e \in DOMAIN db.dev, c # e, db'.dev[c].mac = db'.dev[e].mac,
                        Db!Canonical(db'.dev[c].tenant) = Db!Canonical(db'.dev[e].tenant)
                 PROVE  FALSE
      BY <2>1 DEF OneMacPerTenant, Db!Equivalent
    <3> HIDE DEF ParityInv, ColumnsInv, KeysInv, EnrolStep, DevicesHeld, OthersKept, row, Added
    <3> USE DEF Db!Equivalent
    <3>1. CASE c # d /\ e # d
      <4>1. db'.dev[c] = db.dev[c] /\ db'.dev[e] = db.dev[e] BY <3>1, <2>1
      <4> QED BY <4>1, <1>o
    <3>2. CASE c = d BY <3>2, <2>1, <1>3, Canonically
    <3>3. CASE e = d BY <3>3, <2>1, <1>3, Canonically
    <3> QED BY <3>1, <3>2, <3>3
  <2> QED BY <2>1, <2>2, <2>3
<1>4. CASE pref \in DOMAIN db.dev /\ Db!Equivalent(db.dev[pref].tenant, tenant) /\ holders \subseteq {pref} /\ db' = Moved(pref, mac)
  BY <1>4, <1>3, <1>h DEF Db!Equivalent
<1>5. CASE holders # {} /\ db' = Moved(CHOOSE h \in holders : TRUE, mac)
  <2> DEFINE h == CHOOSE x \in holders : TRUE
  <2>1. h \in holders BY <1>5
  <2>2. db' = Moved(h, mac) BY <1>5
  <2> HIDE DEF h
  <2>3. h \in DOMAIN db.dev /\ db.dev[h].mac = mac BY <2>1, <1>h
  <2> QED BY <2>2, <2>3, <1>3, <1>o DEF Db!Equivalent
<1>6. CASE pref = "" /\ holders = {} /\ db' = Added
  <2>1. new \notin DOMAIN db.dev BY <1>6
  <2>r. {"tenant", "mac"} \subseteq DOMAIN row /\ row.mac = mac /\ row.tenant = tenant OBVIOUS
  <2> HIDE DEF row
  <2>b. DOMAIN db' = DOMAIN db /\ db'.pol = db.pol /\ db'.asg = db.asg /\ db'.adm = db.adm /\ db'.dev = Db!Put(db.dev, new, row)
    BY <1>6
  <2>2. /\ DOMAIN db' = DOMAIN db /\ db'.pol = db.pol /\ db'.asg = db.asg /\ db'.adm = db.adm
        /\ DOMAIN db'.dev = DOMAIN db.dev \cup {new}
        /\ \A c \in DOMAIN db.dev : db'.dev[c] = db.dev[c]
        /\ db'.dev[new] = row
    <3> HIDE DEF ParityInv, ColumnsInv, KeysInv, EnrolStep, DevicesHeld, OthersKept, Added
    <3> QED BY <2>1, <2>b DEF Db!Put
  <2> HIDE DEF Added
  <2>a. {"tenant", "mac"} \subseteq DOMAIN db'.dev[new] /\ db'.dev[new].mac = mac /\ db'.dev[new].tenant = tenant
    BY <2>2, <2>r
  <2>3. DevicesHeld BY <2>2, <2>a DEF Db!Equivalent
  <2>4. \A c \in DOMAIN db.dev : db.dev[c].mac = mac => ~Db!Equivalent(db.dev[c].tenant, tenant) BY <1>6, <1>h
  <2>5. OneMacPerTenant'
    <3> SUFFICES ASSUME NEW c \in DOMAIN db'.dev, NEW e \in DOMAIN db'.dev, c # e, db'.dev[c].mac = db'.dev[e].mac,
                        Db!Canonical(db'.dev[c].tenant) = Db!Canonical(db'.dev[e].tenant)
                 PROVE  FALSE
      BY DEF OneMacPerTenant, Db!Equivalent
    <3> USE DEF Db!Equivalent
    <3>1. CASE c # new /\ e # new BY <3>1, <2>2, <1>o
    <3>2. CASE c = new BY <3>2, <2>2, <2>a, <2>4
    <3>3. CASE e = new BY <3>3, <2>2, <2>a, <2>4
    <3> QED BY <3>1, <3>2, <3>3
  <2> QED BY <2>2, <2>3, <2>5
<1> QED BY <1>1, <1>2, <1>4, <1>5, <1>6

LEMMA EnrolFleetStep == ASSUME ParityInv, EnrolFleet PROVE EnrolStep /\ family' = family
<1>1. PICK t \in Tenants, n \in Devices \ DOMAIN db.dev, m \in {"m1", "m2"} :
        Both(Db!UpsertEnrollingDevice(db, "", n, m, t), Mem!UpsertEnrollingDevice(mem, "", n, m, t))
  BY DEF EnrolFleet
<1> QED BY <1>1, UpsertKeepsIndex, ParityAssumption DEF Both, ParityInv, KeysInv

\* Erasure takes the rows of other tables.
LEMMA EraseStep ==
  ASSUME ParityInv, NEW d, db' = Db!EraseDeviceData(db, d).s
  PROVE  Untouched
  BY DEF ParityInv, ColumnsInv, Untouched, Db!EraseDeviceData, Db!Ret

LEMMA EnrolCallsStep == ASSUME ParityInv, EnrolCalls PROVE (EnrolStep \/ Untouched) /\ family' = family
<1>1. CASE Enrol
  <2>1. PICK t \in Tenants, m \in Macs, n \in Devices \ DOMAIN db.dev, p \in {""} \cup DOMAIN db.dev :
          Both(Db!UpsertEnrollingDevice(db, p, n, m, t), Mem!UpsertEnrollingDevice(mem, p, n, m, t))
    BY <1>1 DEF Enrol
  <2> QED BY <2>1, UpsertKeepsIndex, ParityAssumption DEF Both, ParityInv, KeysInv
<1>2. CASE ReEnrol
  <2>1. PICK t \in Tenants, m \in Macs, p \in DOMAIN db.dev :
          Both(Db!UpsertEnrollingDevice(db, p, "d0", m, t), Mem!UpsertEnrollingDevice(mem, p, "d0", m, t))
    BY <1>2 DEF ReEnrol
  <2> QED BY <2>1, UpsertKeepsIndex, ParityAssumption DEF Both, ParityInv, KeysInv
<1>3. CASE Certify
  BY <1>3 DEF Certify, Both, Db!SaveCertificate, Db!Ret, ParityInv, ColumnsInv, Untouched
<1>4. CASE RevokeCerts
  BY <1>4 DEF RevokeCerts, Both, Db!RevokeDeviceCerts, Db!Ret, ParityInv, ColumnsInv, Untouched
<1>5. CASE Erase BY <1>5, EraseStep DEF Erase, Both
<1> QED BY <1>1, <1>2, <1>3, <1>4, <1>5 DEF EnrolCalls

\* A call of the fleet changes neither tenants nor macs.
RowsKept(r, s) ==
  /\ DOMAIN r = DOMAIN s
  /\ \A d \in DOMAIN s : DOMAIN r[d] = DOMAIN s[d] /\ r[d].tenant = s[d].tenant /\ r[d].mac = s[d].mac

FleetKept == RowsKept(db'.dev, db.dev) /\ OthersKept

LEMMA ColumnSet ==
  ASSUME ParityInv, NEW d \in DOMAIN db.dev, NEW x
  PROVE  /\ db' = [db EXCEPT !.dev[d].status = x] => FleetKept
         /\ db' = [db EXCEPT !.dev[d].seen = x] => FleetKept
         /\ db' = [db EXCEPT !.dev[d].tags = x] => FleetKept
<1> USE DEF ParityInv, ColumnsInv, FleetKept, OthersKept, RowsKept
<1>1. db' = [db EXCEPT !.dev[d].status = x] => FleetKept OBVIOUS
<1>2. db' = [db EXCEPT !.dev[d].seen = x] => FleetKept OBVIOUS
<1>3. db' = [db EXCEPT !.dev[d].tags = x] => FleetKept OBVIOUS
<1> QED BY <1>1, <1>2, <1>3

LEMMA FleetCallsStep == ASSUME ParityInv, FleetCalls PROVE (EnrolStep \/ FleetKept) /\ family' = family
<1>k. db' = db => FleetKept BY DEF FleetKept, OthersKept, RowsKept
<1>1. CASE EnrolFleet BY <1>1, EnrolFleetStep
<1>2. CASE Beat
  <2>1. PICK d \in DOMAIN db.dev : db' = Db!TouchHeartbeat(db, d).s BY <1>2 DEF Beat
  <2>2. db' = [db EXCEPT !.dev[d].seen = "fresh", !.dev[d].status = IF @ = "OFFLINE" THEN "ACTIVE" ELSE @]
    BY <2>1 DEF Db!TouchHeartbeat, Db!Ret
  <2>3. FleetKept BY <2>2 DEF ParityInv, ColumnsInv, FleetKept, OthersKept, RowsKept
  <2> QED BY <2>3, <1>2 DEF Beat
<1>3. CASE FallSilent
  <2>1. PICK d \in DOMAIN db.dev : db' = [db EXCEPT !.dev[d].seen = IF @ = "fresh" THEN "stale" ELSE @]
    BY <1>3 DEF FallSilent
  <2> QED BY <2>1, <1>3, ColumnSet DEF FallSilent
<1>4. CASE Sweep
  BY <1>4 DEF Sweep, Both, Db!MarkStaleOffline, Db!Ret, ParityInv, ColumnsInv, FleetKept, OthersKept, RowsKept
<1>5. CASE SetStatus BY <1>5, <1>k, ColumnSet DEF SetStatus, Both, Db!SetDeviceStatus, Db!Ret
<1>6. CASE Results BY <1>6, <1>k, ColumnSet DEF Results, Both, Db!ApplyCommandResults, Db!Ret
<1>7. CASE Attest
  <2>1. PICK d, h : db' = Db!RecordAgentBinary(db, d, "v1", h).s BY <1>7 DEF Attest, Both
  <2>2. db' = db \/ (d \in DOMAIN db.dev /\ db' = [db EXCEPT !.dev[d].hash = h, !.dev[d].ver = "v1"])
    BY <2>1 DEF Db!RecordAgentBinary, Db!Ret
  <2>3. ASSUME d \in DOMAIN db.dev, db' = [db EXCEPT !.dev[d].hash = h, !.dev[d].ver = "v1"] PROVE FleetKept
    BY <2>3 DEF ParityInv, ColumnsInv, FleetKept, OthersKept, RowsKept
  <2> QED BY <2>2, <2>3, <1>7, <1>k DEF Attest, Both
<1>8. CASE Tag BY <1>8, <1>k, ColumnSet DEF Tag, Both, Db!SetDeviceTags, Db!Ret
<1> QED BY <1>1, <1>2, <1>3, <1>4, <1>5, <1>6, <1>7, <1>8 DEF FleetCalls

LEMMA EventCallsStep == ASSUME ParityInv, EventCalls PROVE (EnrolStep \/ Untouched) /\ family' = family
<1> USE DEF ParityInv, ColumnsInv, Untouched
<1>1. CASE EnrolFleet BY <1>1, EnrolFleetStep
<1>2. CASE Report BY <1>2 DEF Report, Both, Db!SaveEvents, Db!Ret
<1>3. CASE Ack BY <1>3 DEF Ack, Both, Db!SetEventAck, Db!UpsertAck, Db!Ret
<1>4. CASE Assign BY <1>4 DEF Assign, Both, Db!SetEventCase, Db!UpsertAck, Db!Ret
<1>5. CASE EraseEvents BY <1>5, EraseStep DEF EraseEvents, Both
<1> QED BY <1>1, <1>2, <1>3, <1>4, <1>5 DEF EventCalls

LEMMA IncidentCallsStep == ASSUME ParityInv, IncidentCalls PROVE (EnrolStep \/ Untouched) /\ family' = family
<1> USE DEF ParityInv, ColumnsInv, Untouched
<1>1. CASE EnrolFleet BY <1>1, EnrolFleetStep
<1>2. CASE Open BY <1>2 DEF Open, Both, Db!OpenIncident, Db!Ret
<1>3. CASE Bump BY <1>3 DEF Bump, Both, Db!BumpIncident, Db!Ret
<1>4. CASE AskWipe BY <1>4 DEF AskWipe, Both, Db!SavePendingWipe, Db!Ret
<1>5. CASE ClaimWipe BY <1>5 DEF ClaimWipe, Both, Db!ConsumePendingWipe, Db!DeletePendingWipe, Db!Ret
<1>6. CASE CancelWipe BY <1>6 DEF CancelWipe, Both, Db!DeletePendingWipe, Db!Ret
<1> QED BY <1>1, <1>2, <1>3, <1>4, <1>5, <1>6 DEF IncidentCalls

LEMMA EvidenceCallsStep == ASSUME ParityInv, EvidenceCalls PROVE (EnrolStep \/ Untouched) /\ family' = family
<1> USE DEF ParityInv, ColumnsInv, Untouched
<1>1. CASE EnrolFleet BY <1>1, EnrolFleetStep
<1>2. CASE Collect BY <1>2 DEF Collect, Both, Db!SaveArtifact, Db!Ret
<1>3. CASE Age
  <2>1. PICK i \in DOMAIN db.art : db' = [db EXCEPT !.art[i].old = TRUE] BY <1>3 DEF Age
  <2> QED BY <2>1, <1>3 DEF Age
<1>4. CASE Purge BY <1>4 DEF Purge, Both, Db!PurgeArtifactsOlderThan, Db!Ret
<1>5. CASE Custody BY <1>5 DEF Custody, Both, Db!AppendCustody, Db!Ret
<1> QED BY <1>1, <1>2, <1>3, <1>4, <1>5 DEF EvidenceCalls

LEMMA QueueCallsStep == ASSUME ParityInv, QueueCalls PROVE (EnrolStep \/ Untouched) /\ family' = family
<1> USE DEF ParityInv, ColumnsInv, Untouched
<1>1. CASE EnrolFleet BY <1>1, EnrolFleetStep
<1>2. CASE Command
  <2>1. PICK d \in DOMAIN db.dev : db' = Db!EnqueueCommand(db, d, "LOCK", "a1").s BY <1>2 DEF Command, Both
  <2> QED BY <2>1, <1>2 DEF Command, Both, Db!EnqueueCommand, Db!Ret
<1>3. CASE HandOut BY <1>3 DEF HandOut
<1>4. CASE Confirm BY <1>4 DEF Confirm
<1>5. CASE Erase BY <1>5, EraseStep DEF Erase, Both
<1> QED BY <1>1, <1>2, <1>3, <1>4, <1>5 DEF QueueCalls

LEMMA APITokenStep == ASSUME ParityInv, APITokenCalls PROVE Untouched /\ family' = family
<1> USE DEF ParityInv, ColumnsInv, Untouched
<1>1. CASE Mint BY <1>1 DEF Mint, Both, Db!CreateForTenant, Db!Ret
<1>2. CASE Unmint BY <1>2 DEF Unmint, Db!Revoke, Db!Ret
<1> QED BY <1>1, <1>2 DEF APITokenCalls

\* What a step on the policies does: policies keep their tenant, and a new
\* assignment is one that fits.
PoliciesHeld ==
  /\ db'.dev = db.dev /\ db'.adm = db.adm /\ DOMAIN db' = DOMAIN db
  /\ DOMAIN db.pol \subseteq DOMAIN db'.pol
  /\ \A p \in DOMAIN db'.pol : "tenant" \in DOMAIN db'.pol[p]
  /\ \A p \in DOMAIN db.pol : db'.pol[p].tenant = db.pol[p].tenant
  /\ \A x \in db'.asg : x \in db.asg \/ (x[1] \in DOMAIN db.dev /\ x[2] \in DOMAIN db.pol /\ Db!PolicyFits(db, x[2], x[1]))

LEMMA PolicyCallsStep == ASSUME ParityInv, PolicyCalls PROVE (EnrolStep \/ PoliciesHeld) /\ family' = family
<1> USE DEF ParityInv, ColumnsInv, PoliciesHeld
<1>k. db' = db => PoliciesHeld OBVIOUS
<1>1. CASE EnrolOne BY <1>1, EnrolFleetStep DEF EnrolOne
<1>2. CASE NewPolicy
  <2>1. PICK p \in Policies \ DOMAIN db.pol, t \in Tenants : db' = Db!CreatePolicy(db, p, t).s
    BY <1>2 DEF NewPolicy, Both
  <2> DEFINE row == [tenant |-> t, version |-> 0, updated |-> Db!Now(db), rules |-> <<>>]
  <2>2. db' = [db EXCEPT !.pol = Db!Put(@, p, row)] BY <2>1 DEF Db!CreatePolicy, Db!Ret
  <2>3. "tenant" \in DOMAIN row OBVIOUS
  <2> HIDE DEF row
  <2>4. /\ DOMAIN db' = DOMAIN db /\ db'.dev = db.dev /\ db'.asg = db.asg /\ db'.adm = db.adm
        /\ DOMAIN db'.pol = DOMAIN db.pol \cup {p} /\ db'.pol[p] = row
        /\ \A q \in DOMAIN db.pol : db'.pol[q] = db.pol[q]
    BY <2>2 DEF Db!Put
  <2> QED BY <2>3, <2>4, <1>2 DEF NewPolicy, Both
<1>3. CASE AssignIt
  <2>1. PICK d \in Devices, p \in Policies : db' = Db!AssignPolicy(db, d, p).s BY <1>3 DEF AssignIt, Both
  <2>2. CASE d \in DOMAIN db.dev /\ p \in DOMAIN db.pol /\ Db!PolicyFits(db, p, d)
    <3>1. db' = [db EXCEPT !.asg = @ \cup {<<d, p>>}] BY <2>1, <2>2 DEF Db!AssignPolicy, Db!Ret
    <3> QED BY <3>1, <2>2, <1>3 DEF AssignIt, Both
  <2>3. CASE ~(d \in DOMAIN db.dev /\ p \in DOMAIN db.pol /\ Db!PolicyFits(db, p, d))
    BY <2>1, <2>3, <1>3, <1>k DEF Db!AssignPolicy, Db!Ret, AssignIt, Both
  <2> QED BY <2>2, <2>3
<1>4. CASE AddRule
  <2>1. PICK p \in DOMAIN db.pol, w \in {{}, {1}} : db' = Db!AddPolicyRule(db, p, "x.exe", w).s BY <1>4 DEF AddRule, Both
  <2>2. \E v : db' = [db EXCEPT !.pol[p].rules = v] BY <2>1 DEF Db!AddPolicyRule, Db!Ret
  <2> QED BY <2>2, <1>4 DEF AddRule, Both
<1>5. CASE BumpIt
  <2>1. PICK p \in DOMAIN db.pol : db' = Db!BumpPolicyVersion(db, p).s BY <1>5 DEF BumpIt, Both
  <2>2. db' = [db EXCEPT !.pol[p].version = Db!Now(db), !.pol[p].updated = Db!Now(db)]
    BY <2>1 DEF Db!BumpPolicyVersion, Db!Ret
  <2>3. PoliciesHeld BY <2>2
  <2> QED BY <2>3, <1>5 DEF BumpIt, Both
<1> QED BY <1>1, <1>2, <1>3, <1>4, <1>5 DEF PolicyCalls

\* A call on the accounts: nothing else changes but tables without a property.
AdminStep ==
  /\ db'.dev = db.dev /\ db'.pol = db.pol /\ db'.asg = db.asg /\ DOMAIN db' = DOMAIN db
  /\ family' = family /\ StepInv'

\* Each store keeps the accounts; the database may forget a step, never move it.
DbKept ==
  /\ db'.dev = db.dev /\ db'.pol = db.pol /\ db'.asg = db.asg /\ DOMAIN db' = DOMAIN db
  /\ DOMAIN db'.adm = DOMAIN db.adm
  /\ \A a \in DOMAIN db.adm : /\ {"email", "step"} \subseteq DOMAIN db'.adm[a]
                              /\ db'.adm[a].email = db.adm[a].email
                              /\ db'.adm[a].step \in {0, db.adm[a].step}
MemKept ==
  /\ DOMAIN mem' = DOMAIN mem
  /\ DOMAIN mem'.adminsByID = DOMAIN mem.adminsByID
  /\ \A a \in DOMAIN mem.adminsByID : /\ "mfaLastStep" \in DOMAIN mem'.adminsByID[a]
                                      /\ mem'.adminsByID[a].mfaLastStep = mem.adminsByID[a].mfaLastStep

LEMMA BothKept == ASSUME ParityInv, family \in Hired, family' = family, DbKept, MemKept PROVE AdminStep
<1>1. Accounts(db.adm, mem.adminsByID) BY DEF ParityInv, StepInv
<1>2. Accounts(db'.adm, mem'.adminsByID) BY <1>1 DEF Accounts, DbKept, MemKept
<1> QED BY <1>2 DEF AdminStep, DbKept, MemKept, ParityInv, StepInv

LEMMA HireStep == ASSUME ParityInv, family \in Hired, Hire PROVE AdminStep
<1> USE DEF ParityInv, ColumnsInv
<1>1. PICK x \in Admins \ DOMAIN db.adm, t \in Tenants :
        Both(Db!CreateAdmin(db, x, x, "OPERATOR", t), Mem!CreateAdmin(mem, x, x, "OPERATOR", t))
  BY DEF Hire
<1>2. Accounts(db.adm, mem.adminsByID) /\ {"admins", "adminsByID"} \subseteq DOMAIN mem BY DEF StepInv
<1> DEFINE row == [email |-> x, role |-> "OPERATOR", tenant |-> t, active |-> TRUE,
                   secret |-> "", pending |-> "", enrolled |-> FALSE, step |-> 0]
           rec == [email |-> x, role |-> "OPERATOR", tenant |-> t, active |-> TRUE,
                   mfaSecret |-> "", mfaPending |-> "", mfaEnrolled |-> FALSE, mfaLastStep |-> 0]
<1>3. ~\E b \in DOMAIN db.adm : db.adm[b].email = x BY <1>2 DEF Accounts
<1>4. db' = [db EXCEPT !.adm = Db!Put(@, x, row)] BY <1>1, <1>3 DEF Both, Db!CreateAdmin, Db!Ret
<1>5. mem' = [mem EXCEPT !.admins = Mem!Put(@, x, x), !.adminsByID = Mem!Put(@, x, rec)]
  BY <1>1 DEF Both, Mem!CreateAdmin, Mem!Ret
<1>6. {"email", "step"} \subseteq DOMAIN row /\ row.email = x /\ row.step = 0 OBVIOUS
<1>7. "mfaLastStep" \in DOMAIN rec /\ rec.mfaLastStep = 0 OBVIOUS
<1> HIDE DEF row, rec
<1>8. /\ db'.dev = db.dev /\ db'.pol = db.pol /\ db'.asg = db.asg /\ DOMAIN db' = DOMAIN db
      /\ DOMAIN db'.adm = DOMAIN db.adm \cup {x} /\ db'.adm[x] = row
      /\ \A a \in DOMAIN db.adm : db'.adm[a] = db.adm[a]
  BY <1>4 DEF Db!Put
<1>9. /\ DOMAIN mem' = DOMAIN mem
      /\ DOMAIN mem'.adminsByID = DOMAIN mem.adminsByID \cup {x} /\ mem'.adminsByID[x] = rec
      /\ \A a \in DOMAIN db.adm : mem'.adminsByID[a] = mem.adminsByID[a]
  BY <1>2, <1>5 DEF Mem!Put, Accounts
<1>10. Accounts(db'.adm, mem'.adminsByID) BY <1>2, <1>6, <1>7, <1>8, <1>9 DEF Accounts
<1> QED BY <1>1, <1>2, <1>8, <1>9, <1>10 DEF AdminStep, StepInv, Both

LEMMA RetireStep == ASSUME ParityInv, family \in Hired, Retire PROVE AdminStep
<1> USE DEF ParityInv, ColumnsInv, StepInv, Accounts
<1>1. PICK a \in Admins, t \in Tenants : Both(Db!DeactivateAdmin(db, a, t), Mem!DeactivateAdmin(mem, a, t))
  BY DEF Retire
<1>2. DbKept BY <1>1 DEF DbKept, Both, Db!DeactivateAdmin, Db!AdminReachable, Db!Ret
<1>3. MemKept BY <1>1 DEF MemKept, Both, Mem!DeactivateAdmin, Mem!Ret
<1> QED BY <1>1, <1>2, <1>3, BothKept DEF Both

LEMMA AdminCallsStep == ASSUME ParityInv, AdminCalls PROVE AdminStep
<1> USE DEF ParityInv, ColumnsInv, StepInv, Accounts
<1>0. family \in Hired BY DEF AdminCalls, Hired
<1>1. CASE Hire BY <1>0, <1>1, HireStep
<1>2. CASE Promote
  <2>1. PICK a \in Admins, t \in Tenants : Both(Db!SetAdminRole(db, a, "ADMIN", t), Mem!SetAdminRole(mem, a, "ADMIN", t))
    BY <1>2 DEF Promote
  <2>2. DbKept BY <2>1, <1>0 DEF DbKept, Both, Db!SetAdminRole, Db!AdminReachable, Db!Ret
  <2>3. MemKept BY <2>1, <1>0 DEF MemKept, Both, Mem!SetAdminRole, Mem!Ret
  <2> QED BY <1>0, <2>1, <2>2, <2>3, BothKept DEF Both
<1>3. CASE Retire BY <1>0, <1>3, RetireStep
<1>4. CASE Audit
  <2>1. PICK a \in {""} \cup DOMAIN db.adm : Both(Db!WriteAudit(db, a, "x"), Mem!WriteAudit(mem, a, "x"))
    BY <1>4 DEF Audit
  <2>2. DbKept BY <2>1, <1>0 DEF DbKept, Both, Db!WriteAudit, Db!Ret
  <2>3. MemKept BY <2>1, <1>0 DEF MemKept, Both, Mem!WriteAudit, Mem!Ret
  <2> QED BY <1>0, <2>1, <2>2, <2>3, BothKept DEF Both
<1> QED BY <1>1, <1>2, <1>3, <1>4 DEF AdminCalls

LEMMA ConsoleCallsStep == ASSUME ParityInv, ConsoleCalls PROVE AdminStep
<1> USE DEF ParityInv, ColumnsInv, StepInv, Accounts
<1>0. family \in Hired BY DEF ConsoleCalls, Hired
<1>1. CASE Hire BY <1>0, <1>1, HireStep
<1>2. CASE Search
  <2>1. DbKept /\ family' = family BY <1>2, <1>0 DEF Search, DbKept, Both, Db!SaveSearch, Db!Ret
  <2>2. MemKept BY <1>2, <1>0 DEF Search, MemKept, Both, Mem!SaveSearch, Mem!Ret
  <2> QED BY <1>0, <2>1, <2>2, BothKept
<1>3. CASE Unsearch
  <2>1. DbKept /\ family' = family BY <1>3, <1>0 DEF Unsearch, DbKept, Both, Db!DeleteSavedSearch, Db!Ret
  <2>2. MemKept BY <1>3, <1>0 DEF Unsearch, MemKept, Both, Mem!DeleteSavedSearch, Mem!Ret
  <2> QED BY <1>0, <2>1, <2>2, BothKept
<1>4. CASE Customer
  <2>1. DbKept /\ family' = family BY <1>4, <1>0 DEF Customer, DbKept, Both, Db!MSPAddCustomer, Db!Ret
  <2>2. MemKept BY <1>4, <1>0 DEF Customer, MemKept, Both, Mem!MSPAddCustomer, Mem!Ret
  <2> QED BY <1>0, <2>1, <2>2, BothKept
<1>5. CASE Uncustomer
  <2>1. DbKept /\ family' = family BY <1>5, <1>0 DEF Uncustomer, DbKept, Both, Db!MSPDeactivateCustomer, Db!Ret
  <2>2. MemKept BY <1>5, <1>0 DEF Uncustomer, MemKept, Both, Mem!MSPDeactivateCustomer, Mem!Ret
  <2> QED BY <1>0, <2>1, <2>2, BothKept
<1> QED BY <1>1, <1>2, <1>3, <1>4, <1>5 DEF ConsoleCalls

LEMMA StepNumbers == \A n \in 1..MaxRows : n \in Nat
<1>1. MaxRows \in Nat BY ParityAssumption
<1> QED BY <1>1

\* A one-time code moves both counters to it, or leaves the one that is past it.
LEMMA UseCodeStep == ASSUME ParityInv, family \in Hired, UseCode PROVE AdminStep
<1> USE DEF ParityInv, ColumnsInv
<1>1. PICK x \in Admins, n \in 1..MaxRows : /\ db' = Db!ConsumeTOTPStep(db, x, n).s /\ mem' = Mem!ConsumeTOTPStep(mem, x, n).s
                                          /\ UNCHANGED <<family, ret>>
  BY DEF UseCode
<1>2. Accounts(db.adm, mem.adminsByID) /\ {"admins", "adminsByID"} \subseteq DOMAIN mem BY DEF StepInv
<1>3. \/ db' = db /\ (x \in DOMAIN db.adm => ~(n > db.adm[x].step))
      \/ x \in DOMAIN db.adm /\ db' = [db EXCEPT !.adm[x].step = n]
  BY <1>1 DEF Db!ConsumeTOTPStep, Db!Ret
<1>4. \/ mem' = mem /\ (x \in DOMAIN mem.adminsByID => n <= mem.adminsByID[x].mfaLastStep)
      \/ /\ x \in DOMAIN mem.adminsByID /\ ~(n <= mem.adminsByID[x].mfaLastStep)
         /\ mem' = [mem EXCEPT !.adminsByID[x].mfaLastStep = n]
  BY <1>1 DEF Mem!ConsumeTOTPStep, Mem!Ret
<1>5. /\ db'.dev = db.dev /\ db'.pol = db.pol /\ db'.asg = db.asg /\ DOMAIN db' = DOMAIN db
      /\ DOMAIN db'.adm = DOMAIN db.adm
      /\ \A a \in DOMAIN db.adm : {"email", "step"} \subseteq DOMAIN db'.adm[a] /\ db'.adm[a].email = db.adm[a].email
      /\ \A a \in DOMAIN db.adm : a # x => db'.adm[a].step = db.adm[a].step
      /\ x \in DOMAIN db.adm => db'.adm[x].step \in {n, db.adm[x].step}
  BY <1>2, <1>3 DEF Accounts
<1>6. /\ DOMAIN mem' = DOMAIN mem
      /\ DOMAIN mem'.adminsByID = DOMAIN mem.adminsByID
      /\ \A a \in DOMAIN mem.adminsByID : "mfaLastStep" \in DOMAIN mem'.adminsByID[a]
      /\ \A a \in DOMAIN mem.adminsByID : a # x => mem'.adminsByID[a].mfaLastStep = mem.adminsByID[a].mfaLastStep
      /\ x \in DOMAIN mem.adminsByID =>
           \/ mem'.adminsByID[x].mfaLastStep = n /\ ~(n <= mem.adminsByID[x].mfaLastStep)
           \/ mem'.adminsByID[x].mfaLastStep = mem.adminsByID[x].mfaLastStep /\ n <= mem.adminsByID[x].mfaLastStep
  BY <1>2, <1>4 DEF Accounts
<1>7. Accounts(db'.adm, mem'.adminsByID)
  <2>1. n \in Nat BY StepNumbers
  <2> SUFFICES ASSUME NEW a \in DOMAIN db.adm
               PROVE  /\ db'.adm[a].step \in Nat /\ mem'.adminsByID[a].mfaLastStep \in Nat
                      /\ db'.adm[a].step <= mem'.adminsByID[a].mfaLastStep
    BY <1>2, <1>5, <1>6 DEF Accounts
  <2>2. CASE a # x BY <2>2, <1>2, <1>5, <1>6 DEF Accounts
  <2>3. CASE a = x BY <2>1, <2>3, <1>2, <1>5, <1>6 DEF Accounts
  <2> QED BY <2>2, <2>3
<1> QED BY <1>1, <1>2, <1>5, <1>6, <1>7 DEF AdminStep, StepInv

LEMMA MFACallsStep == ASSUME ParityInv, MFACalls PROVE AdminStep
<1> USE DEF ParityInv, ColumnsInv, StepInv, Accounts
<1>0. family \in Hired BY DEF MFACalls, Hired
<1>1. CASE HireDefault BY <1>0, <1>1, HireStep DEF HireDefault
<1>2. CASE Retire BY <1>0, <1>2, RetireStep
<1>3. CASE BeginMFA
  <2>1. PICK a, k : Both(Db!SetPendingMFASecret(db, a, k), Mem!SetPendingMFASecret(mem, a, k)) BY <1>3 DEF BeginMFA
  <2>2. DbKept BY <2>1, <1>0 DEF DbKept, Both, Db!SetPendingMFASecret, Db!Ret
  <2>3. MemKept BY <2>1, <1>0 DEF MemKept, Both, Mem!SetPendingMFASecret, Mem!Ret
  <2> QED BY <1>0, <2>1, <2>2, <2>3, BothKept DEF Both
<1>4. CASE EnableMFA
  <2>1. PICK a \in Admins : Both(Db!ActivateMFA(db, a), Mem!ActivateMFA(mem, a)) BY <1>4 DEF EnableMFA
  <2>2. DbKept BY <2>1, <1>0 DEF DbKept, Both, Db!ActivateMFA, Db!Ret
  <2>3. MemKept BY <2>1, <1>0 DEF MemKept, Both, Mem!ActivateMFA, Mem!Ret
  <2> QED BY <1>0, <2>1, <2>2, <2>3, BothKept DEF Both
<1>5. CASE DropMFA
  <2>1. PICK a \in Admins : Both(Db!DisableMFA(db, a), Mem!DisableMFA(mem, a)) BY <1>5 DEF DropMFA
  <2>2. DbKept
    <3>1. \/ db' = db
          \/ a \in DOMAIN db.adm
             /\ db' = [db EXCEPT !.adm[a].secret = "", !.adm[a].pending = "", !.adm[a].enrolled = FALSE, !.adm[a].step = 0]
      BY <2>1 DEF Both, Db!DisableMFA, Db!Ret
    <3>2. {"dev", "pol", "asg", "adm"} \subseteq DOMAIN db /\ \A b \in DOMAIN db.adm : {"email", "step"} \subseteq DOMAIN db.adm[b]
      BY <1>0
    <3> HIDE DEF ParityInv, ColumnsInv, StepInv, Accounts
    <3>3. CASE db' = db BY <3>2, <3>3 DEF DbKept
    <3>4. CASE a \in DOMAIN db.adm /\ db' = [db EXCEPT !.adm[a].secret = "", !.adm[a].pending = "", !.adm[a].enrolled = FALSE, !.adm[a].step = 0]
      BY <3>2, <3>4 DEF DbKept
    <3> QED BY <3>1, <3>3, <3>4
  <2>3. MemKept BY <2>1, <1>0 DEF MemKept, Both, Mem!DisableMFA, Mem!Ret
  <2> QED BY <1>0, <2>1, <2>2, <2>3, BothKept DEF Both
<1>6. CASE UseCode BY <1>0, <1>6, UseCodeStep
<1> QED BY <1>1, <1>2, <1>3, <1>4, <1>5, <1>6 DEF MFACalls

-----------------------------------------------------------------------------
\* Whatever is called, a step is of one of these kinds.
StepKinds == (EnrolStep \/ Untouched \/ FleetKept \/ PoliciesHeld) /\ family \notin Hired /\ family' = family

LEMMA EveryStep == ASSUME ParityInv, Next PROVE StepKinds \/ AdminStep
<1>1. CASE TokenCalls BY <1>1, TokenStep DEF StepKinds, Hired, TokenCalls
<1>2. CASE EnrolCalls BY <1>2, EnrolCallsStep DEF StepKinds, Hired, EnrolCalls
<1>3. CASE FleetCalls BY <1>3, FleetCallsStep DEF StepKinds, Hired, FleetCalls
<1>4. CASE EventCalls BY <1>4, EventCallsStep DEF StepKinds, Hired, EventCalls
<1>5. CASE IncidentCalls BY <1>5, IncidentCallsStep DEF StepKinds, Hired, IncidentCalls
<1>6. CASE PolicyCalls BY <1>6, PolicyCallsStep DEF StepKinds, Hired, PolicyCalls
<1>7. CASE EvidenceCalls BY <1>7, EvidenceCallsStep DEF StepKinds, Hired, EvidenceCalls
<1>8. CASE APITokenCalls BY <1>8, APITokenStep DEF StepKinds, Hired, APITokenCalls
<1>9. CASE QueueCalls BY <1>9, QueueCallsStep DEF StepKinds, Hired, QueueCalls
<1>10. CASE AdminCalls BY <1>10, AdminCallsStep
<1>11. CASE MFACalls BY <1>11, MFACallsStep
<1>12. CASE ConsoleCalls BY <1>12, ConsoleCallsStep
<1> QED BY <1>1, <1>2, <1>3, <1>4, <1>5, <1>6, <1>7, <1>8, <1>9, <1>10, <1>11, <1>12 DEF Next

\* Devices and policies keep their tenants, assignments are old or fit.
Related ==
  /\ DOMAIN db.dev \subseteq DOMAIN db'.dev /\ DOMAIN db.pol \subseteq DOMAIN db'.pol
  /\ \A d \in DOMAIN db.dev : Db!Equivalent(db.dev[d].tenant, db'.dev[d].tenant)
  /\ \A p \in DOMAIN db.pol : db'.pol[p].tenant = db.pol[p].tenant
  /\ \A x \in db'.asg : x \in db.asg \/ (x[1] \in DOMAIN db.dev /\ x[2] \in DOMAIN db.pol /\ Db!PolicyFits(db, x[2], x[1]))

LEMMA StepRelates ==
  ASSUME ParityInv, StepKinds \/ AdminStep
  PROVE  Related /\ ColumnsInv' /\ "" \notin DOMAIN db'.dev /\ OneMacPerTenant' /\ StepInv'
<1> USE DEF ParityInv, ColumnsInv, KeysInv, Related
<1>1. CASE EnrolStep /\ family \notin Hired /\ family' = family
  BY <1>1 DEF EnrolStep, DevicesHeld, OthersKept, StepInv
<1>2. CASE Untouched /\ family \notin Hired /\ family' = family
  BY <1>2 DEF Untouched, StepInv, OneMacPerTenant, Db!Equivalent
<1>3. CASE FleetKept /\ family \notin Hired /\ family' = family
  BY <1>3 DEF FleetKept, OthersKept, RowsKept, StepInv, OneMacPerTenant, Db!Equivalent
<1>4. CASE PoliciesHeld /\ family \notin Hired /\ family' = family
  BY <1>4 DEF PoliciesHeld, StepInv, OneMacPerTenant, Db!Equivalent
<1>5. CASE AdminStep
  BY <1>5 DEF AdminStep, OneMacPerTenant, Db!Equivalent
<1> QED BY <1>1, <1>2, <1>3, <1>4, <1>5 DEF StepKinds

LEMMA ParityStep == ASSUME ParityInv, [Next]_vars PROVE ParityInv'
<1>1. CASE Next
  <2>1. Related /\ ColumnsInv' /\ "" \notin DOMAIN db'.dev /\ OneMacPerTenant' /\ StepInv'
    BY <1>1, EveryStep, StepRelates
  <2>2. ASSUME NEW x \in db'.asg
        PROVE  x[1] \in DOMAIN db'.dev /\ x[2] \in DOMAIN db'.pol /\ Db!PolicyFits(db, x[2], x[1])
    BY <2>1 DEF Related, ParityInv, KeysInv, AssignedFits
  <2>3. KeysInv' BY <2>1, <2>2 DEF KeysInv
  <2>4. AssignedFits' BY <2>1, <2>2 DEF Related, ParityInv, KeysInv, AssignedFits, Db!PolicyFits, Db!Equivalent
  <2> QED BY <2>1, <2>3, <2>4 DEF ParityInv
<1>2. CASE UNCHANGED vars
  BY <1>2 DEF vars, ParityInv, ColumnsInv, KeysInv, StepInv, OneMacPerTenant, AssignedFits, Db!PolicyFits
<1> QED BY <1>1, <1>2

LEMMA ParityInvariant == Spec => []ParityInv
<1>1. Init => ParityInv BY ParityInit
<1>2. ParityInv /\ [Next]_vars => ParityInv' BY ParityStep
<1> QED BY <1>1, <1>2, PTL DEF Spec

\* The counters decide what each store accepts.
LEMMA CodesAgree == ParityInv => NoWeakerTOTP
<1> SUFFICES ASSUME ParityInv, NEW a \in DOMAIN db.adm, NEW n \in 1..MaxRows, Mem!ConsumeTOTPStep(mem, a, n).r
             PROVE  Db!ConsumeTOTPStep(db, a, n).r
  BY DEF NoWeakerTOTP
<1>1. Accounts(db.adm, mem.adminsByID) BY DEF ParityInv, StepInv
<1>n. n \in Nat BY StepNumbers
<1>2. ~(n <= mem.adminsByID[a].mfaLastStep) BY <1>1 DEF Accounts, Mem!ConsumeTOTPStep, Mem!Ret
<1>3. n > db.adm[a].step BY <1>n, <1>1, <1>2 DEF Accounts
<1> QED BY <1>3 DEF Db!ConsumeTOTPStep, Db!Ret

\* One-time codes, macs and assignments hold on both stores after any calls: the in-memory store accepts no
\* code the database refuses, no two devices of a tenant share a mac, and an assignment fits its device.
THEOREM StoresAreSound == Spec => []StoreSound
<1>1. ParityInv => StoreSound BY CodesAgree DEF ParityInv, StoreSound
<1> QED BY <1>1, ParityInvariant, PTL

\* No sequence of enrolments, with whichever tokens, moves a device to another tenant.
THEOREM DevicesStay == Spec => DeviceKeepsTenant
<1> DEFINE Stay == \A d \in DOMAIN db.dev : d \in DOMAIN db'.dev /\ Db!Equivalent(db.dev[d].tenant, db'.dev[d].tenant)
<1>1. ParityInv /\ [Next]_vars => [Stay]_vars
  BY EveryStep, StepRelates DEF Related
<1> QED BY <1>1, ParityInvariant, PTL DEF Spec, DeviceKeepsTenant

(******************************** certificates ********************************)

AgentPcs == {"down", "broken", "enrolling", "key first", "crt", "did", "running", "renewing", "crt first", "key last"}
CallPcs == {"token", "device", "check", "sign", "answer", "refused"}

CallType == [op : {"enroll", "renew"}, pc : CallPcs, token : Tokens \cup {""}, dev : {"", "dev1"}, tenant : {"", "acme"}]
FilesType == [key : Nat, crt : Nat, did : {"", "dev1"}]
AgentType == [pc : AgentPcs, token : Tokens, pins : SUBSET {"", "spki1", "spki2"}, files : FilesType,
              held : Nat, from : Nat, to : Nat, key : Nat, got : Nat]

CertTypeOK ==
  /\ {"tok", "dev", "cert"} \subseteq DOMAIN certdb
  /\ certdb.tok \in [Tokens -> [by : {"root"}, tenant : {"acme"}, used : BOOLEAN, expired : {FALSE}]]
  /\ DOMAIN certdb.dev \subseteq {"dev1"}
  /\ DOMAIN signed \subseteq 1 .. MaxCerts
  /\ certdb.cert \in [DOMAIN signed -> [dev : {"dev1"}, revoked : BOOLEAN]]
  /\ signed \in [DOMAIN signed -> [dev : {"dev1"}, from : Nat, to : Nat]]
  /\ DOMAIN calls \subseteq 1 .. MaxCerts
  /\ calls \in [DOMAIN calls -> CallType]
  /\ agent \in AgentType
  /\ certTime \in Nat /\ faults \in Nat /\ serving \in BOOLEAN /\ cut \in BOOLEAN
  /\ buys \in [Tokens -> SUBSET Nat]

\* How far a request can be: a renewal is about the device of the certificate it came with, what is
\* signed is for that device, and only what is saved is answered.
CallInv == \A k \in DOMAIN calls :
  LET c == calls[k] IN
  /\ c.op = "enroll" => c.token \in Tokens /\ c.pc # "check"
  /\ c.op = "renew" => c.dev = "dev1" /\ c.pc \notin {"token", "device"}
  /\ c.pc = "sign" => c.dev = "dev1"
  /\ c.pc = "answer" => k \in DOMAIN signed

\* What the agent holds and writes was signed; the identity is complete once it
\* names the device, and a renewal is of a younger key than the one on disk.
AgentInv ==
  LET f == agent.files IN
  /\ agent.held # 0 => agent.held \in DOMAIN signed
  /\ f.crt # 0 => f.crt \in DOMAIN signed
  /\ f.did # "" => f.key # 0 /\ f.crt # 0 /\ (f.key = f.crt \/ f.crt > f.key)
  /\ agent.pc \in {"enrolling", "key first", "crt", "did"} => f.did = ""
  /\ agent.pc \in {"key first", "crt", "did", "crt first", "key last"} => agent.got \in DOMAIN signed /\ agent.got = agent.key
  /\ agent.pc = "crt" => f.key = agent.got
  /\ agent.pc = "did" => f.key = agent.got /\ f.crt = agent.got
  /\ agent.pc \in {"running", "renewing", "crt first", "key last"} => agent.held # 0 /\ f.did # ""
  /\ agent.pc \in {"running", "renewing", "crt first"} => f.key = f.crt
  /\ agent.pc \in {"renewing", "crt first"} => agent.key > f.key
  /\ agent.pc = "key last" => f.crt = agent.got
  /\ agent.pc \in {"down", "broken"} /\ f.did # "" /\ f.key # f.crt => faults > 0
  /\ agent.pc = "broken" => f.did # "" /\ f.key # f.crt

\* A request that has paid with token t and has no certificate yet.
Buying(k, t) == calls[k].op = "enroll" /\ calls[k].token = t /\ calls[k].pc \in {"device", "sign"}

\* A token that was not used bought nothing, and a used one is paid in for one
\* request or one certificate.
TokenInv(t) ==
  /\ ~certdb.tok[t].used => buys[t] = {} /\ \A k \in DOMAIN calls : ~Buying(k, t)
  /\ \A k, l \in DOMAIN calls : Buying(k, t) /\ Buying(l, t) => k = l
  /\ (\E k \in DOMAIN calls : Buying(k, t)) => buys[t] = {}
  /\ buys[t] = {} \/ \E k \in Nat : buys[t] = {k}
BuysInv == \A t \in Tokens : TokenInv(t)

\* After a cut no certificate is active and no renewal is past its check.
CutInv == cut =>
  /\ \A k \in DOMAIN certdb.cert : certdb.cert[k].revoked
  /\ \A k \in DOMAIN calls : calls[k].op = "renew" => calls[k].pc # "sign"

CertInv == CertTypeOK /\ CallInv /\ AgentInv /\ BuysInv /\ CutInv

-----------------------------------------------------------------------------
(* The helpers *)

\* A bounded set of numbers has a greatest one.
LEMMA Greatest ==
    ASSUME NEW N \in Nat, NEW S, S \subseteq 0 .. N, S # {}
    PROVE  \E x \in S : \A y \in S : x >= y
  <1> DEFINE T == {N - x : x \in S}
  <1>1. T \subseteq Nat /\ T # {}
    <2>1. \A x \in S : N - x \in Nat
      OBVIOUS
    <2>2. PICK x \in S : TRUE
      OBVIOUS
    <2> QED
      BY <2>1, <2>2
  <1>2. IsWellFoundedOn(OpToRel(<, Nat), Nat)
    BY NatLessThanWellFounded
  <1>3. PICK n \in T : \A m \in T : ~ (<<m, n>> \in OpToRel(<, Nat))
    BY <1>1, <1>2, WFMin
  <1>4. \A m \in T : ~ (<<m, n>> \in {ss \in Nat \X Nat : ss[1] < ss[2]})
    BY <1>3 DEF OpToRel
  <1>5. ASSUME NEW m \in T PROVE n <= m
    <2>1. n \in Nat /\ m \in Nat
      BY <1>1
    <2>2. ~ (<<m, n>>[1] < <<m, n>>[2])
      BY <1>4, <2>1
    <2> QED
      BY <2>1, <2>2
  <1>6. PICK x \in S : n = N - x
    OBVIOUS
  <1>7. ASSUME NEW y \in S PROVE x >= y
    <2>1. n <= N - y
      BY <1>5
    <2> QED
      BY <1>6, <2>1
  <1> QED
    BY <1>7

\* A new key is above those of all certificates and requests.
LEMMA NewKeyIsNew ==
    ASSUME CertTypeOK
    PROVE  NewKey \in Nat \ {0} /\ \A k \in (DOMAIN signed) \cup (DOMAIN calls) : k < NewKey
  <1> DEFINE S == (DOMAIN signed) \cup (DOMAIN calls) \cup {0}
             m == Max(S)
  <1>1. S \subseteq 0 .. MaxCerts /\ 0 \in S
    BY CertAssumption DEF CertTypeOK
  <1>2. \E x \in S : \A y \in S : x >= y
    BY <1>1, CertAssumption, Greatest
  <1>3. m \in S /\ \A y \in S : m >= y
    BY <1>2 DEF Max
  <1>4. NewKey = 1 + m
    BY DEF NewKey
  <1> HIDE DEF S, m
  <1>5. m \in Nat
    BY <1>1, <1>3, CertAssumption
  <1>6. \A y \in S : y \in Nat /\ y < NewKey
    BY <1>1, <1>3, <1>4, <1>5, CertAssumption
  <1> QED
    BY <1>4, <1>5, <1>6 DEF S

\* Keys are numbered from 1: 0 stands for no certificate.
LEMMA SignedKeys == ASSUME CertTypeOK PROVE \A k \in DOMAIN signed : k \in Nat \ {0}
  <1>1. DOMAIN signed \subseteq 1 .. MaxCerts
    BY DEF CertTypeOK
  <1> QED
    BY <1>1, CertAssumption

\* A token is taken once.
LEMMA ConsumeGives ==
    ASSUME CertTypeOK, NEW t \in Tokens, NEW r, r = Store!ConsumeEnrollmentToken(certdb, t)
    PROVE  /\ certdb.tok[t].used => r.r = "invalid token" /\ r.s = certdb
           /\ ~certdb.tok[t].used =>
                /\ r.r = "acme" /\ r.s.tok = [certdb.tok EXCEPT ![t].used = TRUE]
                /\ r.s.dev = certdb.dev /\ r.s.cert = certdb.cert /\ {"tok", "dev", "cert"} \subseteq DOMAIN r.s
  <1> DEFINE s2 == [certdb EXCEPT !.tok[t].used = TRUE]
  <1>1. {"tok", "dev", "cert"} \subseteq DOMAIN certdb /\ t \in DOMAIN certdb.tok
        /\ certdb.tok[t].tenant = "acme" /\ ~certdb.tok[t].expired
    BY DEF CertTypeOK
  <1>2. CASE certdb.tok[t].used
    <2>1. r.s = certdb /\ r.r = "invalid token"
      BY <1>2 DEF Store!ConsumeEnrollmentToken, Store!Ret
    <2> QED
      BY <1>2, <2>1
  <1>3. CASE ~certdb.tok[t].used
    <2>1. r.s = s2 /\ r.r = "acme"
      BY <1>1, <1>3 DEF Store!ConsumeEnrollmentToken, Store!Ret
    <2>2. /\ s2.tok = [certdb.tok EXCEPT ![t].used = TRUE] /\ s2.dev = certdb.dev /\ s2.cert = certdb.cert
          /\ {"tok", "dev", "cert"} \subseteq DOMAIN s2
      BY <1>1
    <2> HIDE DEF s2
    <2> QED
      BY <1>1, <1>3, <2>1, <2>2
  <1> QED
    BY <1>2, <1>3

\* The one device is found again or made.
LEMMA UpsertGives ==
    ASSUME CertTypeOK, NEW tenant, NEW u, u = Store!UpsertEnrollingDevice(certdb, "", "dev1", Mac, tenant)
    PROVE  /\ u.r = "dev1" /\ u.s.tok = certdb.tok /\ u.s.cert = certdb.cert
           /\ {"tok", "dev", "cert"} \subseteq DOMAIN u.s /\ DOMAIN u.s.dev \subseteq {"dev1"}
  <1> DEFINE holders == Store!HoldersOfMac(certdb, tenant, Mac)
             rec == [tenant |-> tenant, mac |-> Mac, status |-> "ACTIVE", seen |-> "never", tags |-> {}, hash |-> "", ver |-> ""]
             up(d) == [certdb EXCEPT !.dev[d].mac = Mac, !.dev[d].tenant = Store!Canonical(@), !.dev[d].status = Store!Revived(@)]
             new == [certdb EXCEPT !.dev = Store!Put(@, "dev1", rec)]
  <1>1. {"tok", "dev", "cert"} \subseteq DOMAIN certdb /\ DOMAIN certdb.dev \subseteq {"dev1"} /\ holders \subseteq {"dev1"}
    BY DEF CertTypeOK, Store!HoldersOfMac
  <1>2. CASE holders # {}
    <2>1. (CHOOSE h \in holders : TRUE) = "dev1"
      BY <1>1, <1>2
    <2>2. u.s = up("dev1") /\ u.r = "dev1"
      BY <1>2, <2>1 DEF Store!UpsertEnrollingDevice, Store!Ret
    <2>3. /\ up("dev1").tok = certdb.tok /\ up("dev1").cert = certdb.cert
          /\ {"tok", "dev", "cert"} \subseteq DOMAIN up("dev1") /\ DOMAIN up("dev1").dev = DOMAIN certdb.dev
      BY <1>1
    <2> HIDE DEF up
    <2> QED
      BY <1>1, <2>2, <2>3
  <1>3. CASE holders = {}
    <2>1. u.s = new /\ u.r = "dev1"
      BY <1>3 DEF Store!UpsertEnrollingDevice, Store!Ret
    <2>2. /\ new.tok = certdb.tok /\ new.cert = certdb.cert /\ new.dev = Store!Put(certdb.dev, "dev1", rec)
          /\ {"tok", "dev", "cert"} \subseteq DOMAIN new
      BY <1>1
    <2>3. DOMAIN new.dev \subseteq {"dev1"}
      BY <1>1, <2>2 DEF Store!Put
    <2> HIDE DEF new
    <2> QED
      BY <2>1, <2>2, <2>3
  <1> QED
    BY <1>2, <1>3

\* A certificate is put beside the others, and a revocation reaches all of the device.
LEMMA SaveGives ==
    ASSUME CertTypeOK, NEW k, NEW r, r = Store!SaveCertificate(certdb, k, "dev1").s
    PROVE  /\ r.tok = certdb.tok /\ r.dev = certdb.dev /\ {"tok", "dev", "cert"} \subseteq DOMAIN r
           /\ r.cert = [x \in DOMAIN signed \cup {k} |-> IF x = k THEN [dev |-> "dev1", revoked |-> FALSE] ELSE certdb.cert[x]]
  <1>1. r = [certdb EXCEPT !.cert = Store!Put(@, k, [dev |-> "dev1", revoked |-> FALSE])]
    BY DEF Store!SaveCertificate, Store!Ret
  <1>2. {"tok", "dev", "cert"} \subseteq DOMAIN certdb /\ DOMAIN certdb.cert = DOMAIN signed
    BY DEF CertTypeOK
  <1>3. r.tok = certdb.tok /\ r.dev = certdb.dev /\ {"tok", "dev", "cert"} \subseteq DOMAIN r
    BY <1>1, <1>2
  <1>4. r.cert = Store!Put(certdb.cert, k, [dev |-> "dev1", revoked |-> FALSE])
    BY <1>1, <1>2
  <1> QED
    BY <1>2, <1>3, <1>4 DEF Store!Put

LEMMA RevokeGives ==
    ASSUME CertTypeOK, NEW r, r = Store!RevokeDeviceCerts(certdb, "dev1").s
    PROVE  /\ r.tok = certdb.tok /\ r.dev = certdb.dev /\ {"tok", "dev", "cert"} \subseteq DOMAIN r
           /\ r.cert = [x \in DOMAIN signed |-> [dev |-> "dev1", revoked |-> TRUE]]
  <1> DEFINE new == [fp \in DOMAIN certdb.cert |-> [certdb.cert[fp] EXCEPT !.revoked = @ \/ certdb.cert[fp].dev = "dev1"]]
  <1>1. r = [certdb EXCEPT !.cert = new]
    BY DEF Store!RevokeDeviceCerts, Store!Ret
  <1>2. {"tok", "dev", "cert"} \subseteq DOMAIN certdb /\ DOMAIN certdb.cert = DOMAIN signed
        /\ certdb.cert \in [DOMAIN signed -> [dev : {"dev1"}, revoked : BOOLEAN]]
    BY DEF CertTypeOK
  <1>3. ASSUME NEW x \in DOMAIN signed PROVE new[x] = [dev |-> "dev1", revoked |-> TRUE]
    <2>1. certdb.cert[x] \in [dev : {"dev1"}, revoked : BOOLEAN]
      BY <1>2
    <2> QED
      BY <1>2, <2>1
  <1>4. new = [x \in DOMAIN signed |-> [dev |-> "dev1", revoked |-> TRUE]]
    BY <1>2, <1>3
  <1> HIDE DEF new
  <1> QED
    BY <1>1, <1>2, <1>4

-----------------------------------------------------------------------------
(* What a step has to show where it changes little *)

\* The agent at work, the server at rest.
LEMMA AgentAlone ==
    ASSUME CertInv, UNCHANGED serverSide, UNCHANGED certTime, faults' \in Nat, agent' \in AgentType, AgentInv'
    PROVE  CertInv'
  <1>1. UNCHANGED <<certdb, signed, cache, serving, calls, buys, cut>>
    BY DEF serverSide
  <1>2. CertTypeOK'
    BY <1>1 DEF CertInv, CertTypeOK
  <1>3. CallInv'
    BY <1>1 DEF CertInv, CallInv
  <1>4. BuysInv'
    BY <1>1 DEF CertInv, BuysInv, TokenInv, Buying
  <1>5. CutInv'
    BY <1>1 DEF CertInv, CutInv
  <1> QED
    BY <1>2, <1>3, <1>4, <1>5 DEF CertInv

\* The agent at rest: certificates are only added.
LEMMA AgentWaits ==
    ASSUME AgentInv, UNCHANGED agent, DOMAIN signed \subseteq DOMAIN signed', faults > 0 => faults' > 0
    PROVE  AgentInv'
  BY DEF AgentInv

\* Requests end, are refused or stay as they are, and nothing else changes at the server.
LEMMA RequestsEnd ==
    ASSUME CertInv, UNCHANGED <<certdb, signed, buys, cut, certTime>>, calls' \in [DOMAIN calls' -> CallType],
           DOMAIN calls' \subseteq DOMAIN calls,
           \A k \in DOMAIN calls' : calls'[k] = calls[k] \/ calls'[k] = [calls[k] EXCEPT !.pc = "refused"],
           serving' \in BOOLEAN, faults' \in Nat, agent' \in AgentType, AgentInv'
    PROVE  CertInv'
  <1>1. CertTypeOK'
    BY DEF CertInv, CertTypeOK
  <1>2. ASSUME NEW k \in DOMAIN calls'
        PROVE  /\ k \in DOMAIN calls /\ calls'[k].pc \in {calls[k].pc, "refused"}
               /\ calls'[k].op = calls[k].op /\ calls'[k].token = calls[k].token /\ calls'[k].dev = calls[k].dev
    <2>1. k \in DOMAIN calls /\ calls[k] \in CallType
      BY DEF CertInv, CertTypeOK
    <2> QED
      BY <2>1 DEF CallType
  <1>3. CallInv'
    BY <1>2 DEF CertInv, CallInv
  <1>4. BuysInv'
    <2> SUFFICES ASSUME NEW t \in Tokens PROVE TokenInv(t)'
      BY DEF BuysInv
    <2>1. \A k \in DOMAIN calls' : k \in DOMAIN calls /\ (Buying(k, t)' => Buying(k, t))
      BY <1>2 DEF Buying
    <2>2. TokenInv(t)
      BY DEF CertInv, BuysInv
    <2> QED
      BY <2>1, <2>2 DEF TokenInv
  <1>5. CutInv'
    BY <1>2 DEF CertInv, CutInv
  <1> QED
    BY <1>1, <1>3, <1>4, <1>5 DEF CertInv

-----------------------------------------------------------------------------
(* The agent's steps *)

LEMMA AgentStartInv == ASSUME CertInv, AgentStart PROVE CertInv'
  <1>1. AgentInv /\ agent \in AgentType /\ faults \in Nat /\ CertTypeOK
    BY DEF CertInv, CertTypeOK
  <1>2. UNCHANGED serverSide /\ UNCHANGED <<certTime, faults>> /\ agent.pc = "down" /\ loadIdentity
    BY DEF AgentStart
  <1>3. agent.files.crt \in DOMAIN signed /\ agent.files.did # ""
    BY <1>1, <1>2 DEF AgentInv, loadIdentity
  <1>4. UNCHANGED signed
    BY <1>2 DEF serverSide
  <1>5. agent' \in AgentType /\ AgentInv'
    <2>1. CASE agent.files.crt = agent.files.key
      <3>1. agent' = [agent EXCEPT !.pc = "running", !.held = agent.files.crt,
                                   !.from = signed[agent.files.crt].from, !.to = signed[agent.files.crt].to]
        BY <2>1, <1>2, <1>3 DEF AgentStart, NewCertHolder, loadIdentity
      <3>2. signed[agent.files.crt].from \in Nat /\ signed[agent.files.crt].to \in Nat
        BY <1>1, <1>3 DEF CertTypeOK
      <3>3. agent' \in AgentType
        BY <3>1, <3>2, <1>1 DEF AgentType, FilesType, AgentPcs
      <3>4. agent'.pc = "running" /\ agent'.held = agent.files.crt /\ agent'.files = agent.files
        BY <3>1, <1>1 DEF AgentType
      <3>5. AgentInv'
        BY <3>4, <2>1, <1>1, <1>2, <1>3, <1>4 DEF AgentInv, loadIdentity
      <3> QED
        BY <3>3, <3>5
    <2>2. CASE agent.files.crt # agent.files.key
      <3>1. agent' = [agent EXCEPT !.pc = "broken"]
        BY <2>2, <1>2 DEF AgentStart, NewCertHolder
      <3>2. agent' \in AgentType
        BY <3>1, <1>1 DEF AgentType, FilesType, AgentPcs
      <3>3. agent'.pc = "broken" /\ agent'.held = agent.held /\ agent'.files = agent.files
        BY <3>1, <1>1 DEF AgentType
      <3>4. AgentInv'
        BY <3>3, <2>2, <1>1, <1>2, <1>3, <1>4 DEF AgentInv
      <3> QED
        BY <3>2, <3>4
    <2> QED
      BY <2>1, <2>2
  <1> QED
    BY <1>1, <1>2, <1>5, AgentAlone

LEMMA WriteKeyInv == ASSUME CertInv, WriteKey PROVE CertInv'
  <1>1. AgentInv /\ agent \in AgentType /\ faults \in Nat /\ certTime \in Nat /\ CertTypeOK
    BY DEF CertInv, CertTypeOK
  <1>2. UNCHANGED serverSide /\ UNCHANGED <<certTime, faults>> /\ UNCHANGED signed
    BY DEF WriteKey, serverSide
  <1>3. CASE agent.pc = "key first" /\ agent' = [agent EXCEPT !.files.key = agent.key, !.pc = "crt"]
    <2>1. /\ agent'.pc = "crt" /\ agent'.held = agent.held /\ agent'.got = agent.got /\ agent'.key = agent.key
          /\ agent'.files = [agent.files EXCEPT !.key = agent.key]
      BY <1>1, <1>3 DEF AgentType
    <2>2. agent'.files.key = agent.key /\ agent'.files.crt = agent.files.crt /\ agent'.files.did = agent.files.did
      BY <1>1, <2>1 DEF AgentType, FilesType
    <2>3. agent' \in AgentType
      BY <1>1, <1>3 DEF AgentType, FilesType, AgentPcs
    <2>4. AgentInv'
      BY <1>1, <1>2, <1>3, <2>1, <2>2 DEF AgentInv
    <2> QED
      BY <1>1, <1>2, <2>3, <2>4, AgentAlone
  <1>4. CASE agent.pc = "key last" /\ agent' = [agent EXCEPT !.files.key = agent.key, !.pc = "running", !.from = certTime,
                                                            !.to = signed[agent.got].to]
    <2>1. agent.got \in DOMAIN signed /\ signed[agent.got].to \in Nat
      BY <1>1, <1>4 DEF AgentInv, CertTypeOK
    <2>2. /\ agent'.pc = "running" /\ agent'.held = agent.held
          /\ agent'.files = [agent.files EXCEPT !.key = agent.key]
      BY <1>1, <1>4 DEF AgentType
    <2>3. agent'.files.key = agent.key /\ agent'.files.crt = agent.files.crt /\ agent'.files.did = agent.files.did
      BY <1>1, <2>2 DEF AgentType, FilesType
    <2>4. agent' \in AgentType
      BY <1>1, <1>4, <2>1 DEF AgentType, FilesType, AgentPcs
    <2>5. agent.key # 0
      BY <1>1, <1>4, <2>1, SignedKeys DEF AgentInv
    <2>6. AgentInv'
      BY <1>1, <1>2, <1>4, <2>2, <2>3, <2>5 DEF AgentInv
    <2> QED
      BY <1>1, <1>2, <2>4, <2>6, AgentAlone
  <1> QED
    BY <1>3, <1>4 DEF WriteKey

LEMMA WriteCrtInv == ASSUME CertInv, WriteCrt PROVE CertInv'
  <1>1. AgentInv /\ agent \in AgentType /\ faults \in Nat /\ CertTypeOK
    BY DEF CertInv, CertTypeOK
  <1>2. UNCHANGED serverSide /\ UNCHANGED <<certTime, faults>> /\ UNCHANGED signed
    BY DEF WriteCrt, serverSide
  <1>3. PICK pc \in {"did", "key last"} :
          /\ agent' = [agent EXCEPT !.files.crt = agent.got, !.pc = pc]
          /\ agent.pc = IF pc = "did" THEN "crt" ELSE "crt first"
    BY DEF WriteCrt
  <1>4. agent.got \in DOMAIN signed /\ agent.got = agent.key /\ agent.got \in Nat \ {0}
    <2>1. agent.got \in DOMAIN signed /\ agent.got = agent.key
      BY <1>1, <1>3 DEF AgentInv
    <2> QED
      BY <1>1, <2>1, SignedKeys
  <1>5. /\ agent'.pc = pc /\ agent'.held = agent.held /\ agent'.got = agent.got /\ agent'.key = agent.key
        /\ agent'.files = [agent.files EXCEPT !.crt = agent.got]
    BY <1>1, <1>3 DEF AgentType
  <1>6. agent'.files.key = agent.files.key /\ agent'.files.crt = agent.got /\ agent'.files.did = agent.files.did
    BY <1>1, <1>5 DEF AgentType, FilesType
  <1>7. agent' \in AgentType
    BY <1>1, <1>3 DEF AgentType, FilesType, AgentPcs
  <1>8. AgentInv'
    BY <1>1, <1>2, <1>3, <1>4, <1>5, <1>6 DEF AgentInv
  <1> QED
    BY <1>1, <1>2, <1>7, <1>8, AgentAlone

LEMMA WriteIdInv == ASSUME CertInv, WriteId PROVE CertInv'
  <1>1. AgentInv /\ agent \in AgentType /\ faults \in Nat /\ CertTypeOK
    BY DEF CertInv, CertTypeOK
  <1>2. /\ UNCHANGED serverSide /\ UNCHANGED <<certTime, faults>> /\ UNCHANGED signed /\ agent.pc = "did"
        /\ agent' = [agent EXCEPT !.files.did = signed[agent.got].dev, !.pc = "down"]
    BY DEF WriteId, serverSide
  <1>3. agent.got \in DOMAIN signed /\ signed[agent.got].dev = "dev1" /\ agent.got # 0
    <2>1. agent.got \in DOMAIN signed
      BY <1>1, <1>2 DEF AgentInv
    <2>2. signed[agent.got].dev = "dev1"
      BY <1>1, <2>1 DEF CertTypeOK
    <2> QED
      BY <1>1, <2>1, <2>2, SignedKeys
  <1>4. agent'.pc = "down" /\ agent'.held = agent.held /\ agent'.files = [agent.files EXCEPT !.did = "dev1"]
    BY <1>1, <1>2, <1>3 DEF AgentType
  <1>5. agent'.files.key = agent.files.key /\ agent'.files.crt = agent.files.crt /\ agent'.files.did = "dev1"
    BY <1>1, <1>4 DEF AgentType, FilesType
  <1>6. agent' \in AgentType
    BY <1>1, <1>2, <1>3 DEF AgentType, FilesType, AgentPcs
  <1>7. AgentInv'
    BY <1>1, <1>2, <1>3, <1>4, <1>5 DEF AgentInv
  <1> QED
    BY <1>1, <1>2, <1>6, <1>7, AgentAlone

LEMMA AgentCrashInv == ASSUME CertInv, AgentCrash PROVE CertInv'
  <1>1. AgentInv /\ agent \in AgentType /\ faults \in Nat
    BY DEF CertInv, CertTypeOK
  <1>2. /\ UNCHANGED serverSide /\ UNCHANGED certTime /\ UNCHANGED signed /\ faults' = faults + 1
        /\ agent' = [agent EXCEPT !.pc = "down", !.held = 0]
    BY DEF AgentCrash, Fault, serverSide
  <1>3. agent'.pc = "down" /\ agent'.held = 0 /\ agent'.files = agent.files
    BY <1>1, <1>2 DEF AgentType
  <1>4. agent' \in AgentType
    BY <1>1, <1>2 DEF AgentType, AgentPcs
  <1>5. faults' > 0 /\ faults' \in Nat
    BY <1>1, <1>2
  <1>6. AgentInv'
    BY <1>1, <1>2, <1>3, <1>5 DEF AgentInv
  <1> QED
    BY <1>2, <1>4, <1>5, <1>6, AgentAlone

-----------------------------------------------------------------------------
(* Requests begin *)

\* A request with a new key that has paid for nothing and checked nothing.
LEMMA RequestBegins ==
    ASSUME CertInv, NEW c \in CallType, NewKey <= MaxCerts, calls' = Store!Put(calls, NewKey, c),
           UNCHANGED <<certdb, signed, serving, certTime, faults, buys, cut>>, agent' \in AgentType, AgentInv',
           \/ c.op = "enroll" /\ c.pc = "token" /\ c.token \in Tokens
           \/ c.op = "renew" /\ c.pc = "check" /\ c.dev = "dev1"
    PROVE  CertInv'
  <1>1. CertTypeOK
    BY DEF CertInv
  <1>2. NewKey \in 1 .. MaxCerts /\ NewKey \notin DOMAIN calls
    BY <1>1, NewKeyIsNew, CertAssumption
  <1>3. /\ DOMAIN calls' = DOMAIN calls \cup {NewKey} /\ calls'[NewKey] = c
        /\ \A k \in DOMAIN calls : k # NewKey /\ calls'[k] = calls[k]
    BY <1>2 DEF Store!Put
  <1>4. CertTypeOK'
    <2>1. \A k \in DOMAIN calls' : calls'[k] \in CallType
      BY <1>1, <1>3 DEF CertTypeOK
    <2>2. calls' = [k \in DOMAIN calls' |-> calls'[k]]
      BY DEF Store!Put
    <2>3. calls' \in [DOMAIN calls' -> CallType] /\ DOMAIN calls' \subseteq 1 .. MaxCerts
      BY <1>1, <1>2, <1>3, <2>1, <2>2 DEF CertTypeOK
    <2> QED
      BY <1>1, <2>3 DEF CertTypeOK
  <1>5. CallInv'
    BY <1>3 DEF CertInv, CallInv
  <1>6. BuysInv'
    <2> SUFFICES ASSUME NEW t \in Tokens PROVE TokenInv(t)'
      BY DEF BuysInv
    <2>1. \A k \in DOMAIN calls' : Buying(k, t)' => k \in DOMAIN calls /\ Buying(k, t)
      BY <1>3 DEF Buying
    <2>2. TokenInv(t)
      BY DEF CertInv, BuysInv
    <2> QED
      BY <1>3, <2>1, <2>2 DEF TokenInv
  <1>7. CutInv'
    BY <1>3 DEF CertInv, CutInv
  <1> QED
    BY <1>4, <1>5, <1>6, <1>7 DEF CertInv

LEMMA EnsureEnrolledInv == ASSUME CertInv, ensureEnrolled PROVE CertInv'
  <1> DEFINE c == [op |-> "enroll", pc |-> "token", token |-> agent.token, dev |-> "", tenant |-> ""]
  <1>1. AgentInv /\ agent \in AgentType /\ CertTypeOK
    BY DEF CertInv, CertTypeOK
  <1>2. /\ agent.pc = "down" /\ ~loadIdentity /\ NewKey <= MaxCerts /\ agent' = [agent EXCEPT !.pc = "enrolling", !.key = NewKey]
        /\ calls' = Store!Put(calls, NewKey, c) /\ UNCHANGED <<certdb, signed, serving, certTime, faults, buys, cut>>
    BY DEF ensureEnrolled
  <1>3. NewKey \in Nat
    BY <1>1, NewKeyIsNew
  <1>4. agent'.pc = "enrolling" /\ agent'.held = agent.held /\ agent'.files = agent.files /\ agent'.got = agent.got
    BY <1>1, <1>2 DEF AgentType
  <1>5. agent' \in AgentType
    BY <1>1, <1>2, <1>3 DEF AgentType, AgentPcs
  <1>6. agent.files.did = ""
    BY <1>1, <1>2 DEF AgentInv, loadIdentity
  <1>7. AgentInv'
    BY <1>1, <1>2, <1>4, <1>6 DEF AgentInv
  <1>8. c \in CallType /\ c.op = "enroll" /\ c.pc = "token" /\ c.token \in Tokens
    BY <1>1 DEF CallType, CallPcs, AgentType
  <1> HIDE DEF c
  <1> QED
    BY <1>2, <1>5, <1>7, <1>8, RequestBegins

LEMMA RunCertRenewalInv == ASSUME CertInv, runCertRenewal PROVE CertInv'
  <1> DEFINE c == [op |-> "renew", pc |-> "check", token |-> "", dev |-> signed[agent.held].dev, tenant |-> ""]
  <1>1. AgentInv /\ agent \in AgentType /\ CertTypeOK
    BY DEF CertInv, CertTypeOK
  <1>2. /\ agent.pc = "running" /\ NewKey <= MaxCerts /\ agent' = [agent EXCEPT !.pc = "renewing", !.key = NewKey]
        /\ calls' = Store!Put(calls, NewKey, c) /\ UNCHANGED <<certdb, signed, serving, certTime, faults, buys, cut>>
    BY DEF runCertRenewal
  <1>3. agent.held \in DOMAIN signed /\ agent.files.crt \in DOMAIN signed /\ agent.files.key = agent.files.crt
        /\ agent.files.did # ""
    BY <1>1, <1>2 DEF AgentInv
  <1>4. NewKey \in Nat /\ NewKey > agent.files.key
    <2>1. agent.files.key < NewKey /\ NewKey \in Nat
      BY <1>1, <1>3, NewKeyIsNew
    <2> QED
      BY <2>1, <1>1, <1>3, SignedKeys
  <1>5. /\ agent'.pc = "renewing" /\ agent'.held = agent.held /\ agent'.files = agent.files /\ agent'.got = agent.got
        /\ agent'.key = NewKey
    BY <1>1, <1>2 DEF AgentType
  <1>6. agent' \in AgentType
    BY <1>1, <1>2, <1>4 DEF AgentType, AgentPcs
  <1>7. AgentInv'
    BY <1>1, <1>2, <1>3, <1>4, <1>5 DEF AgentInv
  <1>8. signed[agent.held].dev = "dev1"
    BY <1>1, <1>3 DEF CertTypeOK
  <1>9. c \in CallType /\ c.op = "renew" /\ c.pc = "check" /\ c.dev = "dev1"
    BY <1>8 DEF CallType, CallPcs
  <1> HIDE DEF c
  <1> QED
    BY <1>2, <1>6, <1>7, <1>9, RequestBegins
-----------------------------------------------------------------------------
(* Requests at work *)

\* A request of the server is always well formed and, if it enrols, has a token.
LEMMA RequestIs ==
    ASSUME CertInv, NEW k \in DOMAIN calls
    PROVE  /\ calls[k] \in CallType /\ k \in Nat \ {0} /\ k <= MaxCerts /\ calls = [x \in DOMAIN calls |-> calls[x]]
           /\ calls[k].op = "enroll" => calls[k].token \in Tokens /\ calls[k].pc # "check"
           /\ calls[k].op = "renew" => calls[k].dev = "dev1" /\ calls[k].pc \notin {"token", "device"}
           /\ calls[k].pc = "sign" => calls[k].dev = "dev1"
  <1>1. CertTypeOK /\ CallInv
    BY DEF CertInv
  <1>2. DOMAIN calls \subseteq 1 .. MaxCerts /\ calls \in [DOMAIN calls -> CallType]
    BY <1>1 DEF CertTypeOK
  <1> QED
    BY <1>1, <1>2, CertAssumption DEF CallInv

\* A request is refused and its server and agent go on as before.
LEMMA RequestRefused ==
    ASSUME CertInv, NEW k \in DOMAIN calls, calls' = [calls EXCEPT ![k] = [@ EXCEPT !.pc = "refused"]],
           UNCHANGED <<certdb, signed, buys, cut, certTime, serving, agent>>, faults' \in Nat, faults' >= faults
    PROVE  CertInv'
  <1>1. CertTypeOK /\ AgentInv /\ calls[k] \in CallType
    BY RequestIs DEF CertInv
  <1>2. [calls[k] EXCEPT !.pc = "refused"] \in CallType
    BY <1>1 DEF CallType, CallPcs
  <1>3. calls' \in [DOMAIN calls' -> CallType] /\ DOMAIN calls' = DOMAIN calls
    BY <1>1, <1>2 DEF CertTypeOK
  <1>4. \A l \in DOMAIN calls' : calls'[l] = calls[l] \/ calls'[l] = [calls[l] EXCEPT !.pc = "refused"]
    BY <1>3
  <1>5. serving' \in BOOLEAN /\ agent' \in AgentType /\ (faults > 0 => faults' > 0)
    BY <1>1 DEF CertTypeOK
  <1>6. AgentInv'
    BY <1>1, <1>5, AgentWaits
  <1> QED
    BY <1>3, <1>4, <1>5, <1>6, RequestsEnd

LEMMA EnrollInv == ASSUME CertInv, NEW k \in DOMAIN calls, Enroll(k) PROVE CertInv'
  <1> DEFINE c == calls[k]
             t == c.token
             r == Store!ConsumeEnrollmentToken(certdb, t)
             u == Store!UpsertEnrollingDevice(certdb, "", "dev1", Mac, c.tenant)
  <1>1. CertTypeOK /\ CallInv /\ AgentInv /\ BuysInv /\ CutInv
    BY DEF CertInv
  <1>2. /\ c \in CallType /\ c.op = "enroll" /\ t \in Tokens /\ calls = [x \in DOMAIN calls |-> calls[x]]
        /\ UNCHANGED <<signed, cache, serving, agent, certTime, faults, buys, cut>>
    BY RequestIs DEF Enroll
  <1>3. faults \in Nat
    BY <1>1 DEF CertTypeOK
  <1>4. AgentInv'
    BY <1>1, <1>2, AgentWaits
  <1>5. CASE c.pc = "token" /\ certdb.tok[t].used
    <2>1. r.r = "invalid token" /\ r.s = certdb
      BY <1>1, <1>2, <1>5, ConsumeGives
    <2>2. certdb' = certdb /\ calls' = [calls EXCEPT ![k] = [@ EXCEPT !.pc = "refused"]]
      BY <1>5, <2>1 DEF Enroll
    <2>3. UNCHANGED <<certdb, signed, buys, cut, certTime, serving, agent>> /\ faults' \in Nat /\ faults' >= faults
      BY <1>2, <1>3, <2>2
    <2> HIDE DEF c, t, r, u
    <2> QED
      BY <2>2, <2>3, RequestRefused
  <1>6. CASE c.pc = "token" /\ ~certdb.tok[t].used
    <2>1. /\ r.r = "acme" /\ r.s.tok = [certdb.tok EXCEPT ![t].used = TRUE]
          /\ r.s.dev = certdb.dev /\ r.s.cert = certdb.cert /\ {"tok", "dev", "cert"} \subseteq DOMAIN r.s
      BY <1>1, <1>2, <1>6, ConsumeGives
    <2>2. certdb' = r.s /\ calls' = [calls EXCEPT ![k] = [@ EXCEPT !.pc = "device", !.tenant = "acme"]]
      BY <1>6, <2>1 DEF Enroll
    <2> DEFINE d == [c EXCEPT !.pc = "device", !.tenant = "acme"]
    <2>3. d \in CallType /\ d.op = "enroll" /\ d.token = t /\ d.pc = "device"
      BY <1>2 DEF CallType, CallPcs
    <2>4. calls' = [x \in DOMAIN calls |-> IF x = k THEN d ELSE calls[x]]
      BY <1>2, <2>2
    <2> HIDE DEF d, r, u
    <2>5. CertTypeOK'
      <3> DEFINE T == [by : {"root"}, tenant : {"acme"}, used : BOOLEAN, expired : {FALSE}]
      <3>1. certdb.tok \in [Tokens -> T] /\ certdb.tok[t] \in T
        BY <1>1, <1>2 DEF CertTypeOK
      <3>2. certdb'.tok \in [Tokens -> T]
        <4>1. [certdb.tok[t] EXCEPT !.used = TRUE] \in T
          BY <3>1
        <4>2. certdb'.tok = [certdb.tok EXCEPT ![t] = [certdb.tok[t] EXCEPT !.used = TRUE]]
          BY <2>1, <2>2
        <4> HIDE DEF T, t
        <4> QED
          BY <3>1, <4>1, <4>2
      <3>3. calls' \in [DOMAIN calls' -> CallType] /\ DOMAIN calls' = DOMAIN calls
        BY <1>1, <2>3, <2>4 DEF CertTypeOK
      <3> QED
        BY <1>1, <1>2, <2>1, <2>2, <3>2, <3>3 DEF CertTypeOK
    <2>6. CallInv'
      BY <1>1, <1>2, <2>3, <2>4 DEF CallInv
    <2>7. BuysInv'
      <3> SUFFICES ASSUME NEW s \in Tokens PROVE TokenInv(s)'
        BY DEF BuysInv
      <3>1. TokenInv(s) /\ buys'[s] = buys[s] /\ DOMAIN calls' = DOMAIN calls
        BY <1>1, <1>2, <2>4 DEF BuysInv
      <3>2. CASE s = t
        <4>1. certdb'.tok[s].used
          <5>1. certdb.tok[s] \in [by : {"root"}, tenant : {"acme"}, used : BOOLEAN, expired : {FALSE}] /\ s \in DOMAIN certdb.tok
            BY <1>1 DEF CertTypeOK
          <5> QED
            BY <2>1, <2>2, <3>2, <5>1
        <4>2. buys[s] = {} /\ \A l \in DOMAIN calls : ~Buying(l, s)
          BY <1>6, <3>1, <3>2 DEF TokenInv
        <4>3. \A l \in DOMAIN calls : Buying(l, s)' => l = k
          BY <2>4, <4>2 DEF Buying
        <4> QED
          BY <3>1, <4>1, <4>2, <4>3 DEF TokenInv
      <3>3. CASE s # t
        <4>1. certdb'.tok[s] = certdb.tok[s]
          BY <1>1, <1>2, <2>1, <2>2, <3>3 DEF CertTypeOK
        <4>2. \A l \in DOMAIN calls : Buying(l, s)' <=> Buying(l, s)
          BY <1>6, <2>3, <2>4, <3>3 DEF Buying
        <4> QED
          BY <3>1, <4>1, <4>2 DEF TokenInv
      <3> QED
        BY <3>2, <3>3
    <2>8. CutInv'
      BY <1>1, <1>2, <2>1, <2>2, <2>3, <2>4 DEF CutInv
    <2> QED
      BY <1>4, <2>5, <2>6, <2>7, <2>8 DEF CertInv
  <1>7. CASE c.pc = "device"
    <2>1. /\ u.r = "dev1" /\ u.s.tok = certdb.tok /\ u.s.cert = certdb.cert
          /\ {"tok", "dev", "cert"} \subseteq DOMAIN u.s /\ DOMAIN u.s.dev \subseteq {"dev1"}
      BY <1>1, UpsertGives
    <2>2. certdb' = u.s /\ calls' = [calls EXCEPT ![k].pc = "sign", ![k].dev = "dev1"]
      BY <1>7, <2>1 DEF Enroll
    <2> DEFINE d == [c EXCEPT !.pc = "sign", !.dev = "dev1"]
    <2>3. d \in CallType /\ d.op = "enroll" /\ d.token = t /\ d.pc = "sign" /\ d.dev = "dev1"
      BY <1>2 DEF CallType, CallPcs
    <2>4. calls' = [x \in DOMAIN calls |-> IF x = k THEN d ELSE calls[x]]
      BY <1>2, <2>2
    <2> HIDE DEF d, r, u
    <2>5. CertTypeOK'
      <3>1. calls' \in [DOMAIN calls' -> CallType] /\ DOMAIN calls' = DOMAIN calls
        BY <1>1, <2>3, <2>4 DEF CertTypeOK
      <3> QED
        BY <1>1, <1>2, <2>1, <2>2, <3>1 DEF CertTypeOK
    <2>6. CallInv'
      BY <1>1, <1>2, <2>3, <2>4 DEF CallInv
    <2>7. BuysInv'
      <3> SUFFICES ASSUME NEW s \in Tokens PROVE TokenInv(s)'
        BY DEF BuysInv
      <3>1. TokenInv(s) /\ buys'[s] = buys[s] /\ DOMAIN calls' = DOMAIN calls /\ certdb'.tok = certdb.tok
        BY <1>1, <1>2, <2>1, <2>2, <2>4 DEF BuysInv
      <3>2. \A l \in DOMAIN calls : Buying(l, s)' <=> Buying(l, s)
        BY <1>2, <1>7, <2>3, <2>4 DEF Buying
      <3> QED
        BY <3>1, <3>2 DEF TokenInv
    <2>8. CutInv'
      BY <1>1, <1>2, <2>1, <2>2, <2>3, <2>4 DEF CutInv
    <2> QED
      BY <1>4, <2>5, <2>6, <2>7, <2>8 DEF CertInv
  <1> QED
    BY <1>5, <1>6, <1>7 DEF Enroll
LEMMA RenewInv == ASSUME CertInv, NEW k \in DOMAIN calls, Renew(k) PROVE CertInv'
  <1>1. CertTypeOK /\ CallInv /\ AgentInv /\ BuysInv /\ CutInv
    BY DEF CertInv
  <1>2. /\ calls[k] \in CallType /\ calls[k].op = "renew" /\ calls[k].pc = "check" /\ calls[k].dev = "dev1"
        /\ UNCHANGED <<certdb, signed, cache, serving, agent, certTime, faults, buys, cut>>
        /\ calls = [x \in DOMAIN calls |-> calls[x]]
    BY RequestIs DEF Renew
  <1>3. faults \in Nat
    BY <1>1 DEF CertTypeOK
  <1>4. CASE Store!DeviceHasActiveCert(certdb, "dev1")
    <2> DEFINE d == [calls[k] EXCEPT !.pc = "sign"]
    <2>1. calls' = [calls EXCEPT ![k].pc = "sign"]
      BY <1>2, <1>4 DEF Renew, Goto
    <2>2. d \in CallType /\ d.op = "renew" /\ d.pc = "sign" /\ d.dev = "dev1"
      BY <1>2 DEF CallType, CallPcs
    <2>3. calls' = [x \in DOMAIN calls |-> IF x = k THEN d ELSE calls[x]]
      BY <1>2, <2>1
    <2>4. ~cut
      <3>1. \E l \in DOMAIN certdb.cert : ~certdb.cert[l].revoked
        BY <1>4 DEF Store!DeviceHasActiveCert
      <3> QED
        BY <1>1, <3>1 DEF CutInv
    <2> HIDE DEF d
    <2>5. CertTypeOK'
      <3>1. calls' \in [DOMAIN calls' -> CallType] /\ DOMAIN calls' = DOMAIN calls
        BY <1>1, <2>2, <2>3 DEF CertTypeOK
      <3> QED
        BY <1>1, <1>2, <3>1 DEF CertTypeOK
    <2>6. CallInv'
      BY <1>1, <1>2, <2>2, <2>3 DEF CallInv
    <2>7. BuysInv'
      <3> SUFFICES ASSUME NEW s \in Tokens PROVE TokenInv(s)'
        BY DEF BuysInv
      <3>1. TokenInv(s) /\ buys'[s] = buys[s] /\ DOMAIN calls' = DOMAIN calls /\ certdb' = certdb
        BY <1>1, <1>2, <2>3 DEF BuysInv
      <3>2. \A l \in DOMAIN calls : Buying(l, s)' <=> Buying(l, s)
        BY <1>2, <2>2, <2>3 DEF Buying
      <3> QED
        BY <3>1, <3>2 DEF TokenInv
    <2>8. CutInv'
      BY <1>2, <2>4 DEF CutInv
    <2>9. AgentInv'
      BY <1>1, <1>2, AgentWaits
    <2> QED
      BY <2>5, <2>6, <2>7, <2>8, <2>9 DEF CertInv
  <1>5. CASE ~Store!DeviceHasActiveCert(certdb, "dev1")
    <2>1. calls' = [calls EXCEPT ![k] = [@ EXCEPT !.pc = "refused"]]
      BY <1>2, <1>5 DEF Renew, Goto
    <2>2. UNCHANGED <<certdb, signed, buys, cut, certTime, serving, agent>> /\ faults' \in Nat /\ faults' >= faults
      BY <1>2, <1>3
    <2> QED
      BY <2>1, <2>2, RequestRefused
  <1> QED
    BY <1>4, <1>5

LEMMA SaveCertificateInv == ASSUME CertInv, NEW k \in DOMAIN calls, SaveCertificate(k) PROVE CertInv'
  <1> DEFINE c == calls[k]
             r == Store!SaveCertificate(certdb, k, "dev1").s
             d == [c EXCEPT !.pc = "answer"]
             w == [dev |-> "dev1", from |-> certTime, to |-> certTime + CertTTL]
  <1>1. CertTypeOK /\ CallInv /\ AgentInv /\ BuysInv /\ CutInv
    BY DEF CertInv
  <1>2. /\ c \in CallType /\ c.pc = "sign" /\ c.dev = "dev1" /\ calls = [x \in DOMAIN calls |-> calls[x]]
        /\ c.op = "enroll" => c.token \in Tokens
        /\ k \in 1 .. MaxCerts
    BY RequestIs, CertAssumption DEF SaveCertificate
  <1>3. /\ certdb' = r /\ calls' = [calls EXCEPT ![k].pc = "answer"] /\ signed' = Store!Put(signed, k, w)
        /\ buys' = IF c.op = "enroll" THEN [buys EXCEPT ![c.token] = @ \cup {k}] ELSE buys
        /\ cut' = (cut /\ c.op = "renew") /\ UNCHANGED <<cache, serving, agent, certTime, faults>>
    BY <1>2 DEF SaveCertificate, Goto
  <1>4. /\ r.tok = certdb.tok /\ r.dev = certdb.dev /\ {"tok", "dev", "cert"} \subseteq DOMAIN r
        /\ r.cert = [x \in DOMAIN signed \cup {k} |-> IF x = k THEN [dev |-> "dev1", revoked |-> FALSE] ELSE certdb.cert[x]]
    BY <1>1, SaveGives
  <1>5. d \in CallType /\ d.op = c.op /\ d.token = c.token /\ d.pc = "answer" /\ d.dev = "dev1"
    BY <1>2 DEF CallType, CallPcs
  <1>6. calls' = [x \in DOMAIN calls |-> IF x = k THEN d ELSE calls[x]]
    BY <1>2, <1>3
  <1>7. signed' = [x \in DOMAIN signed \cup {k} |-> IF x = k THEN w ELSE signed[x]]
    BY <1>3 DEF Store!Put
  <1>8. w \in [dev : {"dev1"}, from : Nat, to : Nat]
    BY <1>1, CertAssumption DEF CertTypeOK
  <1>9. ~cut'
    BY <1>1, <1>2, <1>3 DEF CutInv, CallType
  <1> HIDE DEF r, d, w
  <1>10. CertTypeOK'
    <2>1. calls' \in [DOMAIN calls' -> CallType] /\ DOMAIN calls' = DOMAIN calls
      BY <1>1, <1>5, <1>6 DEF CertTypeOK
    <2>2. signed' \in [DOMAIN signed' -> [dev : {"dev1"}, from : Nat, to : Nat]] /\ DOMAIN signed' = DOMAIN signed \cup {k}
      BY <1>1, <1>7, <1>8 DEF CertTypeOK
    <2>3. certdb'.cert \in [DOMAIN signed' -> [dev : {"dev1"}, revoked : BOOLEAN]]
      <3>1. certdb.cert \in [DOMAIN signed -> [dev : {"dev1"}, revoked : BOOLEAN]]
        BY <1>1 DEF CertTypeOK
      <3> QED
        BY <1>3, <1>4, <2>2, <3>1
    <2>4. buys' \in [Tokens -> SUBSET Nat]
      <3>1. buys \in [Tokens -> SUBSET Nat] /\ k \in Nat
        BY <1>1, <1>2, CertAssumption DEF CertTypeOK
      <3> QED
        BY <1>2, <1>3, <3>1
    <2>5. DOMAIN signed' \subseteq 1 .. MaxCerts /\ DOMAIN calls' \subseteq 1 .. MaxCerts
      BY <1>1, <1>2, <2>1, <2>2 DEF CertTypeOK
    <2> QED
      BY <1>1, <1>3, <1>4, <1>9, <2>1, <2>2, <2>3, <2>4, <2>5 DEF CertTypeOK
  <1>11. CallInv'
    <2>1. k \in DOMAIN signed' /\ DOMAIN signed \subseteq DOMAIN signed'
      BY <1>7
    <2> QED
      BY <1>1, <1>2, <1>5, <1>6, <2>1 DEF CallInv
  <1>12. BuysInv'
    <2> SUFFICES ASSUME NEW s \in Tokens PROVE TokenInv(s)'
      BY DEF BuysInv
    <2>1. TokenInv(s) /\ DOMAIN calls' = DOMAIN calls /\ certdb'.tok = certdb.tok
      BY <1>1, <1>3, <1>4, <1>6 DEF BuysInv
    <2>2. CASE Buying(k, s)
      <3>1. buys[s] = {} /\ certdb.tok[s].used /\ \A l \in DOMAIN calls : Buying(l, s) => l = k
        BY <2>1, <2>2 DEF TokenInv
      <3>2. buys'[s] = {k}
        BY <1>1, <1>3, <2>2, <3>1 DEF CertTypeOK, Buying
      <3>3. \A l \in DOMAIN calls : ~Buying(l, s)'
        BY <1>5, <1>6, <3>1 DEF Buying
      <3>4. k \in Nat
        BY <1>2, CertAssumption
      <3> QED
        BY <2>1, <3>1, <3>2, <3>3, <3>4 DEF TokenInv
    <2>3. CASE ~Buying(k, s)
      <3>1. buys'[s] = buys[s]
        BY <1>1, <1>2, <1>3, <2>3 DEF CertTypeOK, Buying
      <3>2. \A l \in DOMAIN calls : Buying(l, s)' => Buying(l, s)
        BY <1>5, <1>6 DEF Buying
      <3> QED
        BY <2>1, <3>1, <3>2 DEF TokenInv
    <2> QED
      BY <2>2, <2>3
  <1>13. CutInv'
    BY <1>9 DEF CutInv
  <1>14. AgentInv'
    <2>1. DOMAIN signed \subseteq DOMAIN signed'
      BY <1>7
    <2> QED
      BY <1>1, <1>3, <2>1, AgentWaits
  <1> QED
    BY <1>10, <1>11, <1>12, <1>13, <1>14 DEF CertInv

LEMMA StoreFailsInv == ASSUME CertInv, NEW k \in DOMAIN calls, StoreFails(k) PROVE CertInv'
  <1>1. faults \in Nat
    BY DEF CertInv, CertTypeOK
  <1>2. calls' = [calls EXCEPT ![k] = [@ EXCEPT !.pc = "refused"]]
    BY DEF StoreFails, Goto
  <1>3. UNCHANGED <<certdb, signed, buys, cut, certTime, serving, agent>> /\ faults' \in Nat /\ faults' >= faults
    BY <1>1 DEF StoreFails, Fault
  <1> QED
    BY <1>2, <1>3, RequestRefused

-----------------------------------------------------------------------------
(* Answers and restarts *)

\* An agent that waits gets a certificate that was signed for its key, or goes back to what it was.
LEMMA AgentHears ==
    ASSUME CertInv, UNCHANGED signed, faults > 0 => faults' > 0,
           \/ agent' = agent
           \/ agent.pc = "enrolling" /\ agent' = [agent EXCEPT !.pc = "down"]
           \/ agent.pc = "renewing" /\ agent' = [agent EXCEPT !.pc = "running"]
           \/ /\ agent.pc = "enrolling" /\ agent.key \in DOMAIN signed
              /\ agent' = [agent EXCEPT !.pc = "key first", !.got = agent.key]
           \/ /\ agent.pc = "renewing" /\ agent.key \in DOMAIN signed
              /\ agent' = [agent EXCEPT !.pc = "crt first", !.got = agent.key, !.held = agent.key]
    PROVE  agent' \in AgentType /\ AgentInv'
  <1>1. AgentInv /\ agent \in AgentType /\ CertTypeOK
    BY DEF CertInv, CertTypeOK
  <1>2. CASE agent' = agent
    BY <1>1, <1>2, AgentWaits
  <1>3. CASE agent.pc = "enrolling" /\ agent' = [agent EXCEPT !.pc = "down"]
    <2>1. agent'.pc = "down" /\ agent'.held = agent.held /\ agent'.files = agent.files
      BY <1>1, <1>3 DEF AgentType
    <2>2. agent' \in AgentType
      BY <1>1, <1>3 DEF AgentType, AgentPcs
    <2>3. AgentInv'
      BY <1>1, <1>3, <2>1 DEF AgentInv
    <2> QED
      BY <2>2, <2>3
  <1>4. CASE agent.pc = "renewing" /\ agent' = [agent EXCEPT !.pc = "running"]
    <2>1. agent'.pc = "running" /\ agent'.held = agent.held /\ agent'.files = agent.files
      BY <1>1, <1>4 DEF AgentType
    <2>2. agent' \in AgentType
      BY <1>1, <1>4 DEF AgentType, AgentPcs
    <2>3. AgentInv'
      BY <1>1, <1>4, <2>1 DEF AgentInv
    <2> QED
      BY <2>2, <2>3
  <1>5. CASE /\ agent.pc = "enrolling" /\ agent.key \in DOMAIN signed
             /\ agent' = [agent EXCEPT !.pc = "key first", !.got = agent.key]
    <2>1. agent'.pc = "key first" /\ agent'.held = agent.held /\ agent'.files = agent.files
          /\ agent'.key = agent.key /\ agent'.got = agent.key
      BY <1>1, <1>5 DEF AgentType
    <2>2. agent' \in AgentType
      BY <1>1, <1>5 DEF AgentType, AgentPcs
    <2>3. AgentInv'
      BY <1>1, <1>5, <2>1 DEF AgentInv
    <2> QED
      BY <2>2, <2>3
  <1>6. CASE /\ agent.pc = "renewing" /\ agent.key \in DOMAIN signed
             /\ agent' = [agent EXCEPT !.pc = "crt first", !.got = agent.key, !.held = agent.key]
    <2>1. agent'.pc = "crt first" /\ agent'.held = agent.key /\ agent'.files = agent.files
          /\ agent'.key = agent.key /\ agent'.got = agent.key
      BY <1>1, <1>6 DEF AgentType
    <2>2. agent' \in AgentType
      BY <1>1, <1>6 DEF AgentType, AgentPcs
    <2>3. agent.key # 0
      BY <1>1, <1>6, SignedKeys
    <2>4. AgentInv'
      BY <1>1, <1>6, <2>1, <2>3 DEF AgentInv
    <2> QED
      BY <2>2, <2>4
  <1> QED
    BY <1>2, <1>3, <1>4, <1>5, <1>6

\* A request that is answered is gone, the others stay.
LEMMA RequestDropped ==
    ASSUME CertInv, NEW k \in DOMAIN calls, calls' = Drop(calls, k),
           UNCHANGED <<certdb, signed, buys, cut, certTime, serving>>, faults' \in Nat, agent' \in AgentType, AgentInv'
    PROVE  CertInv'
  <1>1. /\ DOMAIN calls' \subseteq DOMAIN calls /\ calls' = [x \in DOMAIN calls' |-> calls[x]]
        /\ \A l \in DOMAIN calls' : calls'[l] = calls[l]
    BY DEF Drop
  <1>2. \A l \in DOMAIN calls : calls[l] \in CallType
    BY RequestIs
  <1>3. calls' \in [DOMAIN calls' -> CallType]
    BY <1>1, <1>2
  <1>4. serving' \in BOOLEAN
    BY DEF CertInv, CertTypeOK
  <1> QED
    BY <1>1, <1>3, <1>4, RequestsEnd
LEMMA AnswerInv == ASSUME CertInv, NEW k \in DOMAIN calls, Answer(k) PROVE CertInv'
  <1>1. /\ calls' = Drop(calls, k) /\ UNCHANGED <<certdb, signed, buys, cut, certTime, serving>> /\ UNCHANGED signed
        /\ faults' = faults /\ faults \in Nat
    BY DEF Answer, CertInv, CertTypeOK
  <1>2. calls[k].pc = "answer" => k \in DOMAIN signed
    BY DEF CertInv, CallInv
  <1>3. \/ agent' = agent
        \/ agent.pc = "enrolling" /\ agent' = [agent EXCEPT !.pc = "down"]
        \/ agent.pc = "renewing" /\ agent' = [agent EXCEPT !.pc = "running"]
        \/ /\ agent.pc = "enrolling" /\ agent.key \in DOMAIN signed
           /\ agent' = [agent EXCEPT !.pc = "key first", !.got = agent.key]
        \/ /\ agent.pc = "renewing" /\ agent.key \in DOMAIN signed
           /\ agent' = [agent EXCEPT !.pc = "crt first", !.got = agent.key, !.held = agent.key]
    <2>1. CASE ~(agent.pc \in {"enrolling", "renewing"} /\ agent.key = k)
      BY <2>1 DEF Answer
    <2>2. CASE agent.pc = "enrolling" /\ agent.key = k
      BY <1>2, <2>2 DEF Answer
    <2>3. CASE agent.pc = "renewing" /\ agent.key = k
      BY <1>2, <2>3 DEF Answer
    <2> QED
      BY <2>1, <2>2, <2>3
  <1>4. agent' \in AgentType /\ AgentInv'
    BY <1>1, <1>3, AgentHears
  <1> QED
    BY <1>1, <1>4, RequestDropped

LEMMA AnswerLostInv == ASSUME CertInv, NEW k \in DOMAIN calls, AnswerLost(k) PROVE CertInv'
  <1>1. /\ calls' = Drop(calls, k) /\ UNCHANGED <<certdb, signed, buys, cut, certTime, serving>> /\ UNCHANGED signed
        /\ faults' = faults + 1 /\ faults \in Nat
    BY DEF AnswerLost, Fault, CertInv, CertTypeOK
  <1>2. \/ agent' = agent
        \/ agent.pc = "enrolling" /\ agent' = [agent EXCEPT !.pc = "down"]
        \/ agent.pc = "renewing" /\ agent' = [agent EXCEPT !.pc = "running"]
    BY DEF AnswerLost
  <1>3. faults' \in Nat /\ (faults > 0 => faults' > 0)
    BY <1>1
  <1>4. agent' \in AgentType /\ AgentInv'
    BY <1>1, <1>2, <1>3, AgentHears
  <1> QED
    BY <1>1, <1>3, <1>4, RequestDropped

LEMMA ServerCrashInv == ASSUME CertInv, ServerCrash PROVE CertInv'
  <1>1. /\ calls' = <<>> /\ UNCHANGED <<certdb, signed, buys, cut, certTime>> /\ UNCHANGED signed
        /\ serving' = FALSE /\ faults' = faults + 1 /\ faults \in Nat
    BY DEF ServerCrash, Fault, CertInv, CertTypeOK
  <1>2. \/ agent' = agent
        \/ agent.pc = "enrolling" /\ agent' = [agent EXCEPT !.pc = "down"]
        \/ agent.pc = "renewing" /\ agent' = [agent EXCEPT !.pc = "running"]
    BY DEF ServerCrash
  <1>3. faults' \in Nat /\ (faults > 0 => faults' > 0)
    BY <1>1
  <1>4. agent' \in AgentType /\ AgentInv'
    BY <1>1, <1>2, <1>3, AgentHears
  <1>5. DOMAIN calls' = {} /\ calls' \in [DOMAIN calls' -> CallType]
    BY <1>1
  <1>6. serving' \in BOOLEAN /\ DOMAIN calls' \subseteq DOMAIN calls /\ \A k \in DOMAIN calls' : FALSE
    BY <1>1, <1>5
  <1> QED
    BY <1>1, <1>3, <1>4, <1>5, <1>6, RequestsEnd

LEMMA RevokeDeviceInv == ASSUME CertInv, RevokeDevice PROVE CertInv'
  <1> DEFINE r == Store!RevokeDeviceCerts(certdb, "dev1").s
  <1>1. CertTypeOK /\ CallInv /\ AgentInv /\ BuysInv /\ CutInv
    BY DEF CertInv
  <1>2. /\ certdb' = r /\ cut' = (cut \/ \A k \in DOMAIN calls : calls[k].pc \notin {"sign"})
        /\ UNCHANGED <<signed, cache, serving, calls, agent, certTime, faults, buys>>
    BY DEF RevokeDevice
  <1>3. /\ r.tok = certdb.tok /\ r.dev = certdb.dev /\ {"tok", "dev", "cert"} \subseteq DOMAIN r
        /\ r.cert = [x \in DOMAIN signed |-> [dev |-> "dev1", revoked |-> TRUE]]
    BY <1>1, RevokeGives
  <1> HIDE DEF r
  <1>4. CertTypeOK'
    <2>1. certdb'.cert \in [DOMAIN signed' -> [dev : {"dev1"}, revoked : BOOLEAN]]
      BY <1>2, <1>3
    <2>2. cut \in BOOLEAN /\ cut' \in BOOLEAN
      <3>1. cut \in BOOLEAN
        BY <1>1 DEF CertTypeOK
      <3>2. CASE \A k \in DOMAIN calls : calls[k].pc \notin {"sign"}
        BY <1>2, <3>1, <3>2
      <3>3. CASE ~ \A k \in DOMAIN calls : calls[k].pc \notin {"sign"}
        BY <1>2, <3>1, <3>3
      <3> QED
        BY <3>1, <3>2, <3>3
    <2> QED
      BY <1>1, <1>2, <1>3, <2>1, <2>2 DEF CertTypeOK
  <1>5. CallInv'
    BY <1>1, <1>2 DEF CallInv
  <1>6. BuysInv'
    BY <1>1, <1>2, <1>3 DEF BuysInv, TokenInv, Buying
  <1>7. CutInv'
    <2>1. \A k \in DOMAIN certdb'.cert : certdb'.cert[k].revoked
      BY <1>2, <1>3
    <2>2. cut' => \A k \in DOMAIN calls : calls[k].op = "renew" => calls[k].pc # "sign"
      BY <1>1, <1>2 DEF CutInv
    <2> QED
      BY <1>2, <2>1, <2>2 DEF CutInv
  <1>8. AgentInv'
    BY <1>1, <1>2, AgentWaits
  <1> QED
    BY <1>4, <1>5, <1>6, <1>7, <1>8 DEF CertInv

\* The list is read, time passes or nothing happens: what the invariant is about stays.
LEMMA ListAndClockInv ==
    ASSUME CertInv, UNCHANGED <<certdb, signed, calls, agent, faults, buys, cut>>, serving' \in BOOLEAN, certTime' \in Nat
    PROVE  CertInv'
  <1>1. CertTypeOK /\ CallInv /\ AgentInv /\ BuysInv /\ CutInv
    BY DEF CertInv
  <1>2. CertTypeOK'
    BY <1>1 DEF CertTypeOK
  <1>3. CallInv'
    BY <1>1 DEF CallInv
  <1>4. AgentInv'
    BY <1>1, AgentWaits
  <1>5. BuysInv'
    BY <1>1 DEF BuysInv, TokenInv, Buying
  <1>6. CutInv'
    BY <1>1 DEF CutInv
  <1> QED
    BY <1>2, <1>3, <1>4, <1>5, <1>6 DEF CertInv

-----------------------------------------------------------------------------
(* The invariant *)

\* The empty function is of any type.
LEMMA NothingYet == ASSUME NEW f, f = <<>>, NEW T PROVE f \in [DOMAIN f -> T]
  OBVIOUS

LEMMA CertInitInv == CertInit => CertInv
  <1> SUFFICES ASSUME CertInit PROVE CertInv
    OBVIOUS
  <1> DEFINE tok == [t \in Tokens |-> [by |-> "root", tenant |-> "acme", used |-> FALSE, expired |-> FALSE]]
             empty == Store!EmptyStore
  <1>1. /\ certdb = [empty EXCEPT !.tok = tok] /\ signed = <<>> /\ serving = FALSE /\ calls = <<>> /\ certTime = 0
        /\ faults = 0 /\ buys = [t \in Tokens |-> {}] /\ cut = FALSE
    BY DEF CertInit
  <1>2. /\ {"tok", "dev", "cert"} \subseteq DOMAIN empty /\ DOMAIN empty.dev = {}
        /\ empty.cert = [x \in DOMAIN empty.cert |-> empty.cert[x]] /\ DOMAIN empty.cert = {}
    BY DEF Store!EmptyStore, Store!Empty
  <1> HIDE DEF empty
  <1>3. certdb.tok = tok /\ certdb.dev = empty.dev /\ certdb.cert = empty.cert /\ {"tok", "dev", "cert"} \subseteq DOMAIN certdb
    BY <1>1, <1>2
  <1>4. DOMAIN certdb.dev = {} /\ DOMAIN signed = {} /\ DOMAIN calls = {} /\ DOMAIN certdb.cert = {}
    BY <1>1, <1>2, <1>3
  <1>5. PICK t \in Tokens, p \in {{"", "spki1"}, {""}, {"spki2"}} :
          agent = [pc |-> "down", token |-> t, pins |-> p, files |-> NoFiles, held |-> 0, from |-> 0, to |-> 0, key |-> 0, got |-> 0]
    BY DEF CertInit
  <1>6. agent \in AgentType
    <2>1. p \in SUBSET {"", "spki1", "spki2"} /\ NoFiles \in FilesType
      BY DEF NoFiles, FilesType
    <2> QED
      BY <1>5, <2>1 DEF AgentType, AgentPcs
  <1>7. AgentInv
    BY <1>5 DEF AgentInv, NoFiles
  <1>8. CertTypeOK
    <2>1. tok \in [Tokens -> [by : {"root"}, tenant : {"acme"}, used : BOOLEAN, expired : {FALSE}]]
      OBVIOUS
    <2>2. certdb.cert \in [DOMAIN signed -> [dev : {"dev1"}, revoked : BOOLEAN]]
      BY <1>2, <1>3, <1>4
    <2>3. signed \in [DOMAIN signed -> [dev : {"dev1"}, from : Nat, to : Nat]] /\ calls \in [DOMAIN calls -> CallType]
      <3>1. signed = <<>> /\ calls = <<>>
        BY <1>1
      <3> QED
        BY <3>1, NothingYet, Zenon
    <2>4. buys \in [Tokens -> SUBSET Nat]
      BY <1>1
    <2> HIDE DEF tok
    <2> QED
      BY <1>1, <1>3, <1>4, <1>6, <2>1, <2>2, <2>3, <2>4 DEF CertTypeOK
  <1>9. CallInv
    BY <1>4 DEF CallInv
  <1>10. BuysInv
    BY <1>1, <1>4 DEF BuysInv, TokenInv
  <1>11. CutInv
    BY <1>1 DEF CutInv
  <1> QED
    BY <1>7, <1>8, <1>9, <1>10, <1>11 DEF CertInv

LEMMA CertStep == CertInv /\ [CertNext]_certVars => CertInv'
  <1> SUFFICES ASSUME CertInv, [CertNext]_certVars PROVE CertInv'
    OBVIOUS
  <1>1. CASE AgentStart \/ WriteKey \/ WriteCrt \/ WriteId \/ AgentCrash
    BY <1>1, AgentStartInv, WriteKeyInv, WriteCrtInv, WriteIdInv, AgentCrashInv
  <1>2. CASE ensureEnrolled \/ runCertRenewal
    BY <1>2, EnsureEnrolledInv, RunCertRenewalInv
  <1>3. ASSUME NEW k \in DOMAIN calls,
               Enroll(k) \/ Renew(k) \/ SaveCertificate(k) \/ StoreFails(k) \/ Answer(k) \/ AnswerLost(k)
        PROVE  CertInv'
    BY <1>3, EnrollInv, RenewInv, SaveCertificateInv, StoreFailsInv, AnswerInv, AnswerLostInv
  <1>4. CASE RevokeDevice \/ ServerCrash
    BY <1>4, RevokeDeviceInv, ServerCrashInv
  <1>5. CASE Run \/ Prime \/ CertTick \/ UNCHANGED certVars
    <2>1. certTime \in Nat /\ serving \in BOOLEAN
      BY DEF CertInv, CertTypeOK
    <2>2. UNCHANGED <<certdb, signed, calls, agent, faults, buys, cut>>
      BY <1>5 DEF Run, Prime, CertTick, serverSide, certVars
    <2>3. serving' \in {serving, TRUE} /\ certTime' \in {certTime, certTime + 1}
      BY <1>5 DEF Run, Prime, CertTick, serverSide, certVars
    <2>4. certTime' \in Nat
      BY <2>1, <2>3
    <2>5. serving' \in BOOLEAN
      BY <2>1, <2>3, Zenon
    <2> QED
      BY <2>2, <2>4, <2>5, ListAndClockInv
  <1> QED
    BY <1>1, <1>2, <1>3, <1>4, <1>5 DEF CertNext

LEMMA CertInvariantHolds == CertSpec => []CertInv
  BY CertInitInv, CertStep, PTL DEF CertSpec
-----------------------------------------------------------------------------
(* The theorems *)

\* Every table, request and file of the certificates' life keeps its form.
THEOREM CertTypeCorrect == CertSpec => []CertTypeOK
  <1>1. CertInv => CertTypeOK
    BY DEF CertInv
  <1> QED
    BY <1>1, CertInvariantHolds, PTL

LEMMA CertInvGivesTokens == CertInv => TokenBuysOne
  <1> SUFFICES ASSUME CertInv, NEW t \in Tokens PROVE Cardinality(buys[t]) <= 1
    BY DEF TokenBuysOne
  <1>1. buys[t] = {} \/ \E k \in Nat : buys[t] = {k}
    BY DEF CertInv, BuysInv, TokenInv
  <1>2. CASE buys[t] = {}
    <2>1. Cardinality(buys[t]) = 0
      BY <1>2, FS_EmptySet
    <2> QED
      BY <2>1
  <1>3. ASSUME NEW k \in Nat, buys[t] = {k} PROVE Cardinality(buys[t]) <= 1
    <2>1. Cardinality(buys[t]) = 1
      BY <1>3, FS_Singleton
    <2> QED
      BY <2>1
  <1> QED
    BY <1>1, <1>2, <1>3

LEMMA CertInvGivesCut == CertInv => OnlyTokenReadmits
  BY DEF CertInv, CutInv, OnlyTokenReadmits, Store!DeviceHasActiveCert

LEMMA CertInvGivesReach == CertInv => RevocationReaches
  <1> SUFFICES ASSUME CertInv PROVE RevocationReaches
    OBVIOUS
  <1>1. AgentInv /\ certdb.cert \in [DOMAIN signed -> [dev : {"dev1"}, revoked : BOOLEAN]]
        /\ signed \in [DOMAIN signed -> [dev : {"dev1"}, from : Nat, to : Nat]]
    BY DEF CertInv, CertTypeOK
  <1>2. \A k \in DOMAIN signed : k \in DOMAIN certdb.cert /\ certdb.cert[k].dev = signed[k].dev
    <2> TAKE k \in DOMAIN signed
    <2>1. certdb.cert[k] \in [dev : {"dev1"}, revoked : BOOLEAN] /\ signed[k] \in [dev : {"dev1"}, from : Nat, to : Nat]
      BY <1>1
    <2> QED
      BY <1>1, <2>1
  <1> QED
    BY <1>1, <1>2 DEF AgentInv, RevocationReaches

LEMMA CertInvGivesFiles == CertInv => FilesFit
  BY DEF CertInv, AgentInv, FilesFit

\* A token buys one certificate, a device whose certificates were revoked gets an active one by a
\* token only, a revocation reaches the certificate an agent uses, and an agent's files stop fitting
\* only in a crash between the two writes of a renewal - for any number of requests, lost answers,
\* failures and restarts.
THEOREM CertificatesHold == CertSpec => []CertInvariant
  <1>1. CertInv => CertInvariant
    BY CertInvGivesTokens, CertInvGivesCut, CertInvGivesReach, CertInvGivesFiles DEF CertInvariant
  <1> QED
    BY <1>1, CertInvariantHolds, PTL

\* A server that starts to accept connections refuses every certificate revoked before: the list is
\* read before the listeners open.
THEOREM ListIsKnown == CertSpec => ListKnownAtStart
  <1>1. ASSUME [CertNext]_certVars, ~serving, serving'
        PROVE  \A fp \in Store!RevokedFingerprints(certdb) : ~NewAgentServer(fp)'
    <2>1. Prime
      <3>1. \A k \in DOMAIN calls : Enroll(k) \/ Renew(k) \/ SaveCertificate(k) \/ StoreFails(k) \/ Answer(k) \/ AnswerLost(k)
                                    => serving' = serving
        BY DEF Enroll, Renew, SaveCertificate, StoreFails, Answer, AnswerLost
      <3>2. AgentStart \/ ensureEnrolled \/ runCertRenewal \/ WriteKey \/ WriteCrt \/ WriteId \/ AgentCrash => serving' = serving
        BY DEF AgentStart, ensureEnrolled, runCertRenewal, WriteKey, WriteCrt, WriteId, AgentCrash, serverSide
      <3>3. ~Run /\ ~ServerCrash
        BY <1>1 DEF Run, ServerCrash
      <3>4. RevokeDevice \/ CertTick \/ UNCHANGED certVars => serving' = serving
        BY DEF RevokeDevice, CertTick, serverSide, certVars
      <3> QED
        BY <1>1, <3>1, <3>2, <3>3, <3>4 DEF CertNext
    <2>2. cache' = Store!RevokedFingerprints(certdb)
      BY <2>1 DEF Prime, Replace
    <2> QED
      BY <2>2 DEF NewAgentServer, Accepted, VerifyConnection, IsRevoked
  <1>2. [CertNext]_certVars
          => [(~serving /\ serving') => \A fp \in Store!RevokedFingerprints(certdb) : ~NewAgentServer(fp)']_certVars
    BY <1>1
  <1> QED
    BY <1>2, PTL DEF CertSpec, ListKnownAtStart
=============================================================================
