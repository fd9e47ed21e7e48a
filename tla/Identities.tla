------------------------------ MODULE Identities ------------------------------
(* Who may talk to the server: the handlers of managed API tokens and the door  *)
(* they open, users provisioned over SCIM, and the customers of a service        *)
(* provider.  SCIM users are kept by iam.MemProvisioner or by PostgreSQL; both   *)
(* are run side by side, PostgreSQL's read and write being two statements.       *)
EXTENDS Integers, SequencesExt, FiniteSetsExt

CONSTANT MaxIdSteps

ASSUME IdentityAssumption == MaxIdSteps \in Nat

Tables == INSTANCE DbStore

VARIABLES idPart,    \* the part at work
          enforce,   \* KUT_TENANT_ENFORCE of the running server
          iddb,      \* the store: tokens and service-provider customers
          landed,    \* ghost: <<secret, tenant, enforce>> of batches let in
          users,     \* PostgreSQL's scim_users; memUsers: iam.MemProvisioner's
          memUsers,
          waiting,   \* SCIM requests between their read and their write
          tangled,   \* ghost: users two requests changed at once
          reached,   \* ghost: <<caller's tenant, user>> a request got hold of
          meter,     \* msp.UsageMeter: customer -> usage
          metered,   \* ghost: calls of the meter, in order
          idSteps
idVars == <<idPart, enforce, iddb, landed, users, memUsers, waiting, tangled, reached, meter, metered, idSteps>>

IdAdmins == [root |-> [role |-> "ADMIN", tenant |-> ""], lena |-> [role |-> "ADMIN", tenant |-> "acme"],
             otto |-> [role |-> "OPERATOR", tenant |-> ""]]
IdTenants == {"", "ACME", "no tenant!"}
\* tenant.Normalize folds case and refuses what is no identifier.
normalizeTenantInput(t) == CASE t = "no tenant!" -> {} [] t = "ACME" -> {"acme"} [] OTHER -> {t}
isAdmin(by) == IdAdmins[by].role = "ADMIN"
isPlatformAdmin(by) == isAdmin(by) /\ IdAdmins[by].tenant = ""
NextId(f) == Cardinality(DOMAIN f) + 1
StaticSecret == 9

-----------------------------------------------------------------------------
(* managed tokens: a secret is known by its token's number *)
handleTokenCreate(s, by, scope, t) ==
  LET bound == IF t # "" /\ scope # "ingest" THEN {} ELSE normalizeTenantInput(t)
  IN  IF ~isPlatformAdmin(by) \/ bound = {} \/ (scope = "ingest" /\ bound = {""} /\ enforce) THEN s
      ELSE Tables!CreateForTenant(s, NextId(s.api), scope, CHOOSE x \in bound : TRUE).s
handleTokenRevoke(s, by, i) == IF isPlatformAdmin(by) THEN Tables!Revoke(s, i).s ELSE s

\* the managed token first, then the static one of the environment
tokenAuthorizedTenant(scope, secret) ==
  LET v == Tables!VerifyTenant(iddb, scope, secret)
  IN  IF v[2] THEN {v[1]} ELSE IF secret = StaticSecret THEN {""} ELSE {}
tokenAuthorized(scope, secret) == tokenAuthorizedTenant(scope, secret) # {}
ingestTenant(t) == IF t # "" THEN {t} ELSE IF enforce THEN {} ELSE {"default"}

-----------------------------------------------------------------------------
(* SCIM: a sequence of users, doc is the SCIM text *)
Doc(name, active) == [name |-> name, active |-> active]
NormTenant(t) == IF t = "" THEN "default" ELSE t
\* the tenant a request works in: the caller's own, else the deployment's
scimTenant == NormTenant("")
scimOpTenant(by) == IF IdAdmins[by].tenant = "" THEN scimTenant ELSE NormTenant(IdAdmins[by].tenant)
Holds(U, t, i) == i \in DOMAIN U /\ U[i].tenant = t
ScimGet(U, t, i) == IF Holds(U, t, i) THEN {U[i].doc} ELSE {}

\* a name is used once in a tenant, which a replacement in memory does not look at
hasTenantPrefix(u, t) == u.tenant = t
memCreate(U, t, d) ==
  IF \E i \in DOMAIN U : U[i].doc.name = d.name /\ hasTenantPrefix(U[i], t) THEN U ELSE Append(U, [tenant |-> t, doc |-> d])
memReplace(U, t, i, d) == IF Holds(U, t, i) THEN [U EXCEPT ![i].doc = d] ELSE U
memDeactivate(U, t, i) == IF Holds(U, t, i) THEN [U EXCEPT ![i].doc.active = FALSE] ELSE U

\* beside the text, columns: the name is UNIQUE in its tenant
isUniqueViolation(U, t, name, i) == \E j \in (DOMAIN U) \ {i} : U[j].tenant = t /\ U[j].name = name
dbScimCreate(U, t, d) ==
  IF isUniqueViolation(U, t, d.name, 0) THEN U
  ELSE Append(U, [tenant |-> t, name |-> d.name, active |-> d.active, doc |-> d])
dbReplace(U, t, i, d) ==
  IF isUniqueViolation(U, t, d.name, i) THEN U
  ELSE [U EXCEPT ![i] = [tenant |-> t, name |-> d.name, active |-> d.active, doc |-> d]]
\* the text that was read is written back
dbDeactivate(U, i, read) == [U EXCEPT ![i].active = FALSE, ![i].doc = [read EXCEPT !.active = FALSE]]

-----------------------------------------------------------------------------
(* msp: the meter and the figures over all customers, numbered; 0 is no customer *)
Usage == [agents |-> 0, events |-> 0, incidents |-> 0]
entry(m, c) == IF c \in DOMAIN m THEN m[c] ELSE Usage
MeterPut(m, c, u) == [x \in (DOMAIN m) \cup {c} |-> IF x = c THEN u ELSE m[x]]
AddEvents(m, c, n) == IF c = 0 \/ n <= 0 THEN m ELSE MeterPut(m, c, [entry(m, c) EXCEPT !.events = @ + n])
SetAgents(m, c, n) == IF c = 0 \/ n < 0 THEN m ELSE MeterPut(m, c, [entry(m, c) EXCEPT !.agents = n])
AddIncident(m, c) == IF c = 0 THEN m ELSE MeterPut(m, c, [entry(m, c) EXCEPT !.incidents = @ + 1])
Snapshot(m, c) == entry(m, c)
SnapshotAll(m) == {<<c, m[c]>> : c \in DOMAIN m}

\* an operator without a list of customers sees them all
IsGlobal(op) == op.id # "" /\ op.customers = {}
CanAccess(op, c) == op.id # "" /\ c # 0 /\ (IsGlobal(op) \/ c \in op.customers)
OperatorScope(op, all) == IF op.id = "" THEN {} ELSE {c \in all : CanAccess(op, c)}
Riskier(a, b) == IF a.incidents # b.incidents THEN a.incidents > b.incidents ELSE a.id < b.id
AggregateGlobal(S, topN) ==
  LET sorted == SetToSortSeq(S, Riskier)
  IN  [customers |-> Cardinality(S), open |-> FoldSet(LAMBDA x, n : n + x.incidents, 0, S),
       agents |-> FoldSet(LAMBDA x, n : n + x.agents, 0, S),
       top |-> IF topN <= 0 \/ S = {} THEN <<>> ELSE SubSeq(sorted, 1, IF topN > Len(sorted) THEN Len(sorted) ELSE topN)]
handleMSPCreateCustomer(s, by, id, t) ==
  IF ~isPlatformAdmin(by) \/ t = "" \/ normalizeTenantInput(t) = {} THEN s
  ELSE Tables!MSPAddCustomer(s, id, CHOOSE x \in normalizeTenantInput(t) : TRUE).s
handleMSPDeactivateCustomer(s, by, id) == IF isPlatformAdmin(by) THEN Tables!MSPDeactivateCustomer(s, id).s ELSE s

-----------------------------------------------------------------------------
IdInit ==
  /\ idPart \in {"tokens", "scim", "msp"}
  /\ enforce \in (IF idPart = "tokens" THEN BOOLEAN ELSE {FALSE})
  /\ iddb = [Tables!EmptyStore EXCEPT !.api = Tables!Empty] /\ landed = {}
  /\ users = <<>> /\ memUsers = <<>> /\ waiting = {} /\ tangled = {} /\ reached = {}
  /\ meter = <<>> /\ metered = <<>> /\ idSteps = 0
IdStep(p) == idPart = p /\ idSteps < MaxIdSteps /\ idSteps' = idSteps + 1 /\ UNCHANGED idPart

TokenStep == \E by \in DOMAIN IdAdmins :
  /\ IdStep("tokens")
  /\ \/ \E scope \in {"ingest", "metrics"}, t \in IdTenants : iddb' = handleTokenCreate(iddb, by, scope, t)
     \/ \E i \in DOMAIN iddb.api : iddb' = handleTokenRevoke(iddb, by, i)
  /\ UNCHANGED <<enforce, landed, users, memUsers, waiting, tangled, reached, meter, metered>>
\* A batch at the door of /api/ingest; what happens to it then is IngestPath.
IngestDoor == \E secret \in (DOMAIN iddb.api) \cup {StaticSecret} :
  \E t \in tokenAuthorizedTenant("ingest", secret) : \E own \in ingestTenant(t) :
  /\ IdStep("tokens") /\ landed' = landed \cup {<<secret, own, enforce>>}
  /\ UNCHANGED <<enforce, iddb, users, memUsers, waiting, tangled, reached, meter, metered>>
\* The server is started again with the other setting; tokens stay.
Restarted == IdStep("tokens") /\ enforce' = ~enforce
  /\ UNCHANGED <<iddb, landed, users, memUsers, waiting, tangled, reached, meter, metered>>

ScimCreate == \E by \in {"root", "lena"}, name \in {"u1", "u2"}, a \in BOOLEAN :
  LET t == scimOpTenant(by)  d == Doc(name, a)
  IN  /\ IdStep("scim") /\ Len(users) < 2
      /\ users' = dbScimCreate(users, t, d)
      /\ memUsers' = IF tangled = {} THEN memCreate(memUsers, t, d) ELSE memUsers
      /\ reached' = IF Len(users') > Len(users) THEN reached \cup {<<IdAdmins[by].tenant, Len(users')>>} ELSE reached
      /\ UNCHANGED <<enforce, iddb, landed, waiting, tangled, meter, metered>>
\* Get of a Replace or a Deactivate; a user that is not found ends the request.
ScimRead == \E by \in {"root", "lena"}, i \in DOMAIN users, d \in {Doc(n, TRUE) : n \in {"u1", "u2"}}, op \in {"replace", "deactivate"} :
  \E read \in ScimGet(users, scimOpTenant(by), i) :
  /\ IdStep("scim") /\ Cardinality(waiting) < 2
  /\ waiting' = waiting \cup {[by |-> by, op |-> op, i |-> i, d |-> d, read |-> read]}
  /\ tangled' = IF \E w \in waiting : w.i = i THEN tangled \cup {i} ELSE tangled
  /\ reached' = reached \cup {<<IdAdmins[by].tenant, i>>}
  /\ UNCHANGED <<enforce, iddb, landed, users, memUsers, meter, metered>>
\* In memory the whole request is one step, taken here.  A name that is taken is
\* refused by PostgreSQL only: from there the two stores differ.
ScimWrite == \E w \in waiting :
  LET t == scimOpTenant(w.by)
  IN  /\ waiting' = waiting \ {w}
      /\ users' = IF w.op = "replace" THEN dbReplace(users, t, w.i, w.d) ELSE dbDeactivate(users, w.i, w.read)
      /\ memUsers' = IF w.op = "replace" THEN memReplace(memUsers, t, w.i, w.d) ELSE memDeactivate(memUsers, t, w.i)
      /\ tangled' = IF w.op = "replace" /\ isUniqueViolation(users, t, w.d.name, w.i) THEN tangled \cup DOMAIN users ELSE tangled
      /\ UNCHANGED <<idPart, enforce, iddb, landed, reached, meter, metered, idSteps>>

MspStep == \E by \in DOMAIN IdAdmins, id \in {"c1", "c2"} :
  /\ IdStep("msp")
  /\ iddb' \in {handleMSPDeactivateCustomer(iddb, by, id)} \cup
               (IF Tables!MSPGetCustomer(iddb, id) = <<>> THEN {handleMSPCreateCustomer(iddb, by, id, t) : t \in IdTenants} ELSE {})
  /\ UNCHANGED <<enforce, landed, users, memUsers, waiting, tangled, reached, meter, metered>>
Meter == \E c \in 0..2, n \in {-1, 1, 2}, op \in {"events", "agents", "incident"} :
  /\ op = "incident" => n = 1
  /\ IdStep("msp") /\ metered' = Append(metered, <<op, c, n>>)
  /\ meter' = CASE op = "events" -> AddEvents(meter, c, n) [] op = "agents" -> SetAgents(meter, c, n) [] OTHER -> AddIncident(meter, c)
  /\ UNCHANGED <<enforce, iddb, landed, users, memUsers, waiting, tangled, reached>>

IdNext == TokenStep \/ IngestDoor \/ Restarted \/ ScimCreate \/ ScimRead \/ ScimWrite \/ MspStep \/ Meter
IdSpec == IdInit /\ [][IdNext]_idVars

-----------------------------------------------------------------------------
\* What a server under enforcement lets in belongs to the tenant a platform
\* administrator bound the token to, also when the token was made before (ingestTenant).
EnforcedMeansBound ==
  \A b \in landed : IF b[3] THEN b[1] # StaticSecret /\ b[2] # "" /\ iddb.api[b[1]].tenant = b[2]
                            ELSE b[2] = (IF b[1] = StaticSecret \/ iddb.api[b[1]].tenant = "" THEN "default" ELSE iddb.api[b[1]].tenant)
\* Only ingest tokens are bound, and no metrics token opens the ingest door.
ScopesApart == /\ \A i \in DOMAIN iddb.api : iddb.api[i].tenant # "" => iddb.api[i].scope = "ingest"
               /\ \A b \in landed : b[1] # StaticSecret => iddb.api[b[1]].scope = "ingest"
               /\ \A i \in DOMAIN iddb.api : tokenAuthorized("metrics", i) => iddb.api[i].scope = "metrics"
\* An administrator of a tenant gets hold of that tenant's users only (scimOpTenant).
ScimWall == \A r \in reached : r[1] # "" => users[r[2]].tenant = r[1]
\* A name belongs to one user of a tenant, whatever requests overlap (UNIQUE in scim_users).
NamesUnique == \A i, j \in DOMAIN users : users[i].tenant = users[j].tenant /\ users[i].name = users[j].name => i = j
\* Where no two requests for a user overlap and no name was refused, the text, the
\* columns and what the store in memory keeps are the same (iam/scim.go, db/scim.go).
ScimStoresAgree ==
  \A i \in (DOMAIN users) \ tangled : /\ users[i].doc = Doc(users[i].name, users[i].active)
                                     /\ tangled = {} => memUsers[i] = [tenant |-> users[i].tenant, doc |-> users[i].doc]
\* A meter never loses a call and keeps the last number of agents it was told (UsageMeter).
MeterAccounts == \A c \in 1..2 :
  LET mine(op) == SelectSeq(metered, LAMBDA x : x[1] = op /\ x[2] = c)
      known == SelectSeq(mine("agents"), LAMBDA x : x[3] >= 0)
  IN  /\ Snapshot(meter, c).events = FoldLeft(LAMBDA n, x : n + (IF x[3] > 0 THEN x[3] ELSE 0), 0, mine("events"))
      /\ Snapshot(meter, c).incidents = Len(mine("incident"))
      /\ Snapshot(meter, c).agents = IF known = <<>> THEN 0 ELSE Last(known)[3]
\* The figures over all customers are those of the customers, the riskiest first,
\* and a technician sees the customers of his list and no other (AggregateGlobal, Scope).
FiguresRight ==
  LET S == {[id |-> x[1], incidents |-> x[2].incidents, agents |-> x[2].agents] : x \in SnapshotAll(meter)}
      g == AggregateGlobal(S, 1)
  IN  /\ S # {} => g.top # <<>> /\ \A x \in S : x.incidents <= g.top[1].incidents
      /\ g.open >= (IF g.top = <<>> THEN 0 ELSE g.top[1].incidents) /\ Len(g.top) <= 1
      /\ \A C \in SUBSET (1..2) : OperatorScope([id |-> "tech", customers |-> C], DOMAIN meter)
                                        = (IF C = {} THEN DOMAIN meter ELSE C \cap DOMAIN meter)
\* A customer is stored under the canonical name of its tenant (normalizeTenantInput).
CustomersCanonical == \A i \in DOMAIN iddb.msp : iddb.msp[i].tenant = "acme"
\* Whoever gets in is known, and gets no further than his tenant.
IdentityInvariant == /\ EnforcedMeansBound /\ ScopesApart /\ ScimWall /\ NamesUnique
                     /\ ScimStoresAgree /\ MeterAccounts /\ FiguresRight /\ CustomersCanonical
=============================================================================
