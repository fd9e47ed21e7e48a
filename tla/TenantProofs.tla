---------------------------- MODULE TenantProofs -----------------------------
(* Proofs about AdminPlane, continued: what an administrator of a tenant writes *)
(* stays in that tenant.  Each store call keeps every row's tenant and, when it  *)
(* is given what belongs to a tenant, changes only that tenant's rows (Lawful);  *)
(* each handler's checks give its calls what belongs to the caller's tenant      *)
(* (HandlerFits); and that stays so until the calls are made (TenantInv).        *)
EXTENDS AdminProofs

-----------------------------------------------------------------------------
(* What a deletion and an insertion leave of the other rows *)

\* One more row is kept or left out.
LEMMA KeepAppend ==
    ASSUME NEW S, NEW q \in Seq(S), NEW e \in S, NEW K
    PROVE  Db!Keep(Append(q, e), K) = IF e \in K THEN Append(Db!Keep(q, K), e) ELSE Db!Keep(q, K)
  <1> DEFINE n == Len(q)
             a == Append(q, e)
  <1>1. n \in Nat /\ a \in Seq(S) /\ Len(a) = n + 1 /\ a[n + 1] = e /\ \A i \in 1 .. n : a[i] = q[i]
    BY AppendProperties
  <1> HIDE DEF a
  <1>2. PICK k : Collects(k, S, q, K) /\ Db!Keep(q, K) = k[n]
    BY KeepCollects
  <1>3. PICK j : Collects(j, S, a, K) /\ Db!Keep(a, K) = j[n + 1]
    BY <1>1, KeepCollects
  <1> DEFINE G == {m \in 0 .. n : j[m] = k[m]}
  <1>4. 0 \in G
    BY <1>1, <1>2, <1>3 DEF Collects
  <1>5. ASSUME NEW m \in 1 .. n, m - 1 \in G PROVE m \in G
    <2>1. m \in 0 .. n /\ m \in 1 .. Len(a) /\ a[m] = q[m] /\ j[m - 1] = k[m - 1]
      BY <1>1, <1>5
    <2>2. j[m] = IF a[m] \in K THEN Append(j[m - 1], a[m]) ELSE j[m - 1]
      BY <1>3, <2>1 DEF Collects
    <2>3. k[m] = IF q[m] \in K THEN Append(k[m - 1], q[m]) ELSE k[m - 1]
      BY <1>2, <2>1 DEF Collects
    <2> QED
      BY <2>1, <2>2, <2>3
  <1>6. j[n] = k[n]
    <2> HIDE DEF G, n
    <2>1. \A m \in 0 .. n : m \in G
      BY <1>1, <1>4, <1>5, UpTo
    <2>2. n \in G
      BY <1>1, <2>1
    <2> QED
      BY <2>2 DEF G
  <1>7. n + 1 \in 1 .. Len(a) /\ (n + 1) - 1 = n
    BY <1>1
  <1>8. j[n + 1] = IF a[n + 1] \in K THEN Append(j[n], a[n + 1]) ELSE j[n]
    BY <1>3, <1>7 DEF Collects
  <1> HIDE DEF n
  <1> QED
    BY <1>1, <1>2, <1>3, <1>6, <1>8 DEF a

\* What is kept depends on the rows only.
LEMMA KeepAgree ==
    ASSUME NEW S, NEW q \in Seq(S), NEW K, NEW L, \A i \in 1 .. Len(q) : q[i] \in K <=> q[i] \in L
    PROVE  Db!Keep(q, K) = Db!Keep(q, L)
  <1> DEFINE n == Len(q)
  <1>1. n \in Nat
    OBVIOUS
  <1>2. PICK k : Collects(k, S, q, K) /\ Db!Keep(q, K) = k[n]
    BY KeepCollects
  <1>3. PICK j : Collects(j, S, q, L) /\ Db!Keep(q, L) = j[n]
    BY KeepCollects
  <1> DEFINE G == {m \in 0 .. n : j[m] = k[m]}
  <1>4. 0 \in G
    BY <1>1, <1>2, <1>3 DEF Collects
  <1>5. ASSUME NEW m \in 1 .. n, m - 1 \in G PROVE m \in G
    <2>1. m \in 0 .. n /\ j[m - 1] = k[m - 1] /\ (q[m] \in K <=> q[m] \in L)
      BY <1>1, <1>5
    <2>2. j[m] = IF q[m] \in L THEN Append(j[m - 1], q[m]) ELSE j[m - 1]
      BY <1>3, <2>1 DEF Collects
    <2>3. k[m] = IF q[m] \in K THEN Append(k[m - 1], q[m]) ELSE k[m - 1]
      BY <1>2, <2>1 DEF Collects
    <2> QED
      BY <2>1, <2>2, <2>3
  <1> HIDE DEF G, n
  <1>6. \A m \in 0 .. n : m \in G
    BY <1>1, <1>4, <1>5, UpTo
  <1>7. n \in G
    BY <1>1, <1>6
  <1> QED
    BY <1>2, <1>3, <1>7 DEF G

\* Nothing is kept of no rows.
LEMMA KeepNone ==
    ASSUME NEW K
    PROVE  Db!Keep(<<>>, K) = <<>>
  <1>1. <<>> \in Seq({}) /\ Len(<<>>) = 0
    OBVIOUS
  <1>2. PICK k : Collects(k, {}, <<>>, K) /\ Db!Keep(<<>>, K) = k[0]
    BY <1>1, KeepCollects
  <1> QED
    BY <1>2 DEF Collects

\* Keeping in two steps, when the first keeps all the second would.
LEMMA KeepKeep ==
    ASSUME NEW S, NEW q \in Seq(S), NEW K, NEW L, \A i \in 1 .. Len(q) : q[i] \in K => q[i] \in L
    PROVE  Db!Keep(Db!Keep(q, L), K) = Db!Keep(q, K)
  <1> DEFINE n == Len(q)
  <1>1. n \in Nat /\ \A i \in 1 .. n : q[i] \in S
    OBVIOUS
  <1>2. PICK k : Collects(k, S, q, L) /\ Db!Keep(q, L) = k[n]
    BY KeepCollects
  <1>3. PICK j : Collects(j, S, q, K) /\ Db!Keep(q, K) = j[n]
    BY KeepCollects
  <1> DEFINE G == {m \in 0 .. n : Db!Keep(k[m], K) = j[m]}
  <1>4. 0 \in G
    <2>1. k[0] = <<>> /\ j[0] = <<>> /\ 0 \in 0 .. n
      BY <1>1, <1>2, <1>3 DEF Collects
    <2>2. Db!Keep(k[0], K) = j[0]
      BY <2>1, KeepNone
    <2> HIDE DEF n
    <2> QED
      BY <2>1, <2>2
  <1>5. ASSUME NEW m \in 1 .. n, m - 1 \in G PROVE m \in G
    <2>0. Db!Keep(k[m - 1], K) = j[m - 1]
      BY <1>5
    <2>1. m \in 0 .. n /\ (q[m] \in K => q[m] \in L) /\ q[m] \in S /\ m - 1 \in 0 .. n
      BY <1>1
    <2>2. j[m] = IF q[m] \in K THEN Append(j[m - 1], q[m]) ELSE j[m - 1]
      BY <1>3 DEF Collects
    <2>3. k[m - 1] \in Seq(S) /\ k[m] = IF q[m] \in L THEN Append(k[m - 1], q[m]) ELSE k[m - 1]
      BY <1>2, <2>1 DEF Collects
    <2> DEFINE v == k[m - 1]
               e == q[m]
    <2>a. v = k[m - 1] /\ e = q[m]
      OBVIOUS
    <2> HIDE DEF v, e
    <2>b. v \in Seq(S) /\ e \in S
      BY <2>1, <2>3, <2>a
    <2>4. Db!Keep(Append(v, e), K) = IF e \in K THEN Append(Db!Keep(v, K), e) ELSE Db!Keep(v, K)
      BY <2>b, KeepAppend
    <2>5. Db!Keep(k[m], K) = j[m]
      <3>1. CASE e \in K
        <4>1. k[m] = Append(v, e) /\ j[m] = Append(Db!Keep(v, K), e)
          BY <2>0, <2>1, <2>2, <2>3, <2>a, <3>1
        <4> QED
          BY <2>4, <3>1, <4>1
      <3>2. CASE e \notin K
        <4>1. j[m] = Db!Keep(v, K) /\ k[m] \in {v, Append(v, e)}
          BY <2>0, <2>2, <2>3, <2>a, <3>2
        <4> QED
          BY <2>4, <3>2, <4>1
      <3> QED
        BY <3>1, <3>2
    <2> QED
      BY <2>1, <2>5
  <1> HIDE DEF G, n
  <1>6. \A m \in 0 .. n : m \in G
    BY <1>1, <1>4, <1>5, UpTo
  <1>7. n \in G
    BY <1>1, <1>6
  <1> QED
    BY <1>2, <1>3, <1>7 DEF G

\* A new row that is not in L changes nothing of what is kept.
LEMMA AppendLeavesOut ==
    ASSUME NEW q, IsSeq(q), NEW e, NEW K, NEW L, e \notin L, \A i \in DOMAIN q : q[i] \in K <=> q[i] \in L
    PROVE  Db!Keep(Append(q, e), L) = Db!Keep(q, K)
  <1>1. PICK S : q \in Seq(S)
    BY DEF IsSeq
  <1> DEFINE T == S \cup {e}
  <1>2. q \in Seq(T) /\ e \in T
    <2>1. Len(q) \in Nat /\ q \in [1 .. Len(q) -> T]
      BY <1>1
    <2>2. e \in T
      OBVIOUS
    <2> HIDE DEF T
    <2> QED
      BY <2>1, <2>2
  <1> HIDE DEF T
  <1>3. \A i \in 1 .. Len(q) : q[i] \in K <=> q[i] \in L
    BY <1>1
  <1>4. Db!Keep(Append(q, e), L) = Db!Keep(q, L)
    BY <1>2, KeepAppend
  <1>5. Db!Keep(q, K) = Db!Keep(q, L)
    BY <1>2, <1>3, KeepAgree
  <1> QED
    BY <1>4, <1>5

\* Neither does a deletion of rows that are not in K.
LEMMA DeletionLeaves ==
    ASSUME NEW q, IsSeq(q), NEW d, NEW K, NEW L, \A i \in DOMAIN q : q[i] \in K => q[i].dev # d,
           \A j \in DOMAIN Db!Without(q, d) : Db!Without(q, d)[j] \in K <=> Db!Without(q, d)[j] \in L
    PROVE  Db!Keep(Db!Without(q, d), L) = Db!Keep(q, K)
  <1> DEFINE M == {x \in Db!Range(q) : x.dev # d}
             w == Db!Without(q, d)
  <1>1. PICK S : q \in Seq(S)
    BY DEF IsSeq
  <1>2. w = Db!Keep(q, M)
    BY DEF Db!Without
  <1>3. \A i \in 1 .. Len(q) : q[i] \in K => q[i] \in M
    BY <1>1 DEF Db!Range
  <1>4. w \in Seq(S)
    BY <1>1, WithoutRows
  <1>5. \A j \in 1 .. Len(w) : w[j] \in K <=> w[j] \in L
    <2>1. DOMAIN w = 1 .. Len(w)
      BY <1>4
    <2> HIDE DEF M
    <2> QED
      BY <2>1
  <1> HIDE DEF w, M
  <1>6. Db!Keep(w, K) = Db!Keep(w, L)
    BY <1>4, <1>5, KeepAgree
  <1>7. Db!Keep(Db!Keep(q, M), K) = Db!Keep(q, K)
    BY <1>1, <1>3, KeepKeep
  <1> QED
    BY <1>2, <1>6, <1>7 DEF w

-----------------------------------------------------------------------------
(* The rows of the other tenants *)

\* The tables whose rows have a tenant, and the tables that are sequences.
RowTables == {"tok", "dev", "pol", "adm", "ack"}
RowSeqs == {"ev", "cmd", "inc", "art", "aud", "srch"}

Others(f, t) == Restrict(f, {k \in DOMAIN f : f[k].tenant # t})
DevsOf(s, t) == DOMAIN Others(s.dev, t)
AdmsOf(s, t) == DOMAIN Others(s.adm, t)

\* What Outside keeps of table k with the rows f; D and A are the other tenants' devices and administrators.
PartOf(k, f, D, A, t) ==
  CASE k \in RowTables -> Others(f, t)
    [] k = "cert" -> Restrict(f, {x \in DOMAIN f : f[x].dev \in D})
    [] k = "wipe" -> Restrict(f, DOMAIN f \cap D)
    [] k = "asg" -> {x \in f : x[1] \in D}
    [] k = "ev" -> Db!Keep(f, {x \in Range(f) : x.tenant # t})
    [] k \in {"inc", "art", "cmd"} -> Db!Keep(f, {x \in Range(f) : x.dev \in D})
    [] k \in {"aud", "srch"} -> Db!Keep(f, {x \in Range(f) : x.by \in A})
    [] OTHER -> f
Part(s, k, t) == PartOf(k, s[k], DevsOf(s, t), AdmsOf(s, t), t)

\* Outside is made of those parts.
LEMMA OutsideParts ==
    ASSUME NEW s, DOMAIN s = Tables, NEW t
    PROVE  Outside(s, t) = [k \in Tables |-> Part(s, k, t)]
  <1> DEFINE D == DevsOf(s, t)
             A == AdmsOf(s, t)
             tok == Others(s.tok, t)
             dev == Others(s.dev, t)
             pol == Others(s.pol, t)
             adm == Others(s.adm, t)
             ack == Others(s.ack, t)
             cert == Restrict(s.cert, {x \in DOMAIN s.cert : s.cert[x].dev \in D})
             wipe == Restrict(s.wipe, DOMAIN s.wipe \cap D)
             asg == {x \in s.asg : x[1] \in D}
             ev == Db!Keep(s.ev, {x \in Range(s.ev) : x.tenant # t})
             inc == Db!Keep(s.inc, {x \in Range(s.inc) : x.dev \in D})
             art == Db!Keep(s.art, {x \in Range(s.art) : x.dev \in D})
             cmd == Db!Keep(s.cmd, {x \in Range(s.cmd) : x.dev \in D})
             aud == Db!Keep(s.aud, {x \in Range(s.aud) : x.by \in A})
             srch == Db!Keep(s.srch, {x \in Range(s.srch) : x.by \in A})
             x == [s EXCEPT !.tok = tok, !.dev = dev, !.pol = pol, !.adm = adm, !.ack = ack]
             y == [x EXCEPT !.cert = cert, !.wipe = wipe, !.asg = asg, !.ev = ev]
             z == [y EXCEPT !.inc = inc, !.art = art, !.cmd = cmd, !.aud = aud, !.srch = srch]
  <1>1. Outside(s, t) = z
    BY DEF Outside, Slice, Others, DevsOf, AdmsOf
  <1> HIDE DEF D, A
  <1>2. /\ PartOf("tok", s.tok, D, A, t) = tok /\ PartOf("dev", s.dev, D, A, t) = dev /\ PartOf("pol", s.pol, D, A, t) = pol
        /\ PartOf("adm", s.adm, D, A, t) = adm /\ PartOf("ack", s.ack, D, A, t) = ack
    BY Zenon DEF PartOf, RowTables
  <1>3. /\ PartOf("cert", s.cert, D, A, t) = cert /\ PartOf("wipe", s.wipe, D, A, t) = wipe /\ PartOf("asg", s.asg, D, A, t) = asg
        /\ PartOf("ev", s.ev, D, A, t) = ev
    BY DEF PartOf, RowTables
  <1>4. /\ PartOf("inc", s.inc, D, A, t) = inc /\ PartOf("art", s.art, D, A, t) = art /\ PartOf("cmd", s.cmd, D, A, t) = cmd
        /\ PartOf("aud", s.aud, D, A, t) = aud /\ PartOf("srch", s.srch, D, A, t) = srch
    BY DEF PartOf, RowTables
  <1>5. /\ PartOf("cust", s.cust, D, A, t) = s.cust /\ PartOf("msp", s.msp, D, A, t) = s.msp /\ PartOf("api", s.api, D, A, t) = s.api
    BY DEF PartOf, RowTables
  <1> HIDE DEF tok, dev, pol, adm, ack, cert, wipe, asg, ev, inc, art, cmd, aud, srch
  <1>6. /\ DOMAIN z = Tables /\ z = [k \in Tables |-> z[k]]
        /\ z.tok = tok /\ z.dev = dev /\ z.pol = pol /\ z.adm = adm /\ z.ack = ack /\ z.cert = cert /\ z.wipe = wipe
        /\ z.asg = asg /\ z.ev = ev /\ z.inc = inc /\ z.art = art /\ z.cmd = cmd /\ z.aud = aud /\ z.srch = srch
        /\ z.cust = s.cust /\ z.msp = s.msp /\ z.api = s.api
    <2>1. DOMAIN x = Tables
      OBVIOUS
    <2>2. /\ x.tok = tok /\ x.dev = dev /\ x.pol = pol /\ x.adm = adm /\ x.ack = ack
          /\ x.cust = s.cust /\ x.msp = s.msp /\ x.api = s.api
      BY DEF Tables
    <2> HIDE DEF x
    <2>3. DOMAIN y = Tables
      BY <2>1
    <2>4. y.cert = cert /\ y.wipe = wipe /\ y.asg = asg /\ y.ev = ev
      BY <2>1 DEF Tables
    <2>5. y.tok = x.tok /\ y.dev = x.dev /\ y.pol = x.pol /\ y.adm = x.adm
      BY <2>1 DEF Tables
    <2>6. y.ack = x.ack /\ y.cust = x.cust /\ y.msp = x.msp /\ y.api = x.api
      BY <2>1 DEF Tables
    <2> HIDE DEF y
    <2>7. DOMAIN z = Tables /\ z = [k \in Tables |-> z[k]]
      BY <2>3
    <2>8. z.inc = inc /\ z.art = art /\ z.cmd = cmd /\ z.aud = aud /\ z.srch = srch
      BY <2>3 DEF Tables
    <2>9. z.tok = y.tok /\ z.dev = y.dev /\ z.pol = y.pol /\ z.adm = y.adm /\ z.ack = y.ack /\ z.cert = y.cert
      BY <2>3 DEF Tables
    <2>10. z.wipe = y.wipe /\ z.asg = y.asg /\ z.ev = y.ev /\ z.cust = y.cust /\ z.msp = y.msp /\ z.api = y.api
      BY <2>3 DEF Tables
    <2> HIDE DEF z
    <2> QED
      BY <2>2, <2>4, <2>5, <2>6, <2>7, <2>8, <2>9, <2>10
  <1> HIDE DEF z
  <1>7. \A k \in Tables : z[k] = PartOf(k, s[k], D, A, t)
    BY <1>2, <1>3, <1>4, <1>5, <1>6 DEF Tables
  <1>8. \A k \in Tables : z[k] = Part(s, k, t)
    BY <1>7 DEF Part, D, A
  <1> QED
    BY <1>1, <1>6, <1>8

\* The other tenants' rows are the same when every part is.
LEMMA PartsSuffice ==
    ASSUME NEW s, DOMAIN s = Tables, NEW z, DOMAIN z = Tables, NEW t, \A k \in Tables : Part(z, k, t) = Part(s, k, t)
    PROVE  Outside(z, t) = Outside(s, t)
  <1>1. Outside(s, t) = [k \in Tables |-> Part(s, k, t)] /\ Outside(z, t) = [k \in Tables |-> Part(z, k, t)]
    BY OutsideParts
  <1> QED
    BY <1>1

-----------------------------------------------------------------------------
(* What a store call does to the rows of the other tenants *)

TenantCalls ==
  {"SaveEnrollmentToken", "RevokeEnrollmentToken", "SetDeviceTags", "CreatePolicy", "CreateAdmin", "SetAdminRole", "DeactivateAdmin"}
DeviceCalls ==
  {"enqueue", "reflect", "RevokeDeviceCerts", "EraseDeviceData", "SavePendingWipe", "ConsumePendingWipe", "DeletePendingWipe",
   "AssignPolicy"}
PolicyCalls == {"AddPolicyRule", "BumpPolicyVersion"}
EventCalls == {"SetEventAck", "SetEventCase"}

\* What the call is given belongs to tenant t: the tenant tt it writes, or the device, policy or event it is about.
Belongs(s, t, on, tt, step) ==
  /\ step \in TenantCalls => tt = t
  /\ step \in DeviceCalls => on \in DOMAIN s.dev /\ s.dev[on].tenant = t
  /\ step \in PolicyCalls => on \in DOMAIN s.pol /\ s.pol[on].tenant = t
  /\ step \in EventCalls => Db!EventTenant(s, on) = t

\* The rows of the store have their columns, and each event and its marks have the tenant of its device and event.
Shaped(s) ==
  /\ DOMAIN s = Tables
  /\ \A f \in RowTables : \A k \in DOMAIN s[f] : "tenant" \in DOMAIN s[f][k]
  /\ \A f \in RowSeqs : IsSeq(s[f])
CertRows(s) == \A f \in DOMAIN s.cert : s.cert[f] \in [dev : {s.cert[f].dev}, revoked : BOOLEAN]
EventRows(s) == \A i \in DOMAIN s.ev : s.ev[i].dev \in DOMAIN s.dev /\ s.dev[s.ev[i].dev].tenant = s.ev[i].tenant
AckRows(s) == \A i \in DOMAIN s.ack : s.ack[i].tenant = Db!Canonical(Db!EventTenant(s, i))
Sane(s) == Shaped(s) /\ CertRows(s) /\ EventRows(s) /\ AckRows(s)

\* The devices stay, administrators and policies are added, and none moves to another tenant.
Grown(s, z) ==
  /\ DOMAIN z.dev = DOMAIN s.dev /\ \A d \in DOMAIN s.dev : z.dev[d].tenant = s.dev[d].tenant
  /\ DOMAIN s.adm \subseteq DOMAIN z.adm /\ \A a \in DOMAIN s.adm : z.adm[a].tenant = s.adm[a].tenant
  /\ DOMAIN s.pol \subseteq DOMAIN z.pol /\ \A p \in DOMAIN s.pol : z.pol[p].tenant = s.pol[p].tenant

Stays(s, z, t) == \A k \in Tables : Part(z, k, t) = Part(s, k, t)

\* An administrator of tenant t makes the call for its own tenant.
Rightful(s, q, t, step) ==
  t # "" /\ q.by \in DOMAIN s.adm /\ s.adm[q.by].tenant = t /\ Belongs(s, t, q.on, q.t, step)

\* What every call does.
Lawful(s, z, q, step) ==
  /\ Sane(z) /\ Grown(s, z)
  /\ step \notin EventCalls => z.ack = s.ack
  /\ \A t : Rightful(s, q, t, step) => Stays(s, z, t)

\* Only the tables of F change; row k of table f is new, or keeps its tenant.
Keeps(s, z, F) == DOMAIN z = Tables /\ \A k \in Tables \ F : z[k] = s[k]
Touches(f, g, k) ==
  /\ DOMAIN g = DOMAIN f \cup {k}
  /\ \A x \in DOMAIN f : x # k => g[x] = f[x]
  /\ "tenant" \in DOMAIN g[k]
  /\ k \in DOMAIN f => g[k].tenant = f[k].tenant

\* A table that did not change keeps its part.
LEMMA SameParts ==
    ASSUME NEW s, NEW z, NEW F, Keeps(s, z, F), NEW t,
           Others(z.dev, t) = Others(s.dev, t), Others(z.adm, t) = Others(s.adm, t)
    PROVE  \A k \in Tables \ F : Part(z, k, t) = Part(s, k, t)
  <1>1. DevsOf(z, t) = DevsOf(s, t) /\ AdmsOf(z, t) = AdmsOf(s, t)
    BY DEF DevsOf, AdmsOf
  <1> QED
    BY <1>1 DEF Keeps, Part

\* Nothing changes.
LEMMA NoChange ==
    ASSUME NEW s, Sane(s), NEW q, NEW step
    PROVE  Lawful(s, s, q, step)
  BY DEF Lawful, Grown, Stays

\* A table in which a row of tenant t changes has the other tenants' rows.
LEMMA TouchedOthers ==
    ASSUME NEW f, NEW g, NEW k, Touches(f, g, k), NEW t, g[k].tenant = t
    PROVE  Others(g, t) = Others(f, t)
  <1>1. {x \in DOMAIN g : g[x].tenant # t} = {x \in DOMAIN f : f[x].tenant # t}
    BY DEF Touches
  <1>2. \A x \in DOMAIN f : f[x].tenant # t => g[x] = f[x]
    BY DEF Touches
  <1> QED
    BY <1>1, <1>2 DEF Others, Restrict

\* The parts of the tables with a tenant in their rows.
LEMMA RowParts ==
    ASSUME NEW k \in RowTables, NEW f, NEW D, NEW A, NEW t
    PROVE  PartOf(k, f, D, A, t) = Others(f, t)
  <1>1. CASE k = "tok"
    BY <1>1, Zenon DEF PartOf, RowTables
  <1>2. CASE k = "dev"
    BY <1>2, Zenon DEF PartOf, RowTables
  <1>3. CASE k = "pol"
    BY <1>3, Zenon DEF PartOf, RowTables
  <1>4. CASE k = "adm"
    BY <1>4, Zenon DEF PartOf, RowTables
  <1>5. CASE k = "ack"
    BY <1>5, Zenon DEF PartOf, RowTables
  <1> QED
    BY <1>1, <1>2, <1>3, <1>4, <1>5 DEF RowTables

\* A call that changes one row.
LEMMA RowChange ==
    ASSUME NEW s, Sane(s), NEW z, NEW f \in RowTables, NEW k, Keeps(s, z, {f}), Touches(s[f], z[f], k),
           f = "dev" => k \in DOMAIN s.dev, f = "ack" => z.ack[k].tenant = Db!Canonical(Db!EventTenant(s, k)),
           NEW q, NEW step, f = "ack" => step \in EventCalls, \A t : Rightful(s, q, t, step) => z[f][k].tenant = t
    PROVE  Lawful(s, z, q, step)
  <1>0. /\ "dev" \in Tables /\ "adm" \in Tables /\ "pol" \in Tables /\ "ack" \in Tables /\ "ev" \in Tables /\ "cert" \in Tables
        /\ "ev" \notin RowTables /\ "cert" \notin RowTables /\ RowTables \subseteq Tables /\ RowSeqs \subseteq Tables
        /\ \A g \in RowSeqs : g \notin RowTables
    BY DEF Tables, RowTables, RowSeqs
  <1>1. /\ DOMAIN z = Tables /\ z.ev = s.ev /\ z.cert = s.cert /\ \A g \in RowSeqs : z[g] = s[g]
        /\ \A g \in RowTables : g # f => z[g] = s[g]
    BY <1>0 DEF Keeps
  <1>2. Shaped(z)
    BY <1>1 DEF Sane, Shaped, Touches
  <1>3. Grown(s, z)
    <2>1. f # "dev" => z.dev = s.dev
      BY <1>1 DEF RowTables
    <2>2. f # "adm" => z.adm = s.adm
      BY <1>1 DEF RowTables
    <2>3. f # "pol" => z.pol = s.pol
      BY <1>1 DEF RowTables
    <2>4. DOMAIN z.dev = DOMAIN s.dev /\ \A d \in DOMAIN s.dev : z.dev[d].tenant = s.dev[d].tenant
      BY <2>1 DEF Touches
    <2>5. DOMAIN s.adm \subseteq DOMAIN z.adm /\ \A a \in DOMAIN s.adm : z.adm[a].tenant = s.adm[a].tenant
      BY <2>2 DEF Touches
    <2>6. DOMAIN s.pol \subseteq DOMAIN z.pol /\ \A p \in DOMAIN s.pol : z.pol[p].tenant = s.pol[p].tenant
      BY <2>3 DEF Touches
    <2> QED
      BY <2>4, <2>5, <2>6 DEF Grown
  <1>4. CertRows(z) /\ EventRows(z)
    BY <1>1, <1>3 DEF Sane, CertRows, EventRows, Grown
  <1>5. \A i : Db!EventTenant(z, i) = Db!EventTenant(s, i)
    BY <1>1 DEF Db!EventTenant
  <1>6. AckRows(z)
    <2>1. CASE f = "ack"
      BY <1>5, <2>1 DEF Sane, AckRows, Touches
    <2>2. CASE f # "ack"
      <3>1. z.ack = s.ack
        BY <1>1, <2>2 DEF RowTables
      <3> QED
        BY <1>5, <3>1 DEF Sane, AckRows
    <2> QED
      BY <2>1, <2>2
  <1>7. step \notin EventCalls => z.ack = s.ack
    BY <1>1 DEF RowTables
  <1>8. ASSUME NEW t, Rightful(s, q, t, step) PROVE Stays(s, z, t)
    <2>1. Others(z[f], t) = Others(s[f], t)
      BY <1>8, TouchedOthers
    <2>2. \A g \in RowTables : Others(z[g], t) = Others(s[g], t)
      BY <1>1, <2>1
    <2>3. \A j \in Tables \ {f} : Part(z, j, t) = Part(s, j, t)
      <3>1. Others(z.dev, t) = Others(s.dev, t) /\ Others(z.adm, t) = Others(s.adm, t)
        BY <2>2 DEF RowTables
      <3> QED
        BY <3>1, SameParts
    <2>4. Part(z, f, t) = Part(s, f, t)
      <3>1. \A r, D, A : PartOf(f, r, D, A, t) = Others(r, t)
        BY RowParts
      <3>2. Part(z, f, t) = Others(z[f], t) /\ Part(s, f, t) = Others(s[f], t)
        BY <3>1 DEF Part
      <3> QED
        BY <2>1, <3>2
    <2> QED
      BY <2>3, <2>4 DEF Stays
  <1> QED
    BY <1>2, <1>3, <1>4, <1>6, <1>7, <1>8 DEF Lawful, Sane

\* A new row.
LEMMA NewRow ==
    ASSUME NEW f, NEW k, k \notin DOMAIN f, NEW row, "tenant" \in DOMAIN row
    PROVE  Touches(f, Db!Put(f, k, row), k) /\ Db!Put(f, k, row)[k] = row
  <1> DEFINE g == Db!Put(f, k, row)
  <1>1. DOMAIN g = DOMAIN f \cup {k} /\ g[k] = row /\ \A x \in DOMAIN f : x # k => g[x] = f[x]
    BY DEF Db!Put
  <1> HIDE DEF g
  <1> QED
    BY <1>1 DEF Touches, g

\* A row that is rewritten.
LEMMA EditedRow ==
    ASSUME NEW f, NEW k \in DOMAIN f, NEW row, "tenant" \in DOMAIN row, row.tenant = f[k].tenant
    PROVE  Touches(f, [f EXCEPT ![k] = row], k) /\ [f EXCEPT ![k] = row][k] = row
  BY DEF Touches

\* One table of a store is replaced.
LEMMA Replaced ==
    ASSUME NEW s, DOMAIN s = Tables, NEW f \in Tables, NEW v
    PROVE  Keeps(s, [s EXCEPT ![f] = v], {f}) /\ [s EXCEPT ![f] = v][f] = v
  BY DEF Keeps

\* Row k of table f is rewritten and keeps its tenant.
Rewrites(s, z, f, k) == Keeps(s, z, {f}) /\ Touches(s[f], z[f], k) /\ k \in DOMAIN z[f]

\* Two rewritings of the same row.
LEMMA RewrittenTwice ==
    ASSUME NEW s, NEW y, NEW z, NEW f \in Tables, NEW k \in DOMAIN s[f], Rewrites(s, y, f, k), Rewrites(y, z, f, k)
    PROVE  Rewrites(s, z, f, k)
  <1>1. Keeps(s, z, {f})
    BY DEF Rewrites, Keeps
  <1>2. Touches(s[f], z[f], k)
    BY DEF Rewrites, Touches
  <1> QED
    BY <1>1, <1>2 DEF Rewrites

\* One column of a row is written.
LEMMA ColumnWritten ==
    ASSUME NEW s, DOMAIN s = Tables, NEW f \in Tables, NEW k \in DOMAIN s[f], "tenant" \in DOMAIN s[f][k], NEW c, c # "tenant", NEW v
    PROVE  LET z == [s EXCEPT ![f][k][c] = v] IN Rewrites(s, z, f, k) /\ "tenant" \in DOMAIN z[f][k]
  <1> DEFINE row == [s[f][k] EXCEPT ![c] = v]
             g == [s[f] EXCEPT ![k] = row]
             z == [s EXCEPT ![f] = g]
  <1>1. "tenant" \in DOMAIN row /\ row.tenant = s[f][k].tenant
    OBVIOUS
  <1> HIDE DEF row
  <1>2. Touches(s[f], g, k) /\ k \in DOMAIN g /\ g[k] = row
    BY <1>1, EditedRow
  <1> HIDE DEF g
  <1>3. Keeps(s, z, {f}) /\ z[f] = g
    BY Replaced
  <1> HIDE DEF z
  <1>4. Rewrites(s, z, f, k) /\ "tenant" \in DOMAIN z[f][k]
    BY <1>1, <1>2, <1>3 DEF Rewrites
  <1> QED
    BY <1>4 DEF z, g, row

\* A call that rewrites a row of its caller's tenant.
LEMMA RewriteCall ==
    ASSUME NEW s, Sane(s), NEW z, NEW f \in RowTables \ {"ack"}, NEW k \in DOMAIN s[f], Rewrites(s, z, f, k),
           NEW q, NEW step, \A t : Rightful(s, q, t, step) => s[f][k].tenant = t
    PROVE  Lawful(s, z, q, step)
  <1>1. Keeps(s, z, {f}) /\ Touches(s[f], z[f], k)
    BY DEF Rewrites
  <1>2. z[f][k].tenant = s[f][k].tenant
    BY <1>1 DEF Touches
  <1> QED
    BY <1>1, <1>2, RowChange

\* A call that adds a row for its caller's tenant.
LEMMA InsertCall ==
    ASSUME NEW s, Sane(s), NEW f \in {"tok", "pol", "adm"}, NEW k, k \notin DOMAIN s[f], NEW row, "tenant" \in DOMAIN row,
           NEW q, NEW step, \A t : Rightful(s, q, t, step) => row.tenant = t
    PROVE  Lawful(s, [s EXCEPT ![f] = Db!Put(s[f], k, row)], q, step)
  <1> DEFINE g == Db!Put(s[f], k, row)
             z == [s EXCEPT ![f] = g]
  <1>1. Touches(s[f], g, k) /\ g[k] = row
    BY NewRow
  <1> HIDE DEF g
  <1>2. DOMAIN s = Tables /\ f \in Tables /\ f \in RowTables
    BY DEF Sane, Shaped, Tables, RowTables
  <1>3. Keeps(s, z, {f}) /\ z[f] = g
    BY <1>2, Replaced
  <1> HIDE DEF z
  <1>4. Lawful(s, z, q, step)
    BY <1>1, <1>2, <1>3, RowChange
  <1> QED
    BY <1>4 DEF z, g

\* The calls for enrolment tokens.
LEMMA TokenCalls ==
    ASSUME NEW s, Sane(s), NEW q, NEW id, id \notin DOMAIN s.tok, NEW step \in {"SaveEnrollmentToken", "RevokeEnrollmentToken"}
    PROVE  Lawful(s, Exec(s, q, step, id).s, q, step)
  <1> DEFINE x == Exec(s, q, step, id)
  <1>0. DOMAIN s = Tables /\ "tok" \in Tables /\ "tok" \in RowTables /\ \A k \in DOMAIN s.tok : "tenant" \in DOMAIN s.tok[k]
    BY DEF Sane, Shaped, Tables, RowTables
  <1>1. CASE step = "SaveEnrollmentToken"
    <2> DEFINE row == [by |-> q.by, tenant |-> q.t, used |-> FALSE, expired |-> FALSE]
               z == [s EXCEPT !.tok = Db!Put(s.tok, id, row)]
    <2>1. x = Db!SaveEnrollmentToken(s, id, q.by, q.t)
      BY <1>1, Zenon DEF Exec
    <2>2. x = Db!Ret(z, "ok")
      BY <2>1 DEF Db!SaveEnrollmentToken
    <2>3. "tenant" \in DOMAIN row /\ row.tenant = q.t
      OBVIOUS
    <2>4. \A t : Rightful(s, q, t, step) => q.t = t
      BY <1>1 DEF Rightful, Belongs, TenantCalls
    <2> HIDE DEF row
    <2>5. Lawful(s, z, q, step)
      BY <2>3, <2>4, InsertCall
    <2> HIDE DEF z, x
    <2>6. x.s = z
      BY <2>2 DEF Db!Ret
    <2> QED
      BY <2>5, <2>6 DEF x
  <1>2. CASE step = "RevokeEnrollmentToken"
    <2> DEFINE owned == q.on \in DOMAIN s.tok /\ Db!Sees(s.tok[q.on].tenant, q.t)
               z == [s EXCEPT !.tok[q.on].used = TRUE]
    <2>1. x = Db!RevokeEnrollmentToken(s, q.on, q.t)
      BY <1>2, Zenon DEF Exec
    <2>2. x.s = IF owned THEN z ELSE s
      BY <2>1 DEF Db!RevokeEnrollmentToken, Db!Ret
    <2>3. CASE owned
      <3>1. Rewrites(s, z, "tok", q.on)
        BY <1>0, <2>3, ColumnWritten
      <3>2. \A t : Rightful(s, q, t, step) => s.tok[q.on].tenant = t
        BY <1>2, <2>3 DEF Rightful, Belongs, TenantCalls, Db!Sees, Db!NoTenant
      <3> HIDE DEF z
      <3>3. Lawful(s, z, q, step)
        BY <1>0, <2>3, <3>1, <3>2, RewriteCall
      <3> QED
        BY <2>2, <2>3, <3>3
    <2>4. CASE ~ owned
      BY <2>2, <2>4, NoChange
    <2> QED
      BY <2>3, <2>4
  <1> QED
    BY <1>1, <1>2

\* The tables with rows of tenants.
LEMMA RowFacts ==
    ASSUME NEW s, Sane(s)
    PROVE  /\ DOMAIN s = Tables /\ RowTables \subseteq Tables
           /\ \A f \in RowTables : \A k \in DOMAIN s[f] : "tenant" \in DOMAIN s[f][k]
           /\ {"tok", "dev", "pol", "adm"} \subseteq RowTables \ {"ack"}
  BY DEF Sane, Shaped, Tables, RowTables

\* A call that sets one column of a row of its caller's tenant.
LEMMA ColumnCall ==
    ASSUME NEW s, Sane(s), NEW f \in RowTables \ {"ack"}, NEW k \in DOMAIN s[f], NEW c, c # "tenant", NEW v,
           NEW q, NEW step, \A t : Rightful(s, q, t, step) => s[f][k].tenant = t
    PROVE  Lawful(s, [s EXCEPT ![f][k][c] = v], q, step)
  <1> DEFINE z == [s EXCEPT ![f][k][c] = v]
  <1>1. Rewrites(s, z, f, k)
    BY RowFacts, ColumnWritten
  <1> HIDE DEF z
  <1>2. Lawful(s, z, q, step)
    BY <1>1, RewriteCall
  <1> QED
    BY <1>2 DEF z

\* The calls that write a column of a device's row.
LEMMA DeviceRowCalls ==
    ASSUME NEW s, Sane(s), NEW q, NEW id, NEW step \in {"SetDeviceTags", "reflect"}
    PROVE  Lawful(s, Exec(s, q, step, id).s, q, step)
  <1> DEFINE x == Exec(s, q, step, id)
  <1>0. "dev" \in RowTables \ {"ack"}
    BY DEF RowTables
  <1>1. CASE step = "SetDeviceTags"
    <2> DEFINE tags == normalizeTags(TagsAsked)
               hit == q.on \in DOMAIN s.dev /\ Db!Sees(s.dev[q.on].tenant, q.t)
               z == [s EXCEPT !.dev[q.on].tags = tags]
    <2>1. x = Db!SetDeviceTags(s, q.on, tags, q.t)
      BY <1>1, Zenon DEF Exec
    <2>2. x.s = IF hit THEN z ELSE s
      BY <2>1 DEF Db!SetDeviceTags, Db!Ret
    <2> HIDE DEF tags
    <2>3. CASE hit
      <3>1. \A t : Rightful(s, q, t, step) => s.dev[q.on].tenant = t
        BY <1>1, <2>3 DEF Rightful, Belongs, TenantCalls, Db!Sees, Db!NoTenant
      <3>2. Lawful(s, z, q, step)
        BY <1>0, <2>3, <3>1, ColumnCall
      <3> QED
        BY <2>2, <2>3, <3>2
    <2>4. CASE ~ hit
      BY <2>2, <2>4, NoChange
    <2> QED
      BY <2>3, <2>4
  <1>2. CASE step = "reflect"
    <2> DEFINE status == Reflected[CommandOf[q.op]]
               z == [s EXCEPT !.dev[q.on].status = status]
    <2>1. x = Db!SetDeviceStatus(s, q.on, status)
      BY <1>2, Zenon DEF Exec
    <2>2. x.s = IF q.on \in DOMAIN s.dev THEN z ELSE s
      BY <2>1 DEF Db!SetDeviceStatus, Db!Ret
    <2> HIDE DEF status
    <2>3. CASE q.on \in DOMAIN s.dev
      <3>1. \A t : Rightful(s, q, t, step) => s.dev[q.on].tenant = t
        BY <1>2 DEF Rightful, Belongs, DeviceCalls
      <3>2. Lawful(s, z, q, step)
        BY <1>0, <2>3, <3>1, ColumnCall
      <3> QED
        BY <2>2, <2>3, <3>2
    <2>4. CASE q.on \notin DOMAIN s.dev
      BY <2>2, <2>4, NoChange
    <2> QED
      BY <2>3, <2>4
  <1> QED
    BY <1>1, <1>2

\* The calls that write the row of a policy.
LEMMA PolicyRowCalls ==
    ASSUME NEW s, Sane(s), NEW q, NEW id, id \notin DOMAIN s.pol, NEW step \in {"CreatePolicy", "AddPolicyRule", "BumpPolicyVersion"}
    PROVE  Lawful(s, Exec(s, q, step, id).s, q, step)
  <1> DEFINE x == Exec(s, q, step, id)
             now == Db!Now(s)
  <1>0. "pol" \in RowTables \ {"ack"} /\ "pol" \in Tables /\ DOMAIN s = Tables
    BY RowFacts DEF RowTables, Tables
  <1>a. step # "CreatePolicy" => \A t : Rightful(s, q, t, step) => q.on \in DOMAIN s.pol /\ s.pol[q.on].tenant = t
    BY DEF Rightful, Belongs, PolicyCalls
  <1>1. CASE step = "CreatePolicy"
    <2> DEFINE row == [tenant |-> q.t, version |-> 0, updated |-> now, rules |-> <<>>]
               z == [s EXCEPT !.pol = Db!Put(s.pol, id, row)]
    <2>1. x = Db!CreatePolicy(s, id, q.t)
      BY <1>1, Zenon DEF Exec
    <2>2. x = Db!Ret(z, id)
      BY <2>1 DEF Db!CreatePolicy
    <2> HIDE DEF now
    <2>3. "tenant" \in DOMAIN row /\ row.tenant = q.t
      OBVIOUS
    <2>4. \A t : Rightful(s, q, t, step) => q.t = t
      BY <1>1 DEF Rightful, Belongs, TenantCalls
    <2> HIDE DEF row
    <2>5. Lawful(s, z, q, step)
      BY <2>3, <2>4, InsertCall
    <2> HIDE DEF z, x
    <2>6. x.s = z
      BY <2>2 DEF Db!Ret
    <2> QED
      BY <2>5, <2>6 DEF x
  <1>2. CASE step = "AddPolicyRule"
    <2> DEFINE rules == Append(s.pol[q.on].rules, [target |-> q.arg, days |-> 0 .. 6])
               z == [s EXCEPT !.pol[q.on].rules = rules]
    <2>1. x = Db!AddPolicyRule(s, q.on, q.arg, {})
      BY <1>2, Zenon DEF Exec
    <2>2. x.s = IF q.on \in DOMAIN s.pol THEN z ELSE s
      <3>1. q.on \notin DOMAIN s.pol => x = Db!Ret(s, "error")
        BY <2>1 DEF Db!AddPolicyRule
      <3>2. q.on \in DOMAIN s.pol => x = Db!Ret(z, "ok")
        BY <2>1 DEF Db!AddPolicyRule
      <3> HIDE DEF z, x
      <3> QED
        BY <3>1, <3>2 DEF Db!Ret
    <2> HIDE DEF rules
    <2>3. CASE q.on \in DOMAIN s.pol
      <3>1. Lawful(s, z, q, step)
        <4>1. \A t : Rightful(s, q, t, step) => s.pol[q.on].tenant = t
          BY <1>2, <1>a
        <4> QED
          BY <1>0, <2>3, <4>1, ColumnCall
      <3> QED
        BY <2>2, <2>3, <3>1
    <2>4. CASE q.on \notin DOMAIN s.pol
      BY <2>2, <2>4, NoChange
    <2> QED
      BY <2>3, <2>4
  <1>3. CASE step = "BumpPolicyVersion"
    <2> DEFINE y == [s EXCEPT !.pol[q.on].version = now]
               z == [y EXCEPT !.pol[q.on].updated = now]
    <2>1. x = Db!BumpPolicyVersion(s, q.on)
      BY <1>3, Zenon DEF Exec
    <2>2. x.s = IF q.on \in DOMAIN s.pol THEN z ELSE s
      <3>1. q.on \notin DOMAIN s.pol => x = Db!Ret(s, "error")
        BY <2>1 DEF Db!BumpPolicyVersion
      <3>2. q.on \in DOMAIN s.pol => x = Db!Ret(z, "ok")
        BY <2>1 DEF Db!BumpPolicyVersion
      <3> HIDE DEF z, x
      <3> QED
        BY <3>1, <3>2 DEF Db!Ret
    <2> HIDE DEF now
    <2>3. CASE q.on \in DOMAIN s.pol
      <3>1. Rewrites(s, y, "pol", q.on) /\ "tenant" \in DOMAIN y.pol[q.on]
        BY <1>0, <2>3, RowFacts, ColumnWritten
      <3> HIDE DEF y
      <3>2. DOMAIN y = Tables /\ q.on \in DOMAIN y.pol
        BY <3>1 DEF Rewrites, Keeps
      <3>3. Rewrites(y, z, "pol", q.on)
        BY <1>0, <3>1, <3>2, ColumnWritten
      <3> HIDE DEF z
      <3>4. Rewrites(s, z, "pol", q.on)
        BY <1>0, <2>3, <3>1, <3>3, RewrittenTwice
      <3>5. \A t : Rightful(s, q, t, step) => s.pol[q.on].tenant = t
        BY <1>3, <1>a
      <3>6. Lawful(s, z, q, step)
        BY <1>0, <2>3, <3>4, <3>5, RewriteCall
      <3> QED
        BY <2>2, <2>3, <3>6
    <2>4. CASE q.on \notin DOMAIN s.pol
      BY <2>2, <2>4, NoChange
    <2> QED
      BY <2>3, <2>4
  <1> QED
    BY <1>1, <1>2, <1>3

\* The calls that write the row of an administrator.
LEMMA AdminRowCalls ==
    ASSUME NEW s, Sane(s), NEW q, NEW id, id \notin DOMAIN s.adm, NEW step \in AdminCalls
    PROVE  Lawful(s, Exec(s, q, step, id).s, q, step)
  <1> DEFINE x == Exec(s, q, step, id)
             reach == Db!AdminReachable(s, q.on, q.t)
  <1>0. "adm" \in RowTables \ {"ack"}
    BY DEF RowTables
  <1>a. \A t : Rightful(s, q, t, step) => q.t = t /\ t # ""
    BY DEF Rightful, Belongs, TenantCalls, AdminCalls
  <1>b. reach => q.on \in DOMAIN s.adm /\ \A t : Rightful(s, q, t, step) => s.adm[q.on].tenant = t
    BY <1>a DEF Db!AdminReachable, Db!Sees, Db!NoTenant
  <1>1. CASE step = "CreateAdmin"
    <2> DEFINE row == [email |-> q.email, role |-> q.arg2, tenant |-> q.t, active |-> TRUE,
                       secret |-> "", pending |-> "", enrolled |-> FALSE, step |-> 0]
               z == [s EXCEPT !.adm = Db!Put(s.adm, id, row)]
    <2>1. x = Db!CreateAdmin(s, id, q.email, q.arg2, q.t)
      BY <1>1, Zenon DEF Exec
    <2>2. x = Db!Ret(s, "error") \/ x = Db!Ret(z, id)
      BY <2>1, Zenon DEF Db!CreateAdmin
    <2>3. "tenant" \in DOMAIN row /\ row.tenant = q.t
      OBVIOUS
    <2> HIDE DEF row
    <2>4. Lawful(s, z, q, step)
      BY <1>a, <2>3, InsertCall
    <2> HIDE DEF z, x
    <2>5. x.s = z \/ x.s = s
      BY <2>2 DEF Db!Ret
    <2> QED
      BY <2>4, <2>5, NoChange DEF x
  <1>2. CASE step = "SetAdminRole"
    <2> DEFINE z == [s EXCEPT !.adm[q.on].role = q.arg]
    <2>1. x = Db!SetAdminRole(s, q.on, q.arg, q.t)
      BY <1>2, Zenon DEF Exec
    <2>2. x.s = IF reach THEN z ELSE s
      <3>1. reach => x = Db!Ret(z, "ok")
        BY <2>1 DEF Db!SetAdminRole
      <3>2. ~ reach => \E r : x = Db!Ret(s, r)
        BY <2>1 DEF Db!SetAdminRole
      <3> HIDE DEF z, x, reach
      <3> QED
        BY <3>1, <3>2 DEF Db!Ret
    <2>3. CASE reach
      <3>1. Lawful(s, z, q, step)
        <4>1. q.on \in DOMAIN s.adm /\ \A t : Rightful(s, q, t, step) => s.adm[q.on].tenant = t
          BY <1>b, <2>3
        <4> QED
          BY <1>0, <4>1, ColumnCall
      <3> QED
        BY <2>2, <2>3, <3>1
    <2>4. CASE ~ reach
      BY <2>2, <2>4, NoChange
    <2> QED
      BY <2>3, <2>4
  <1>3. CASE step = "DeactivateAdmin"
    <2> DEFINE z == [s EXCEPT !.adm[q.on].active = FALSE]
    <2>1. x = Db!DeactivateAdmin(s, q.on, q.t)
      BY <1>3, Zenon DEF Exec
    <2>2. x.s = IF reach THEN z ELSE s
      <3>1. reach => x = Db!Ret(z, "ok")
        BY <2>1 DEF Db!DeactivateAdmin
      <3>2. ~ reach => \E r : x = Db!Ret(s, r)
        BY <2>1 DEF Db!DeactivateAdmin
      <3> HIDE DEF z, x, reach
      <3> QED
        BY <3>1, <3>2 DEF Db!Ret
    <2>3. CASE reach
      <3>1. Lawful(s, z, q, step)
        <4>1. q.on \in DOMAIN s.adm /\ \A t : Rightful(s, q, t, step) => s.adm[q.on].tenant = t
          BY <1>b, <2>3
        <4> QED
          BY <1>0, <4>1, ColumnCall
      <3> QED
        BY <2>2, <2>3, <3>1
    <2>4. CASE ~ reach
      BY <2>2, <2>4, NoChange
    <2> QED
      BY <2>3, <2>4
  <1> QED
    BY <1>1, <1>2, <1>3 DEF AdminCalls

\* One more column of the same row.
LEMMA ColumnMore ==
    ASSUME NEW s, NEW y, NEW f \in Tables, NEW k \in DOMAIN s[f], Rewrites(s, y, f, k), "tenant" \in DOMAIN y[f][k],
           NEW c, c # "tenant", NEW v
    PROVE  LET z == [y EXCEPT ![f][k][c] = v] IN Rewrites(s, z, f, k) /\ "tenant" \in DOMAIN z[f][k]
  <1> DEFINE z == [y EXCEPT ![f][k][c] = v]
  <1>1. DOMAIN y = Tables /\ k \in DOMAIN y[f]
    BY DEF Rewrites, Keeps
  <1>2. Rewrites(y, z, f, k) /\ "tenant" \in DOMAIN z[f][k]
    BY <1>1, ColumnWritten
  <1> HIDE DEF z
  <1>3. Rewrites(s, z, f, k) /\ "tenant" \in DOMAIN z[f][k]
    BY <1>2, RewrittenTwice
  <1> QED
    BY <1>3 DEF z

\* The calls that write the caller's own codes.
LEMMA CodeRowCalls ==
    ASSUME NEW s, Sane(s), NEW q, NEW id, NEW step \in {"SetPendingMFASecret", "ActivateMFA", "DisableMFA", "ConsumeTOTPStep"}
    PROVE  Lawful(s, Exec(s, q, step, id).s, q, step)
  <1> DEFINE x == Exec(s, q, step, id)
             a == q.by
  <1>0. "adm" \in RowTables \ {"ack"} /\ "adm" \in Tables /\ DOMAIN s = Tables
        /\ \A k \in DOMAIN s.adm : "tenant" \in DOMAIN s.adm[k]
    BY RowFacts DEF RowTables, Tables
  <1>a. \A t : Rightful(s, q, t, step) => s.adm[a].tenant = t
    BY DEF Rightful
  <1>b. Lawful(s, s, q, step)
    BY NoChange
  <1>1. CASE step = "SetPendingMFASecret"
    <2> DEFINE z == [s EXCEPT !.adm[a].pending = q.arg]
    <2>1. x = Db!SetPendingMFASecret(s, a, q.arg)
      BY <1>1, Zenon DEF Exec
    <2>2. x.s = IF a \in DOMAIN s.adm THEN z ELSE s
      BY <2>1 DEF Db!SetPendingMFASecret, Db!Ret
    <2>3. a \in DOMAIN s.adm => Lawful(s, z, q, step)
      BY <1>0, <1>a, ColumnCall
    <2> QED
      BY <1>b, <2>2, <2>3
  <1>2. CASE step = "ActivateMFA"
    <2> DEFINE z1 == [s EXCEPT !.adm[a].secret = s.adm[a].pending]
               z2 == [z1 EXCEPT !.adm[a].pending = ""]
               z3 == [z2 EXCEPT !.adm[a].enrolled = TRUE]
    <2>1. x = Db!ActivateMFA(s, a)
      BY <1>2, Zenon DEF Exec
    <2>2. x = Db!Ret(s, "ok") \/ (a \in DOMAIN s.adm /\ x = Db!Ret(z3, "ok"))
      BY <2>1, Zenon DEF Db!ActivateMFA
    <2>3. a \in DOMAIN s.adm => Lawful(s, z3, q, step)
      <3> HAVE a \in DOMAIN s.adm
      <3>1. Rewrites(s, z1, "adm", a) /\ "tenant" \in DOMAIN z1.adm[a]
        BY <1>0, ColumnWritten
      <3> HIDE DEF z1
      <3>2. Rewrites(s, z2, "adm", a) /\ "tenant" \in DOMAIN z2.adm[a]
        BY <1>0, <3>1, ColumnMore
      <3> HIDE DEF z2
      <3>3. Rewrites(s, z3, "adm", a)
        BY <1>0, <3>2, ColumnMore
      <3> HIDE DEF z3
      <3> QED
        BY <1>0, <1>a, <3>3, RewriteCall
    <2> HIDE DEF z3, x
    <2> QED
      BY <1>b, <2>2, <2>3 DEF Db!Ret, x
  <1>3. CASE step = "DisableMFA"
    <2> DEFINE z1 == [s EXCEPT !.adm[a].secret = ""]
               z2 == [z1 EXCEPT !.adm[a].pending = ""]
               z3 == [z2 EXCEPT !.adm[a].enrolled = FALSE]
               z4 == [z3 EXCEPT !.adm[a].step = 0]
    <2>1. x = Db!DisableMFA(s, a)
      BY <1>3, Zenon DEF Exec
    <2>2. x = Db!Ret(s, "ok") \/ (a \in DOMAIN s.adm /\ x = Db!Ret(z4, "ok"))
      BY <2>1, Zenon DEF Db!DisableMFA
    <2>3. a \in DOMAIN s.adm => Lawful(s, z4, q, step)
      <3> HAVE a \in DOMAIN s.adm
      <3>1. Rewrites(s, z1, "adm", a) /\ "tenant" \in DOMAIN z1.adm[a]
        BY <1>0, ColumnWritten
      <3> HIDE DEF z1
      <3>2. Rewrites(s, z2, "adm", a) /\ "tenant" \in DOMAIN z2.adm[a]
        BY <1>0, <3>1, ColumnMore
      <3> HIDE DEF z2
      <3>3. Rewrites(s, z3, "adm", a) /\ "tenant" \in DOMAIN z3.adm[a]
        BY <1>0, <3>2, ColumnMore
      <3> HIDE DEF z3
      <3>4. Rewrites(s, z4, "adm", a)
        BY <1>0, <3>3, ColumnMore
      <3> HIDE DEF z4
      <3> QED
        BY <1>0, <1>a, <3>4, RewriteCall
    <2> HIDE DEF z4, x
    <2> QED
      BY <1>b, <2>2, <2>3 DEF Db!Ret, x
  <1>4. CASE step = "ConsumeTOTPStep"
    <2> DEFINE z == [s EXCEPT !.adm[a].step = q.code.step]
               y == Db!ConsumeTOTPStep(s, a, q.code.step)
    <2>1. x = Db!Ret(y.s, IF y.r THEN "ok" ELSE "forbidden")
      BY <1>4, Zenon DEF Exec
    <2>2. y = Db!Ret(s, FALSE) \/ (a \in DOMAIN s.adm /\ y = Db!Ret(z, TRUE))
      BY Zenon DEF Db!ConsumeTOTPStep
    <2>3. a \in DOMAIN s.adm => Lawful(s, z, q, step)
      BY <1>0, <1>a, ColumnCall
    <2> HIDE DEF z, y, x
    <2>4. x.s = y.s
      BY <2>1 DEF Db!Ret
    <2>5. y.s = s \/ (a \in DOMAIN s.adm /\ y.s = z)
      BY <2>2 DEF Db!Ret
    <2> QED
      BY <1>b, <2>3, <2>4, <2>5 DEF x
  <1> QED
    BY <1>1, <1>2, <1>3, <1>4

\* The calls that write the marks of an event: the marks get the event's tenant.
LEMMA AckRowCalls ==
    ASSUME NEW s, Sane(s), NEW q, NEW id, NEW step \in EventCalls
    PROVE  Lawful(s, Exec(s, q, step, id).s, q, step)
  <1> DEFINE x == Exec(s, q, step, id)
             on == q.on
             tn == Db!ackTenant(s, on)
             owner == Db!Canonical(Db!EventTenant(s, on))
  <1>0. DOMAIN s = Tables /\ "ack" \in Tables /\ "ack" \in RowTables /\ \A k \in DOMAIN s.ack : "tenant" \in DOMAIN s.ack[k]
    BY RowFacts DEF Tables, RowTables
  <1>1. PICK status, assignee : x = Db!UpsertAck(s, on, q.by, status, assignee)
    <2>1. CASE step = "SetEventAck"
      BY <2>1, Zenon DEF Exec, Db!SetEventAck
    <2>2. CASE step = "SetEventCase"
      BY <2>2, Zenon DEF Exec, Db!SetEventCase
    <2> QED
      BY <2>1, <2>2 DEF EventCalls
  <1>2. owner # "" /\ tn \in {"", owner} /\ (tn = "" => owner = Db!Default)
    BY DEF Db!ackTenant, Db!Canonical, Db!EventTenant, Db!NoTenant, Db!Default
  <1>3. Db!Canonical("") = Db!Default /\ (tn # "" => Db!Canonical(tn) = tn)
    BY DEF Db!Canonical, Db!NoTenant
  <1>4. on \in DOMAIN s.ack => s.ack[on].tenant = owner
    BY DEF Sane, AckRows
  <1> DEFINE row1 == [s.ack[on] EXCEPT !.tenant = IF tn = "" THEN @ ELSE tn, !.by = q.by]
             row2 == [tenant |-> Db!Canonical(tn), status |-> "", assignee |-> "", by |-> q.by]
             row == IF on \in DOMAIN s.ack THEN row1 ELSE row2
             new == [row EXCEPT !.status = IF status = "keep" THEN @ ELSE status, !.assignee = IF assignee = "keep" THEN @ ELSE assignee]
             z == [s EXCEPT !.ack = Db!Put(s.ack, on, new)]
  <1>5. x = Db!Ret(z, "ok")
    BY <1>1, Zenon DEF Db!UpsertAck
  <1> HIDE DEF tn, owner
  <1>6. on \in DOMAIN s.ack => "tenant" \in DOMAIN row1 /\ row1.tenant = owner
    BY <1>0, <1>2, <1>4
  <1>7. "tenant" \in DOMAIN row2 /\ row2.tenant = owner
    BY <1>2, <1>3
  <1> HIDE DEF row1, row2
  <1>8. "tenant" \in DOMAIN row /\ row.tenant = owner
    BY <1>6, <1>7
  <1> HIDE DEF row
  <1>9. "tenant" \in DOMAIN new /\ new.tenant = owner
    BY <1>8
  <1> HIDE DEF new
  <1>10. Touches(s.ack, Db!Put(s.ack, on, new), on) /\ Db!Put(s.ack, on, new)[on] = new
    <2>1. CASE on \notin DOMAIN s.ack
      BY <1>9, <2>1, NewRow
    <2>2. CASE on \in DOMAIN s.ack
      BY <1>4, <1>9, <2>2 DEF Touches, Db!Put
    <2> QED
      BY <2>1, <2>2
  <1>11. Keeps(s, z, {"ack"}) /\ z.ack = Db!Put(s.ack, on, new)
    BY <1>0, Replaced
  <1> HIDE DEF z
  <1>12. \A t : Rightful(s, q, t, step) => z.ack[on].tenant = t
    <2> SUFFICES ASSUME NEW t, Rightful(s, q, t, step) PROVE z.ack[on].tenant = t
      OBVIOUS
    <2>1. t # "" /\ Db!EventTenant(s, on) = t
      BY DEF Rightful, Belongs
    <2>2. owner = t
      BY <2>1 DEF owner, Db!Canonical, Db!NoTenant
    <2>3. z.ack[on].tenant = owner
      BY <1>9, <1>10, <1>11
    <2> QED
      BY <2>2, <2>3
  <1>13. z.ack[on].tenant = Db!Canonical(Db!EventTenant(s, on))
    BY <1>9, <1>10, <1>11 DEF owner
  <1> HIDE DEF x, on
  <1>14. Touches(s.ack, z.ack, on)
    BY <1>10, <1>11
  <1>15. Lawful(s, z, q, step)
    BY <1>0, <1>11, <1>12, <1>13, <1>14, RowChange
  <1> QED
    BY <1>5, <1>15 DEF x, Db!Ret

\* A call that leaves the rows of tenants and changes tables that hang on devices and administrators.
LEMMA OtherChange ==
    ASSUME NEW s, Sane(s), NEW z, NEW F, Keeps(s, z, F), F \cap RowTables = {}, \A g \in F \cap RowSeqs : IsSeq(z[g]),
           CertRows(z), EventRows(z), AckRows(z), NEW q, NEW step,
           \A t : Rightful(s, q, t, step) =>
             \A k \in F : PartOf(k, z[k], DevsOf(s, t), AdmsOf(s, t), t) = PartOf(k, s[k], DevsOf(s, t), AdmsOf(s, t), t)
    PROVE  Lawful(s, z, q, step)
  <1>1. RowTables \subseteq Tables /\ RowSeqs \subseteq Tables /\ {"tok", "dev", "pol", "adm", "ack"} = RowTables
    BY DEF Tables, RowTables, RowSeqs
  <1>2. DOMAIN z = Tables /\ \A g \in RowTables : z[g] = s[g]
    BY <1>1 DEF Keeps
  <1>3. z.dev = s.dev /\ z.adm = s.adm /\ z.pol = s.pol /\ z.ack = s.ack
    BY <1>1, <1>2
  <1>4. Shaped(z)
    <2>1. \A g \in RowSeqs : IsSeq(z[g])
      BY <1>1 DEF Keeps, Sane, Shaped
    <2> QED
      BY <1>2, <2>1 DEF Sane, Shaped
  <1>5. Grown(s, z)
    BY <1>3 DEF Grown
  <1>6. ASSUME NEW t, Rightful(s, q, t, step) PROVE Stays(s, z, t)
    <2>1. \A k \in Tables \ F : Part(z, k, t) = Part(s, k, t)
      BY <1>3, SameParts
    <2>2. DevsOf(z, t) = DevsOf(s, t) /\ AdmsOf(z, t) = AdmsOf(s, t)
      BY <1>3 DEF DevsOf, AdmsOf
    <2>3. \A k \in F : PartOf(k, z[k], DevsOf(s, t), AdmsOf(s, t), t) = PartOf(k, s[k], DevsOf(s, t), AdmsOf(s, t), t)
      BY <1>6
    <2>4. \A k \in F : Part(z, k, t) = Part(s, k, t)
      BY <2>2, <2>3 DEF Part
    <2> QED
      BY <2>1, <2>4 DEF Stays
  <1> QED
    BY <1>3, <1>4, <1>5, <1>6 DEF Lawful, Sane

\* The same of one such table that carries neither telemetry nor certificates.
LEMMA SideChange ==
    ASSUME NEW s, Sane(s), NEW f \in {"cmd", "aud", "wipe", "asg"}, NEW v, f \in RowSeqs => IsSeq(v), NEW q, NEW step,
           \A t : Rightful(s, q, t, step) =>
             PartOf(f, v, DevsOf(s, t), AdmsOf(s, t), t) = PartOf(f, s[f], DevsOf(s, t), AdmsOf(s, t), t)
    PROVE  Lawful(s, [s EXCEPT ![f] = v], q, step)
  <1> DEFINE z == [s EXCEPT ![f] = v]
  <1>1. DOMAIN s = Tables /\ f \in Tables /\ {"ev", "cert", "dev", "ack"} \subseteq Tables \ {f} /\ {f} \cap RowTables = {}
    BY DEF Sane, Shaped, Tables, RowTables
  <1>2. Keeps(s, z, {f}) /\ z[f] = v
    BY <1>1, Replaced
  <1> HIDE DEF z
  <1>3. z.ev = s.ev /\ z.cert = s.cert /\ z.dev = s.dev /\ z.ack = s.ack
    BY <1>1, <1>2 DEF Keeps
  <1>4. CertRows(z) /\ EventRows(z)
    BY <1>3 DEF Sane, CertRows, EventRows
  <1>5. AckRows(z)
    <2>1. \A i : Db!EventTenant(z, i) = Db!EventTenant(s, i)
      BY <1>3 DEF Db!EventTenant
    <2> QED
      BY <1>3, <2>1 DEF Sane, AckRows
  <1>6. \A g \in {f} \cap RowSeqs : IsSeq(z[g])
    BY <1>2
  <1>7. \A t : Rightful(s, q, t, step) =>
          \A k \in {f} : PartOf(k, z[k], DevsOf(s, t), AdmsOf(s, t), t) = PartOf(k, s[k], DevsOf(s, t), AdmsOf(s, t), t)
    BY <1>2
  <1>8. Lawful(s, z, q, step)
    BY <1>1, <1>2, <1>4, <1>5, <1>6, <1>7, OtherChange
  <1> QED
    BY <1>8 DEF z

\* A device of tenant t is not one of the other tenants', and neither is its administrator.
LEMMA OwnDevice ==
    ASSUME NEW s, NEW q, NEW t, NEW step, Rightful(s, q, t, step)
    PROVE  /\ q.by \notin AdmsOf(s, t)
           /\ step \in DeviceCalls => q.on \in DOMAIN s.dev /\ q.on \notin DevsOf(s, t)
           /\ DevsOf(s, t) \subseteq DOMAIN s.dev
  BY DEF Rightful, Belongs, DevsOf, AdmsOf, Others, Restrict

\* The rows of q whose column d or by is one of C.
DevRows(q, C) == {x \in Range(q) : x.dev \in C}
ByRows(q, C) == {x \in Range(q) : x.by \in C}

\* The parts of commands, artifacts and the audit trail.
LEMMA QueueParts ==
    ASSUME NEW q, NEW D, NEW A, NEW t
    PROVE  /\ PartOf("cmd", q, D, A, t) = Db!Keep(q, DevRows(q, D))
           /\ PartOf("art", q, D, A, t) = Db!Keep(q, DevRows(q, D))
           /\ PartOf("aud", q, D, A, t) = Db!Keep(q, ByRows(q, A))
  BY DEF PartOf, RowTables, DevRows, ByRows

\* A row for a device of its own does not change what another tenant's devices have.
LEMMA DevAppend ==
    ASSUME NEW q, IsSeq(q), NEW e, NEW D, e.dev \notin D
    PROVE  Db!Keep(Append(q, e), DevRows(Append(q, e), D)) = Db!Keep(q, DevRows(q, D))
  <1> DEFINE w == Append(q, e)
             K == DevRows(q, D)
             L == DevRows(w, D)
  <1>1. DOMAIN q \subseteq DOMAIN w /\ \A i \in DOMAIN q : w[i] = q[i]
    BY Grows
  <1> HIDE DEF w
  <1>2. e \notin L
    BY DEF DevRows
  <1>3. \A i \in DOMAIN q : q[i] \in Range(q) /\ q[i] \in Range(w)
    BY <1>1 DEF Range
  <1>4. \A i \in DOMAIN q : q[i] \in K <=> q[i] \in L
    BY <1>3 DEF DevRows
  <1> HIDE DEF K, L
  <1>5. Db!Keep(Append(q, e), L) = Db!Keep(q, K)
    BY <1>2, <1>4, AppendLeavesOut
  <1> QED
    BY <1>5 DEF w, K, L

\* The same of the entries of administrators.
LEMMA ByAppend ==
    ASSUME NEW q, IsSeq(q), NEW e, NEW A, e.by \notin A
    PROVE  Db!Keep(Append(q, e), ByRows(Append(q, e), A)) = Db!Keep(q, ByRows(q, A))
  <1> DEFINE w == Append(q, e)
             K == ByRows(q, A)
             L == ByRows(w, A)
  <1>1. DOMAIN q \subseteq DOMAIN w /\ \A i \in DOMAIN q : w[i] = q[i]
    BY Grows
  <1> HIDE DEF w
  <1>2. e \notin L
    BY DEF ByRows
  <1>3. \A i \in DOMAIN q : q[i] \in Range(q) /\ q[i] \in Range(w)
    BY <1>1 DEF Range
  <1>4. \A i \in DOMAIN q : q[i] \in K <=> q[i] \in L
    BY <1>3 DEF ByRows
  <1> HIDE DEF K, L
  <1>5. Db!Keep(Append(q, e), L) = Db!Keep(q, K)
    BY <1>2, <1>4, AppendLeavesOut
  <1> QED
    BY <1>5 DEF w, K, L

\* Queueing a command and writing the audit trail.
LEMMA QueueCalls ==
    ASSUME NEW s, Sane(s), NEW q, NEW id, NEW step \in {"enqueue", "audit"}
    PROVE  Lawful(s, Exec(s, q, step, id).s, q, step)
  <1> DEFINE x == Exec(s, q, step, id)
  <1>0. DOMAIN s = Tables /\ IsSeq(s.cmd) /\ IsSeq(s.aud)
    BY DEF Sane, Shaped, RowSeqs
  <1>1. CASE step = "enqueue"
    <2> DEFINE e == Queued(q)
               v == Append(s.cmd, e)
               z == [s EXCEPT !.cmd = v]
               type == IF q.op = "WipeDevice" THEN "WIPE" ELSE CommandOf[q.op]
    <2>1. x = Db!EnqueueCommand(s, q.on, type, q.by)
      BY <1>1, Zenon DEF Exec
    <2>2. type = CommandOf[q.op]
      BY DEF CommandOf
    <2>3. Db!EnqueueCommand(s, q.on, CommandOf[q.op], q.by) = Db!Ret(z, "ok")
      BY DEF Db!EnqueueCommand, Queued
    <2>4. e.dev = q.on
      BY DEF Queued
    <2> HIDE DEF type, x, e
    <2>5. ASSUME NEW t, Rightful(s, q, t, step)
          PROVE  PartOf("cmd", v, DevsOf(s, t), AdmsOf(s, t), t) = PartOf("cmd", s.cmd, DevsOf(s, t), AdmsOf(s, t), t)
      <3>1. e.dev \notin DevsOf(s, t)
        BY <1>1, <2>4, <2>5, OwnDevice DEF DeviceCalls
      <3>2. Db!Keep(v, DevRows(v, DevsOf(s, t))) = Db!Keep(s.cmd, DevRows(s.cmd, DevsOf(s, t)))
        BY <1>0, <3>1, DevAppend
      <3> HIDE DEF v
      <3>3. PartOf("cmd", v, DevsOf(s, t), AdmsOf(s, t), t) = Db!Keep(v, DevRows(v, DevsOf(s, t)))
        BY QueueParts
      <3>4. PartOf("cmd", s.cmd, DevsOf(s, t), AdmsOf(s, t), t) = Db!Keep(s.cmd, DevRows(s.cmd, DevsOf(s, t)))
        BY QueueParts
      <3> QED
        BY <3>2, <3>3, <3>4
    <2>6. IsSeq(v)
      BY <1>0, Grows
    <2> HIDE DEF v
    <2>7. Lawful(s, z, q, step)
      BY <2>5, <2>6, SideChange
    <2> HIDE DEF z
    <2>8. x.s = z
      BY <2>1, <2>2, <2>3 DEF Db!Ret
    <2> QED
      BY <2>7, <2>8 DEF x
  <1>2. CASE step = "audit"
    <2> DEFINE tn == IF q.by \in DOMAIN s.adm THEN s.adm[q.by].tenant ELSE Db!NoTenant
               e == [by |-> q.by, tenant |-> tn, action |-> q.op, hash |-> Db!AuditChainHash(Db!LastHash(s), tn, q.by, q.op)]
               v == Append(s.aud, e)
               z == [s EXCEPT !.aud = v]
    <2>1. x = Db!WriteAudit(s, q.by, q.op)
      BY <1>2, Zenon DEF Exec
    <2>2. Db!WriteAudit(s, q.by, q.op) = Db!Ret(z, "ok")
      BY DEF Db!WriteAudit
    <2> HIDE DEF tn
    <2>4. e.by = q.by
      OBVIOUS
    <2> HIDE DEF x, e
    <2>5. ASSUME NEW t, Rightful(s, q, t, step)
          PROVE  PartOf("aud", v, DevsOf(s, t), AdmsOf(s, t), t) = PartOf("aud", s.aud, DevsOf(s, t), AdmsOf(s, t), t)
      <3>1. e.by \notin AdmsOf(s, t)
        BY <2>4, <2>5, OwnDevice
      <3>2. Db!Keep(v, ByRows(v, AdmsOf(s, t))) = Db!Keep(s.aud, ByRows(s.aud, AdmsOf(s, t)))
        BY <1>0, <3>1, ByAppend
      <3> HIDE DEF v
      <3>3. PartOf("aud", v, DevsOf(s, t), AdmsOf(s, t), t) = Db!Keep(v, ByRows(v, AdmsOf(s, t)))
        BY QueueParts
      <3>4. PartOf("aud", s.aud, DevsOf(s, t), AdmsOf(s, t), t) = Db!Keep(s.aud, ByRows(s.aud, AdmsOf(s, t)))
        BY QueueParts
      <3> QED
        BY <3>2, <3>3, <3>4
    <2>6. IsSeq(v)
      BY <1>0, Grows
    <2> HIDE DEF v
    <2>7. Lawful(s, z, q, step)
      BY <2>5, <2>6, SideChange
    <2> HIDE DEF z
    <2>8. x.s = z
      BY <2>1, <2>2 DEF Db!Ret
    <2> QED
      BY <2>7, <2>8 DEF x
  <1> QED
    BY <1>1, <1>2

\* The pending wipe of a device is nothing of the other tenants'.
LEMMA WipeChange ==
    ASSUME NEW s, Sane(s), NEW v, NEW d, DOMAIN v \ {d} = DOMAIN s.wipe \ {d}, \A k \in DOMAIN s.wipe : k # d => v[k] = s.wipe[k],
           NEW q, q.on = d, NEW step \in DeviceCalls
    PROVE  Lawful(s, [s EXCEPT !.wipe = v], q, step)
  <1>1. ASSUME NEW t, Rightful(s, q, t, step)
        PROVE  PartOf("wipe", v, DevsOf(s, t), AdmsOf(s, t), t) = PartOf("wipe", s.wipe, DevsOf(s, t), AdmsOf(s, t), t)
    <2> DEFINE D == DevsOf(s, t)
    <2>1. d \notin D
      BY <1>1, OwnDevice
    <2> HIDE DEF D
    <2>2. DOMAIN v \cap D = DOMAIN s.wipe \cap D /\ \A k \in DOMAIN s.wipe \cap D : v[k] = s.wipe[k]
      BY <2>1
    <2>3. Restrict(v, DOMAIN v \cap D) = Restrict(s.wipe, DOMAIN s.wipe \cap D)
      BY <2>2 DEF Restrict
    <2>4. PartOf("wipe", v, D, AdmsOf(s, t), t) = Restrict(v, DOMAIN v \cap D)
      BY DEF PartOf, RowTables
    <2>5. PartOf("wipe", s.wipe, D, AdmsOf(s, t), t) = Restrict(s.wipe, DOMAIN s.wipe \cap D)
      BY DEF PartOf, RowTables
    <2> QED
      BY <2>3, <2>4, <2>5 DEF D
  <1>2. "wipe" \notin RowSeqs
    BY DEF RowSeqs
  <1> QED
    BY <1>1, <1>2, SideChange

\* Asking for a wipe, dropping the request and claiming it.
LEMMA PendingCalls ==
    ASSUME NEW s, Sane(s), NEW q, NEW id, NEW step \in {"SavePendingWipe", "DeletePendingWipe", "ConsumePendingWipe"}
    PROVE  Lawful(s, Exec(s, q, step, id).s, q, step)
  <1> DEFINE x == Exec(s, q, step, id)
             d == q.on
             less == Db!Restrict(s.wipe, DOMAIN s.wipe \ {d})
             z == [s EXCEPT !.wipe = less]
  <1>0. DOMAIN s = Tables /\ step \in DeviceCalls
    BY DEF Sane, Shaped, DeviceCalls
  <1>1. Lawful(s, z, q, step)
    <2>1. DOMAIN less = DOMAIN s.wipe \ {d} /\ \A k \in DOMAIN less : less[k] = s.wipe[k]
      BY DEF Db!Restrict
    <2> HIDE DEF less
    <2>2. DOMAIN less \ {d} = DOMAIN s.wipe \ {d} /\ \A k \in DOMAIN s.wipe : k # d => less[k] = s.wipe[k]
      BY <2>1
    <2> QED
      BY <1>0, <2>2, WipeChange
  <1>2. Db!DeletePendingWipe(s, d) = Db!Ret(z, "ok")
    BY DEF Db!DeletePendingWipe
  <1> HIDE DEF z
  <1>3. Db!DeletePendingWipe(s, d).s = z
    BY <1>2 DEF Db!Ret
  <1>4. CASE step = "SavePendingWipe"
    <2> DEFINE v == Db!Put(s.wipe, d, q.by)
               y == [s EXCEPT !.wipe = v]
    <2>1. x = Db!SavePendingWipe(s, d, q.by)
      BY <1>4, Zenon DEF Exec
    <2>2. x = Db!Ret(y, "ok")
      BY <2>1 DEF Db!SavePendingWipe
    <2>3. DOMAIN v \ {d} = DOMAIN s.wipe \ {d} /\ \A k \in DOMAIN s.wipe : k # d => v[k] = s.wipe[k]
      BY DEF Db!Put
    <2> HIDE DEF v, x
    <2>4. Lawful(s, y, q, step)
      BY <1>0, <2>3, WipeChange
    <2> HIDE DEF y
    <2>5. x.s = y
      BY <2>2 DEF Db!Ret
    <2> QED
      BY <2>4, <2>5 DEF x
  <1>5. CASE step = "DeletePendingWipe"
    <2>1. x = Db!DeletePendingWipe(s, d)
      BY <1>5, Zenon DEF Exec
    <2> QED
      BY <1>1, <1>3, <2>1
  <1>6. CASE step = "ConsumePendingWipe"
    <2>1. x.s = s \/ x.s = Db!DeletePendingWipe(s, d).s
      BY <1>0, <1>6, ClaimCalls
    <2>2. x.s = s \/ x.s = z
      BY <1>3, <2>1
    <2> QED
      BY <1>1, <2>2, NoChange
  <1> QED
    BY <1>4, <1>5, <1>6

\* A certificate row after the revocation of the certificates of d.
LEMMA RevokedRow ==
    ASSUME NEW r, r \in [dev : {r.dev}, revoked : BOOLEAN], NEW d
    PROVE  LET x == [r EXCEPT !.revoked = @ \/ r.dev = d]
           IN  x.dev = r.dev /\ x \in [dev : {x.dev}, revoked : BOOLEAN] /\ (r.dev # d => x = r)
  <1> DEFINE x == [r EXCEPT !.revoked = r.revoked \/ r.dev = d]
  <1>1. x.dev = r.dev
    OBVIOUS
  <1>2. x \in [dev : {x.dev}, revoked : BOOLEAN]
    <2>1. (r.revoked \/ r.dev = d) \in BOOLEAN
      BY Zenon
    <2> DEFINE b == r.revoked \/ r.dev = d
    <2> HIDE DEF b
    <2>2. [r EXCEPT !.revoked = b] \in [dev : {r.dev}, revoked : BOOLEAN]
      BY <2>1 DEF b
    <2> QED
      BY <1>1, <2>2 DEF b
  <1>3. r.dev # d => x = r
    <2> HAVE r.dev # d
    <2>1. (r.revoked \/ r.dev = d) = r.revoked
      <3>1. r.revoked \in BOOLEAN
        OBVIOUS
      <3> QED
        BY <3>1, Zenon
    <2> DEFINE b == r.revoked \/ r.dev = d
    <2>2. b = r.revoked
      BY <2>1
    <2> HIDE DEF b
    <2>3. [r EXCEPT !.revoked = b] = r
      BY <2>2
    <2> QED
      BY <2>3 DEF b
  <1> QED
    BY <1>1, <1>2, <1>3

\* The certificate table after it.
CertsAfter(s, d) == [fp \in DOMAIN s.cert |-> [s.cert[fp] EXCEPT !.revoked = @ \/ s.cert[fp].dev = d]]

\* The certificates of the other tenants' devices stay as they are.
LEMMA CertsStay ==
    ASSUME NEW s, CertRows(s), NEW d
    PROVE  LET c == CertsAfter(s, d)
           IN  /\ \A f \in DOMAIN c : c[f] \in [dev : {c[f].dev}, revoked : BOOLEAN]
               /\ \A D, A, t : d \notin D => PartOf("cert", c, D, A, t) = PartOf("cert", s.cert, D, A, t)
  <1> DEFINE c == CertsAfter(s, d)
  <1>1. DOMAIN c = DOMAIN s.cert /\ \A f \in DOMAIN c : c[f] = [s.cert[f] EXCEPT !.revoked = @ \/ s.cert[f].dev = d]
    BY DEF CertsAfter
  <1>2. ASSUME NEW f \in DOMAIN s.cert
        PROVE  c[f].dev = s.cert[f].dev /\ c[f] \in [dev : {c[f].dev}, revoked : BOOLEAN] /\ (s.cert[f].dev # d => c[f] = s.cert[f])
    <2>1. s.cert[f] \in [dev : {s.cert[f].dev}, revoked : BOOLEAN]
      BY DEF CertRows
    <2> DEFINE r == s.cert[f]
    <2>2. c[f] = [r EXCEPT !.revoked = @ \/ r.dev = d]
      BY <1>1
    <2>3. r \in [dev : {r.dev}, revoked : BOOLEAN]
      BY <2>1
    <2> HIDE DEF r, c
    <2>4. c[f].dev = r.dev /\ c[f] \in [dev : {c[f].dev}, revoked : BOOLEAN] /\ (r.dev # d => c[f] = r)
      BY <2>2, <2>3, RevokedRow
    <2> QED
      BY <2>4 DEF r
  <1> HIDE DEF c
  <1>3. ASSUME NEW D, NEW A, NEW t, d \notin D PROVE PartOf("cert", c, D, A, t) = PartOf("cert", s.cert, D, A, t)
    <2> DEFINE k == {x \in DOMAIN c : c[x].dev \in D}
               l == {x \in DOMAIN s.cert : s.cert[x].dev \in D}
    <2>1. k = l /\ \A f \in l : c[f] = s.cert[f]
      BY <1>1, <1>2, <1>3
    <2>2. PartOf("cert", c, D, A, t) = Restrict(c, k)
      BY DEF PartOf, RowTables
    <2>3. PartOf("cert", s.cert, D, A, t) = Restrict(s.cert, l)
      BY DEF PartOf, RowTables
    <2>4. Restrict(c, k) = Restrict(s.cert, l)
      <3> HIDE DEF k, l
      <3> QED
        BY <2>1 DEF Restrict
    <2> QED
      BY <2>2, <2>3, <2>4
  <1> QED
    BY <1>1, <1>2, <1>3 DEF c

\* Revoking the certificates of a device.
LEMMA CertCall ==
    ASSUME NEW s, Sane(s), NEW q, NEW id
    PROVE  Lawful(s, Exec(s, q, "RevokeDeviceCerts", id).s, q, "RevokeDeviceCerts")
  <1> DEFINE x == Exec(s, q, "RevokeDeviceCerts", id)
             c == CertsAfter(s, q.on)
             z == [s EXCEPT !.cert = c]
  <1>1. x = Db!RevokeDeviceCerts(s, q.on)
    BY Zenon DEF Exec
  <1>2. Db!RevokeDeviceCerts(s, q.on) = Db!Ret(z, "ok")
    BY DEF Db!RevokeDeviceCerts, CertsAfter
  <1>3. DOMAIN s = Tables /\ {"cert", "ev", "dev", "ack"} \subseteq Tables /\ {"cert"} \cap RowTables = {} /\ {"cert"} \cap RowSeqs = {}
    BY DEF Sane, Shaped, Tables, RowTables, RowSeqs
  <1>4. Keeps(s, z, {"cert"}) /\ z.cert = c
    BY <1>3, Replaced
  <1>5. CertRows(s)
    BY DEF Sane
  <1> HIDE DEF z, x
  <1>6. x.s = z
    BY <1>1, <1>2 DEF Db!Ret
  <1>7. z.ev = s.ev /\ z.dev = s.dev /\ z.ack = s.ack
    BY <1>3, <1>4 DEF Keeps
  <1>8. CertRows(z)
    BY <1>4, <1>5, CertsStay DEF CertRows
  <1>9. EventRows(z)
    BY <1>7 DEF Sane, EventRows
  <1>10. AckRows(z)
    <2>1. \A i : Db!EventTenant(z, i) = Db!EventTenant(s, i)
      BY <1>7 DEF Db!EventTenant
    <2> QED
      BY <1>7, <2>1 DEF Sane, AckRows
  <1>11. ASSUME NEW t, Rightful(s, q, t, "RevokeDeviceCerts")
         PROVE \A k \in {"cert"} : PartOf(k, z[k], DevsOf(s, t), AdmsOf(s, t), t) = PartOf(k, s[k], DevsOf(s, t), AdmsOf(s, t), t)
    <2>1. q.on \notin DevsOf(s, t)
      BY <1>11, OwnDevice DEF DeviceCalls
    <2>2. PartOf("cert", c, DevsOf(s, t), AdmsOf(s, t), t) = PartOf("cert", s.cert, DevsOf(s, t), AdmsOf(s, t), t)
      BY <1>5, <2>1, CertsStay
    <2> QED
      BY <1>4, <2>2
  <1>12. Lawful(s, z, q, "RevokeDeviceCerts")
    BY <1>3, <1>4, <1>8, <1>9, <1>10, <1>11, OtherChange
  <1> QED
    BY <1>6, <1>12 DEF x

\* A policy is assigned to a device.
LEMMA AssignCall ==
    ASSUME NEW s, Sane(s), NEW q, NEW id
    PROVE  Lawful(s, Exec(s, q, "AssignPolicy", id).s, q, "AssignPolicy")
  <1> DEFINE x == Exec(s, q, "AssignPolicy", id)
             v == s.asg \cup {<<q.on, q.arg>>}
             z == [s EXCEPT !.asg = v]
  <1>1. x = Db!AssignPolicy(s, q.on, q.arg)
    BY Zenon DEF Exec
  <1>2. Db!AssignPolicy(s, q.on, q.arg) \in {Db!Ret(z, "ok"), Db!Ret(s, "forbidden")}
    BY DEF Db!AssignPolicy
  <1>3. ASSUME NEW t, Rightful(s, q, t, "AssignPolicy")
        PROVE  PartOf("asg", v, DevsOf(s, t), AdmsOf(s, t), t) = PartOf("asg", s.asg, DevsOf(s, t), AdmsOf(s, t), t)
    <2> DEFINE D == DevsOf(s, t)
    <2>1. q.on \notin D
      BY <1>3, OwnDevice DEF DeviceCalls
    <2>2. PartOf("asg", v, D, AdmsOf(s, t), t) = {y \in v : y[1] \in D}
      BY DEF PartOf, RowTables
    <2>3. PartOf("asg", s.asg, D, AdmsOf(s, t), t) = {y \in s.asg : y[1] \in D}
      BY DEF PartOf, RowTables
    <2> HIDE DEF D
    <2>4. {y \in v : y[1] \in D} = {y \in s.asg : y[1] \in D}
      BY <2>1
    <2> QED
      BY <2>2, <2>3, <2>4 DEF D
  <1>4. "asg" \notin RowSeqs
    BY DEF RowSeqs
  <1> HIDE DEF v
  <1>5. Lawful(s, z, q, "AssignPolicy")
    BY <1>3, <1>4, SideChange
  <1> HIDE DEF z, x
  <1>6. x.s = z \/ x.s = s
    BY <1>1, <1>2 DEF Db!Ret
  <1> QED
    BY <1>5, <1>6, NoChange DEF x

\* Publishing and opening a session write nothing.
LEMMA SilentCalls ==
    ASSUME NEW s, Sane(s), NEW q, NEW id, NEW step \in {"publish", "publish policy", "session"}
    PROVE  Lawful(s, Exec(s, q, step, id).s, q, step)
  <1>1. Exec(s, q, step, id) = Db!Ret(s, "ok")
    <2>1. CASE step = "publish"
      BY <2>1, Zenon DEF Exec
    <2>2. CASE step = "publish policy"
      BY <2>2, Zenon DEF Exec
    <2>3. CASE step = "session"
      BY <2>3, Zenon DEF Exec
    <2> QED
      BY <2>1, <2>2, <2>3
  <1> DEFINE x == Exec(s, q, step, id)
  <1>2. x = Db!Ret(s, "ok")
    BY <1>1
  <1> HIDE DEF x
  <1>3. x.s = s
    BY <1>2 DEF Db!Ret
  <1> QED
    BY <1>3, NoChange DEF x

\* What is left of a queue after a deletion: a queue of rows it had.
LEMMA WithoutSeq ==
    ASSUME NEW q, IsSeq(q), NEW d
    PROVE  LET w == Db!Without(q, d) IN IsSeq(w) /\ \A j \in DOMAIN w : \E i \in DOMAIN q : w[j] = q[i]
  <1> DEFINE w == Db!Without(q, d)
  <1>1. PICK S : q \in Seq(S)
    BY DEF IsSeq
  <1>2. w \in Seq(S) /\ \A j \in 1 .. Len(w) : \E i \in 1 .. Len(q) : w[j] = q[i]
    BY <1>1, WithoutRows
  <1> HIDE DEF w
  <1>3. DOMAIN w = 1 .. Len(w) /\ DOMAIN q = 1 .. Len(q)
    BY <1>1, <1>2
  <1> QED
    BY <1>2, <1>3 DEF IsSeq, w

\* Deleting the rows of d leaves those of the other tenants' devices.
LEMMA DevDeletion ==
    ASSUME NEW q, IsSeq(q), NEW d, NEW D, d \notin D
    PROVE  LET w == Db!Without(q, d) IN Db!Keep(w, DevRows(w, D)) = Db!Keep(q, DevRows(q, D))
  <1> DEFINE w == Db!Without(q, d)
             K == DevRows(q, D)
             L == DevRows(w, D)
  <1>1. \A j \in DOMAIN w : w[j] \in Range(w) /\ w[j] \in Range(q)
    <2>1. \A j \in DOMAIN w : \E i \in DOMAIN q : w[j] = q[i]
      BY WithoutSeq
    <2> HIDE DEF w
    <2> QED
      BY <2>1 DEF Range
  <1>2. \A i \in DOMAIN q : q[i] \in K => q[i].dev # d
    BY DEF DevRows
  <1>3. \A j \in DOMAIN w : w[j] \in K <=> w[j] \in L
    <2> HIDE DEF w
    <2> QED
      BY <1>1 DEF DevRows
  <1> HIDE DEF K, L
  <1>4. Db!Keep(Db!Without(q, d), L) = Db!Keep(q, K)
    BY <1>2, <1>3, DeletionLeaves
  <1> QED
    BY <1>4 DEF K, L

\* The rows of q that are not of tenant t.
ForeignRows(q, t) == {x \in Range(q) : x.tenant # t}

\* Deleting the telemetry of a device of t leaves that of the other tenants.
LEMMA EventDeletion ==
    ASSUME NEW q, IsSeq(q), NEW d, NEW t, \A i \in DOMAIN q : q[i].dev = d => q[i].tenant = t
    PROVE  LET w == Db!Without(q, d) IN Db!Keep(w, ForeignRows(w, t)) = Db!Keep(q, ForeignRows(q, t))
  <1> DEFINE w == Db!Without(q, d)
             K == ForeignRows(q, t)
             L == ForeignRows(w, t)
  <1>1. \A j \in DOMAIN w : w[j] \in Range(w) /\ w[j] \in Range(q)
    <2>1. \A j \in DOMAIN w : \E i \in DOMAIN q : w[j] = q[i]
      BY WithoutSeq
    <2> HIDE DEF w
    <2> QED
      BY <2>1 DEF Range
  <1>2. \A i \in DOMAIN q : q[i] \in K => q[i].dev # d
    BY DEF ForeignRows
  <1>3. \A j \in DOMAIN w : w[j] \in K <=> w[j] \in L
    <2> HIDE DEF w
    <2> QED
      BY <1>1 DEF ForeignRows
  <1> HIDE DEF K, L
  <1>4. Db!Keep(Db!Without(q, d), L) = Db!Keep(q, K)
    BY <1>2, <1>3, DeletionLeaves
  <1> QED
    BY <1>4 DEF K, L

\* The tables of s after the data of d are erased.
Erased(s, d) ==
  [s EXCEPT !.ev = Db!Without(s.ev, d), !.cmd = Db!Without(s.cmd, d), !.art = Db!Without(s.art, d), !.cert = CertsAfter(s, d)]

\* Which tables those are.
LEMMA ErasedTables ==
    ASSUME NEW s, DOMAIN s = Tables, NEW d
    PROVE  LET z == Erased(s, d)
           IN  /\ Keeps(s, z, {"ev", "cmd", "art", "cert"})
               /\ z.ev = Db!Without(s.ev, d) /\ z.cmd = Db!Without(s.cmd, d) /\ z.art = Db!Without(s.art, d) /\ z.cert = CertsAfter(s, d)
               /\ z.dev = s.dev /\ z.ack = s.ack
  <1>1. {"ev", "cmd", "art", "cert", "dev", "ack"} \subseteq DOMAIN s
    BY DEF Tables
  <1> QED
    BY <1>1 DEF Erased, Keeps

\* Erasing the data of a device, in a store where no event is marked.
LEMMA EraseCall ==
    ASSUME NEW s, Sane(s), DOMAIN s.ack = {}, NEW q, NEW id
    PROVE  Lawful(s, Exec(s, q, "EraseDeviceData", id).s, q, "EraseDeviceData")
  <1> DEFINE x == Exec(s, q, "EraseDeviceData", id)
             d == q.on
             z == Erased(s, d)
             F == {"ev", "cmd", "art", "cert"}
  <1>1. x = Db!EraseDeviceData(s, d)
    BY Zenon DEF Exec
  <1>2. \E r : Db!EraseDeviceData(s, d) = Db!Ret(z, r)
    <2>1. Db!RevokeDeviceCerts(s, d) = Db!Ret([s EXCEPT !.cert = CertsAfter(s, d)], "ok")
      BY DEF Db!RevokeDeviceCerts, CertsAfter
    <2>2. DOMAIN s = Tables /\ "cert" \in Tables
      BY DEF Sane, Shaped, Tables
    <2> DEFINE c == CertsAfter(s, d)
               y == [s EXCEPT !.cert = c]
    <2>3. y.cert = c
      <3> HIDE DEF c
      <3> QED
        BY <2>2
    <2> HIDE DEF c
    <2>4. Db!RevokeDeviceCerts(s, d) = Db!Ret(y, "ok")
      BY <2>1 DEF c
    <2> HIDE DEF y
    <2>5. Db!RevokeDeviceCerts(s, d).s.cert = c
      BY <2>3, <2>4 DEF Db!Ret
    <2> DEFINE k == Db!RevokeDeviceCerts(s, d).s.cert
               e == [s EXCEPT !.ev = Db!Without(@, d), !.cmd = Db!Without(@, d), !.art = Db!Without(@, d), !.cert = k]
    <2>6. \E r : Db!EraseDeviceData(s, d) = Db!Ret(e, r)
      BY Zenon DEF Db!EraseDeviceData
    <2>7. e = z
      BY <2>5 DEF Erased, c
    <2> HIDE DEF e, z
    <2> QED
      BY <2>6, <2>7
  <1>3. DOMAIN s = Tables /\ F \cap RowTables = {} /\ F \cap RowSeqs = {"ev", "cmd", "art"} /\ IsSeq(s.ev) /\ IsSeq(s.cmd) /\ IsSeq(s.art)
    BY DEF Sane, Shaped, RowTables, RowSeqs
  <1>4. /\ Keeps(s, z, F) /\ z.ev = Db!Without(s.ev, d) /\ z.cmd = Db!Without(s.cmd, d) /\ z.art = Db!Without(s.art, d)
        /\ z.cert = CertsAfter(s, d) /\ z.dev = s.dev /\ z.ack = s.ack
    BY <1>3, ErasedTables
  <1> HIDE DEF x, z
  <1>5. x.s = z
    BY <1>1, <1>2 DEF Db!Ret
  <1>6. IsSeq(z.ev) /\ IsSeq(z.cmd) /\ IsSeq(z.art)
    BY <1>3, <1>4, WithoutSeq
  <1>7. CertRows(z)
    <2>1. CertRows(s)
      BY DEF Sane
    <2> QED
      BY <1>4, <2>1, CertsStay DEF CertRows
  <1>8. EventRows(z)
    <2>1. \A j \in DOMAIN z.ev : \E i \in DOMAIN s.ev : z.ev[j] = s.ev[i]
      BY <1>3, <1>4, WithoutSeq
    <2> QED
      BY <1>4, <2>1 DEF Sane, EventRows
  <1>9. AckRows(z)
    BY <1>4 DEF AckRows
  <1>10. ASSUME NEW t, Rightful(s, q, t, "EraseDeviceData")
         PROVE \A k \in F : PartOf(k, z[k], DevsOf(s, t), AdmsOf(s, t), t) = PartOf(k, s[k], DevsOf(s, t), AdmsOf(s, t), t)
    <2> DEFINE D == DevsOf(s, t)
               A == AdmsOf(s, t)
    <2>1. d \notin D
      BY <1>10, OwnDevice DEF DeviceCalls
    <2>2. d \in DOMAIN s.dev /\ s.dev[d].tenant = t
      BY <1>10 DEF Rightful, Belongs, DeviceCalls
    <2>3. \A i \in DOMAIN s.ev : s.ev[i].dev = d => s.ev[i].tenant = t
      BY <2>2 DEF Sane, EventRows
    <2> HIDE DEF D, A, d
    <2>4. PartOf("cert", z.cert, D, A, t) = PartOf("cert", s.cert, D, A, t)
      BY <1>4, <2>1, CertsStay DEF Sane
    <2>5. PartOf("cmd", z.cmd, D, A, t) = PartOf("cmd", s.cmd, D, A, t)
      <3>1. Db!Keep(z.cmd, DevRows(z.cmd, D)) = Db!Keep(s.cmd, DevRows(s.cmd, D))
        BY <1>3, <1>4, <2>1, DevDeletion
      <3> QED
        BY <3>1, QueueParts
    <2>6. PartOf("art", z.art, D, A, t) = PartOf("art", s.art, D, A, t)
      <3>1. Db!Keep(z.art, DevRows(z.art, D)) = Db!Keep(s.art, DevRows(s.art, D))
        BY <1>3, <1>4, <2>1, DevDeletion
      <3> QED
        BY <3>1, QueueParts
    <2>7. PartOf("ev", z.ev, D, A, t) = PartOf("ev", s.ev, D, A, t)
      <3>1. Db!Keep(z.ev, ForeignRows(z.ev, t)) = Db!Keep(s.ev, ForeignRows(s.ev, t))
        BY <1>3, <1>4, <2>3, EventDeletion
      <3>2. PartOf("ev", z.ev, D, A, t) = Db!Keep(z.ev, ForeignRows(z.ev, t))
        BY DEF PartOf, RowTables, ForeignRows
      <3>3. PartOf("ev", s.ev, D, A, t) = Db!Keep(s.ev, ForeignRows(s.ev, t))
        BY DEF PartOf, RowTables, ForeignRows
      <3> QED
        BY <3>1, <3>2, <3>3
    <2> QED
      BY <2>4, <2>5, <2>6, <2>7 DEF D, A
  <1>11. \A g \in F \cap RowSeqs : IsSeq(z[g])
    BY <1>3, <1>6
  <1>12. Lawful(s, z, q, "EraseDeviceData")
    BY <1>3, <1>4, <1>7, <1>8, <1>9, <1>10, <1>11, OtherChange
  <1> QED
    BY <1>5, <1>12 DEF x

\* Every store call a handler makes.
LEMMA AllCalls ==
    ASSUME NEW s, Sane(s), NEW q, NEW step \in Calls, step = "EraseDeviceData" => DOMAIN s.ack = {},
           NEW id, id \notin DOMAIN s.tok, id \notin DOMAIN s.pol, id \notin DOMAIN s.adm
    PROVE  Lawful(s, Exec(s, q, step, id).s, q, step)
  <1>1. CASE step \in {"SaveEnrollmentToken", "RevokeEnrollmentToken"}
    BY <1>1, TokenCalls
  <1>2. CASE step \in {"SetDeviceTags", "reflect"}
    BY <1>2, DeviceRowCalls
  <1>3. CASE step \in {"CreatePolicy", "AddPolicyRule", "BumpPolicyVersion"}
    BY <1>3, PolicyRowCalls
  <1>4. CASE step \in AdminCalls
    BY <1>4, AdminRowCalls
  <1>5. CASE step \in {"SetPendingMFASecret", "ActivateMFA", "DisableMFA", "ConsumeTOTPStep"}
    BY <1>5, CodeRowCalls
  <1>6. CASE step \in EventCalls
    BY <1>6, AckRowCalls
  <1>7. CASE step \in {"enqueue", "audit"}
    BY <1>7, QueueCalls
  <1>8. CASE step \in {"SavePendingWipe", "DeletePendingWipe", "ConsumePendingWipe"}
    BY <1>8, PendingCalls
  <1>9. CASE step = "RevokeDeviceCerts"
    BY <1>9, CertCall
  <1>10. CASE step = "AssignPolicy"
    BY <1>10, AssignCall
  <1>11. CASE step = "EraseDeviceData"
    BY <1>11, EraseCall
  <1>12. CASE step \in {"publish", "publish policy", "session"}
    BY <1>12, SilentCalls
  <1> QED
    BY <1>1, <1>2, <1>3, <1>4, <1>5, <1>6, <1>7, <1>8, <1>9, <1>10, <1>11, <1>12 DEF Calls, AdminCalls, EventCalls

-----------------------------------------------------------------------------
(* The tenant checks of the handlers *)

\* The call belongs to the caller's tenant, if it has one.
Fits(s, by, on, tt, step) == s.adm[by].tenant # "" => Belongs(s, s.adm[by].tenant, on, tt, step)

\* What the checks of request r established for a call.
Fitted(s, r, tt, step) == Fits(s, r.by, r.on, tt, step) /\ (step \in EventCalls => r.op \in EventOps)

\* Every step of the plan belongs to the caller's tenant.
Fitting(s, r, plan) == plan.run \in Seq(Calls) /\ \A i \in 1 .. Len(plan.run) : Fitted(s, r, plan.t, plan.run[i])

\* The calls that write for the caller itself.
OwnCalls ==
  {"SetPendingMFASecret", "ActivateMFA", "DisableMFA", "ConsumeTOTPStep", "audit", "publish", "publish policy", "session"}

Passes(g) == \A i \in DOMAIN g : g[i] \in {"ok", "logged"}

\* Such a call belongs to every tenant.
LEMMA OwnFitted ==
    ASSUME NEW s, NEW r, NEW tt, NEW step \in OwnCalls
    PROVE  step \in Calls /\ Fitted(s, r, tt, step)
  BY DEF OwnCalls, Calls, Fitted, Fits, Belongs, TenantCalls, DeviceCalls, PolicyCalls, EventCalls

\* A plan fits when the checks that let it pass make its calls fit.
LEMMA PlanFits ==
    ASSUME NEW s, NEW r, NEW g, NEW t, NEW w \in Seq(Calls), Passes(g) => \A j \in 1 .. Len(w) : Fitted(s, r, t, w[j])
    PROVE  Fitting(s, r, Plan(g, t, w))
  <1> DEFINE x == Plan(g, t, w)
  <1>1. x.run \in Seq(Calls)
    BY PlanSteps
  <1>2. x.t = t
    BY DEF Plan
  <1>3. ASSUME NEW i \in 1 .. Len(x.run) PROVE x.run[i] = "audit" \/ (Passes(g) /\ \E j \in 1 .. Len(w) : x.run[i] = w[j])
    BY PlanSteps DEF Passes
  <1> HIDE DEF x
  <1>4. ASSUME NEW i \in 1 .. Len(x.run) PROVE Fitted(s, r, t, x.run[i])
    <2>1. CASE x.run[i] = "audit"
      BY <2>1, OwnFitted DEF OwnCalls
    <2>2. CASE Passes(g) /\ \E j \in 1 .. Len(w) : x.run[i] = w[j]
      BY <2>2
    <2> QED
      BY <1>3, <2>1, <2>2
  <1> QED
    BY <1>1, <1>2, <1>4 DEF Fitting, x

\* The guards of a plan that passes.
LEMMA Guards ==
  /\ \A a : Passes(<<a>>) => a \in {"ok", "logged"}
  /\ \A a, b : Passes(<<a, b>>) => a \in {"ok", "logged"} /\ b \in {"ok", "logged"}
  /\ \A a, b, c : Passes(<<a, b, c>>) => a \in {"ok", "logged"} /\ b \in {"ok", "logged"} /\ c \in {"ok", "logged"}
  /\ \A a, b, c, d : Passes(<<a, b, c, d>>) =>
        a \in {"ok", "logged"} /\ b \in {"ok", "logged"} /\ c \in {"ok", "logged"} /\ d \in {"ok", "logged"}
  /\ \A a, b, c, d, e : Passes(<<a, b, c, d, e>>) =>
        a \in {"ok", "logged"} /\ b \in {"ok", "logged"} /\ c \in {"ok", "logged"} /\ d \in {"ok", "logged"} /\ e \in {"ok", "logged"}
  BY DEF Passes

\* A caller with a role is active, and its tenant is the one in its row.
Known(s, a) == a \in DOMAIN s.adm /\ AdminTenant(s, a) = s.adm[a].tenant

\* The role check finds such a caller.
LEMMA Ranked ==
    ASSUME NEW s, NEW a, NEW m \in {"VIEWER", "OPERATOR", "ADMIN"}, require(s, a, m) \in {"ok", "logged"}
    PROVE  Known(s, a)
  <1>1. rank("ADMIN") = 3 /\ rank("OPERATOR") = 2 /\ rank("VIEWER") = 1 /\ rank("") = 0
    BY Zenon DEF rank
  <1>2. rank(Db!AdminRole(s, a)) >= rank(m)
    BY DEF require, If
  <1>3. rank(m) \in {1, 2, 3}
    BY <1>1
  <1>4. Db!AdminRole(s, a) # ""
    <2>1. rank(Db!AdminRole(s, a)) # 0
      <3>1. \A x, y : x = 0 /\ y \in {1, 2, 3} => ~ (x >= y)
        OBVIOUS
      <3> QED
        BY <1>2, <1>3, <3>1, Zenon
    <2> QED
      BY <1>1, <2>1, Zenon
  <1>5. Db!Active(s, a)
    BY <1>4 DEF Db!AdminRole
  <1> QED
    BY <1>5 DEF Known, AdminTenant, Db!AdminTenant, Db!Active

\* So does the role check of a command.
LEMMA CommandRanked ==
    ASSUME NEW s, NEW a, NEW type \in DOMAIN specs, requireCmd(s, a, type) \in {"ok", "logged"}
    PROVE  Known(s, a)
  <1>1. specs[type].min \in {"VIEWER", "OPERATOR", "ADMIN"}
    <2>1. DOMAIN specs = {"QUARANTINE", "UNQUARANTINE", "RUN_SIGNED_SCRIPT", "UNINSTALL", "COLLECT_DIAGNOSTICS", "COLLECT_FILE", "LOCK",
                          "RESTART", "WIPE"}
      BY DEF specs
    <2>2. /\ specs.QUARANTINE.min = "OPERATOR" /\ specs.UNQUARANTINE.min = "OPERATOR" /\ specs.RUN_SIGNED_SCRIPT.min = "ADMIN"
          /\ specs.UNINSTALL.min = "ADMIN" /\ specs.COLLECT_DIAGNOSTICS.min = "OPERATOR" /\ specs.COLLECT_FILE.min = "OPERATOR"
          /\ specs.LOCK.min = "OPERATOR" /\ specs.RESTART.min = "OPERATOR" /\ specs.WIPE.min = "ADMIN"
      BY DEF specs
    <2> QED
      BY <2>1, <2>2
  <1>2. require(s, a, specs[type].min) \in {"ok", "logged"}
    BY DEF requireCmd
  <1> QED
    BY <1>1, <1>2, Ranked

\* The calls for a device fit when the device passed the tenant check.
LEMMA DevicePlan ==
    ASSUME NEW s, NEW r, NEW g, NEW t, NEW w \in Seq(Calls), \A j \in 1 .. Len(w) : w[j] \in DeviceCalls \cup OwnCalls,
           Passes(g) => Known(s, r.by) /\ enforceDeviceTenant(s, r.by, r.on) \in {"ok", "logged"}
    PROVE  Fitting(s, r, Plan(g, t, w))
  <1>1. ASSUME Passes(g), NEW step \in DeviceCalls PROVE Fitted(s, r, t, step)
    <2>1. Known(s, r.by) /\ enforceDeviceTenant(s, r.by, r.on) \in {"ok", "logged"}
      BY <1>1
    <2>2. AdminTenant(s, r.by) = "" \/ Db!TenantForDevice(s, r.on) = AdminTenant(s, r.by)
      BY <2>1 DEF enforceDeviceTenant, deviceCallerTenant, If
    <2>3. s.adm[r.by].tenant # "" => r.on \in DOMAIN s.dev /\ s.dev[r.on].tenant = s.adm[r.by].tenant
      BY <2>1, <2>2 DEF Known, Db!TenantForDevice, Db!NoTenant
    <2> QED
      BY <1>1, <2>3 DEF Fitted, Fits, Belongs, DeviceCalls, TenantCalls, PolicyCalls, EventCalls
  <1>2. Passes(g) => \A j \in 1 .. Len(w) : Fitted(s, r, t, w[j])
    BY <1>1, OwnFitted
  <1> QED
    BY <1>2, PlanFits

\* The calls for a tenant fit when they are given the caller's.
LEMMA TenantPlan ==
    ASSUME NEW s, NEW r, NEW g, NEW t, NEW w \in Seq(Calls), \A j \in 1 .. Len(w) : w[j] \in TenantCalls \cup OwnCalls,
           Passes(g) => (s.adm[r.by].tenant # "" => t = s.adm[r.by].tenant)
    PROVE  Fitting(s, r, Plan(g, t, w))
  <1>1. ASSUME Passes(g), NEW step \in TenantCalls PROVE Fitted(s, r, t, step)
    BY <1>1 DEF Fitted, Fits, Belongs, DeviceCalls, TenantCalls, PolicyCalls, EventCalls
  <1>2. Passes(g) => \A j \in 1 .. Len(w) : Fitted(s, r, t, w[j])
    BY <1>1, OwnFitted
  <1> QED
    BY <1>2, PlanFits

\* Two calls, of which the second is the caller's own.
LEMMA TwoCalls ==
    ASSUME NEW a \in TenantCalls \cup DeviceCalls \cup EventCalls, NEW b \in OwnCalls
    PROVE  <<a, b>> \in Seq(Calls) /\ \A j \in 1 .. Len(<<a, b>>) : <<a, b>>[j] \in {a, b}
  <1>1. a \in Calls /\ b \in Calls
    BY DEF TenantCalls, DeviceCalls, EventCalls, OwnCalls, Calls
  <1> QED
    BY <1>1, Works

\* A plan of such calls for a tenant.
LEMMA TenantTwo ==
    ASSUME NEW s, NEW r, NEW g, NEW t, NEW a \in TenantCalls, Passes(g) => (s.adm[r.by].tenant # "" => t = s.adm[r.by].tenant)
    PROVE  Fitting(s, r, Plan(g, t, <<a, "audit">>))
  <1> DEFINE w == <<a, "audit">>
  <1>1. w \in Seq(Calls) /\ \A j \in 1 .. Len(w) : w[j] \in {a, "audit"}
    BY TwoCalls DEF OwnCalls
  <1>2. {a, "audit"} \subseteq TenantCalls \cup OwnCalls
    BY DEF OwnCalls
  <1> HIDE DEF w
  <1>3. Fitting(s, r, Plan(g, t, w))
    BY <1>1, <1>2, TenantPlan
  <1> QED
    BY <1>3 DEF w

\* And a plan of such calls for a device.
LEMMA DeviceTwo ==
    ASSUME NEW s, NEW r, NEW g, NEW t, NEW a \in DeviceCalls,
           Passes(g) => Known(s, r.by) /\ enforceDeviceTenant(s, r.by, r.on) \in {"ok", "logged"}
    PROVE  Fitting(s, r, Plan(g, t, <<a, "audit">>))
  <1> DEFINE w == <<a, "audit">>
  <1>1. w \in Seq(Calls) /\ \A j \in 1 .. Len(w) : w[j] \in {a, "audit"}
    BY TwoCalls DEF OwnCalls
  <1>2. {a, "audit"} \subseteq DeviceCalls \cup OwnCalls
    BY DEF OwnCalls
  <1> HIDE DEF w
  <1>3. Fitting(s, r, Plan(g, t, w))
    BY <1>1, <1>2, DevicePlan
  <1> QED
    BY <1>3 DEF w

\* The handlers that work for a tenant: the caller's, if it has one.
LEMMA TenantHandlers ==
    ASSUME NEW s, NEW r, {"op", "by", "on", "arg"} \subseteq DOMAIN r,
           r.op \in {"IssueEnrollmentToken", "RevokeEnrollmentToken", "SetDeviceTags", "CreatePolicy", "CreateAdmin", "SetAdminRole",
                     "DeactivateAdmin"}
    PROVE  Fitting(s, r, Handler(s, conf, r))
  <1> DEFINE h == Handler(s, conf, r)
             ct == AdminTenant(s, r.by)
             T == s.adm[r.by].tenant
  <1>0. {"SaveEnrollmentToken", "RevokeEnrollmentToken", "SetDeviceTags", "CreatePolicy", "CreateAdmin", "SetAdminRole", "DeactivateAdmin"}
          = TenantCalls
    BY DEF TenantCalls
  <1>k. Known(s, r.by) => ct = T
    BY DEF Known
  <1>o. require(s, r.by, "OPERATOR") \in {"ok", "logged"} => Known(s, r.by)
    BY Ranked
  <1>a. require(s, r.by, "ADMIN") \in {"ok", "logged"} => Known(s, r.by)
    BY Ranked
  <1>1. CASE r.op = "IssueEnrollmentToken"
    <2>1. h = handleIssueToken(s, conf, r)
      BY <1>1, Zenon DEF Handler
    <2> DEFINE u == resolveTokenTenant(ct, r.arg, conf.defaultTenant)
               x == [r EXCEPT !.arg = u]
    <2>2. h = Plan(<<"forbidden">>, "", <<>>) \/ h = IssueEnrollmentToken(s, conf, x)
      BY <2>1, Zenon DEF handleIssueToken
    <2>3. x.by = r.by
      OBVIOUS
    <2>4. CASE h = Plan(<<"forbidden">>, "", <<>>)
      <3> DEFINE w == <<>>
                 g == <<"forbidden">>
      <3>1. w \in Seq(Calls) /\ \A j \in 1 .. Len(w) : FALSE
        BY Works
      <3> HIDE DEF w, g, h
      <3>2. Fitting(s, r, Plan(g, "", w))
        BY <3>1, PlanFits
      <3> QED
        BY <2>4, <3>2 DEF w, g, h
    <2>5. CASE h = IssueEnrollmentToken(s, conf, x)
      <3> DEFINE g1 == require(s, r.by, "OPERATOR")
                 g2 == If(ct = "" \/ x.arg \in {"", ct}, "forbidden")
                 t == IF ct # "" THEN ct ELSE x.arg
                 g == <<g1, g2>>
      <3>1. h = Plan(g, t, <<"SaveEnrollmentToken", "audit">>)
        <4> HIDE DEF x
        <4> QED
          BY <2>3, <2>5 DEF IssueEnrollmentToken
      <3>2. Passes(g) => (T # "" => t = T)
        <4>1. Passes(g) => g1 \in {"ok", "logged"}
          <5> HIDE DEF g1, g2
          <5> QED
            BY Guards
        <4> QED
          BY <1>k, <1>o, <4>1
      <3> HIDE DEF g, t, h
      <3>3. Fitting(s, r, Plan(g, t, <<"SaveEnrollmentToken", "audit">>))
        BY <1>0, <3>2, TenantTwo
      <3> QED
        BY <3>1, <3>3 DEF h
    <2> QED
      BY <2>2, <2>4, <2>5
  <1>2. CASE r.op = "RevokeEnrollmentToken"
    <2> DEFINE g1 == require(s, r.by, "OPERATOR")
               g2 == If(ct = "" \/ Db!EnrollmentTokenTenant(s, r.on) = <<ct, TRUE>>, "forbidden")
               g == <<g1, g2>>
    <2>1. h = Plan(g, ct, <<"RevokeEnrollmentToken", "audit">>)
      BY <1>2, Zenon DEF Handler, handleRevokeToken, RevokeEnrollmentToken
    <2>2. Passes(g) => g1 \in {"ok", "logged"}
      <3> HIDE DEF g1, g2
      <3> QED
        BY Guards
    <2>3. Passes(g) => (T # "" => ct = T)
      BY <1>k, <1>o, <2>2
    <2> HIDE DEF g, ct, h
    <2>4. Fitting(s, r, Plan(g, ct, <<"RevokeEnrollmentToken", "audit">>))
      BY <1>0, <2>3, TenantTwo
    <2> QED
      BY <2>1, <2>4 DEF h
  <1>3. CASE r.op = "SetDeviceTags"
    <2> DEFINE g1 == require(s, r.by, "OPERATOR")
               g2 == deviceCallerTenant(s, r.by, r.on)
               g == <<g1, g2>>
    <2>1. h = Plan(g, ct, <<"SetDeviceTags", "audit">>)
      BY <1>3, Zenon DEF Handler, handleSetDeviceTags, SetDeviceTags
    <2>2. Passes(g) => g1 \in {"ok", "logged"}
      <3> HIDE DEF g1, g2
      <3> QED
        BY Guards
    <2>3. Passes(g) => (T # "" => ct = T)
      BY <1>k, <1>o, <2>2
    <2> HIDE DEF g, ct, h
    <2>4. Fitting(s, r, Plan(g, ct, <<"SetDeviceTags", "audit">>))
      BY <1>0, <2>3, TenantTwo
    <2> QED
      BY <2>1, <2>4 DEF h
  <1>4. CASE r.op = "CreatePolicy"
    <2> DEFINE owner == CASE ct # "" -> ct [] ct = "" /\ r.arg = "" -> "" [] OTHER -> Normalize(r.arg)
               g1 == require(s, r.by, "ADMIN")
               g2 == If(ct = "" => r.arg = "" \/ Valid(r.arg), "invalid input")
               g3 == If(ct # "" => r.arg \in {"", ct}, "forbidden")
               g == <<g1, g2, g3>>
    <2>1. h = Plan(g, owner, <<"CreatePolicy", "audit">>)
      BY <1>4, Zenon DEF Handler, handleCreatePolicy, CreatePolicy
    <2>2. Passes(g) => g1 \in {"ok", "logged"}
      <3> HIDE DEF g1, g2, g3
      <3> QED
        BY Guards
    <2>3. ct # "" => owner = ct
      BY Zenon
    <2> HIDE DEF owner
    <2>4. Passes(g) => (T # "" => owner = T)
      BY <1>k, <1>a, <2>2, <2>3
    <2> HIDE DEF g, ct, h
    <2>5. Fitting(s, r, Plan(g, owner, <<"CreatePolicy", "audit">>))
      BY <1>0, <2>4, TenantTwo
    <2> QED
      BY <2>1, <2>5 DEF h
  <1>5. CASE r.op = "CreateAdmin"
    <2> DEFINE eff == CASE ct # "" -> ct [] ct = "" /\ r.arg = "" -> "" [] OTHER -> Normalize(r.arg)
               g1 == require(s, r.by, "ADMIN")
               g2 == If(validAdminRole(r.arg2) /\ r.email # "", "invalid input")
               g3 == If(ct # "" => r.arg = "" \/ Normalize(r.arg) = ct, "forbidden")
               g4 == If(ct = "" => r.arg = "" \/ Valid(r.arg), "invalid input")
               g == <<g1, g2, g3, g4>>
    <2>1. h = Plan(g, eff, <<"CreateAdmin", "audit">>)
      BY <1>5, Zenon DEF Handler, handleCreateAdmin, CreateAdmin
    <2>2. Passes(g) => g1 \in {"ok", "logged"}
      <3> HIDE DEF g1, g2, g3, g4
      <3> QED
        BY Guards
    <2>3. ct # "" => eff = ct
      BY Zenon
    <2> HIDE DEF eff
    <2>4. Passes(g) => (T # "" => eff = T)
      BY <1>k, <1>a, <2>2, <2>3
    <2> HIDE DEF g, ct, h
    <2>5. Fitting(s, r, Plan(g, eff, <<"CreateAdmin", "audit">>))
      BY <1>0, <2>4, TenantTwo
    <2> QED
      BY <2>1, <2>5 DEF h
  <1>6. CASE r.op = "SetAdminRole"
    <2> DEFINE g1 == require(s, r.by, "ADMIN")
               g2 == If(validAdminRole(r.arg), "invalid input")
               g3 == enforceAdminTarget(s, r.by, r.on)
               g4 == IF r.arg # "ADMIN" THEN guardLastAdmin(s, r.by, r.on, ct) ELSE "ok"
               g == <<g1, g2, g3, g4>>
    <2>1. h = Plan(g, ct, <<"SetAdminRole", "audit">>)
      BY <1>6, Zenon DEF Handler, handleSetAdminRole, SetAdminRole
    <2>2. Passes(g) => g1 \in {"ok", "logged"}
      <3> HIDE DEF g1, g2, g3, g4
      <3> QED
        BY Guards
    <2>3. Passes(g) => (T # "" => ct = T)
      BY <1>k, <1>a, <2>2
    <2> HIDE DEF g, ct, h
    <2>4. Fitting(s, r, Plan(g, ct, <<"SetAdminRole", "audit">>))
      BY <1>0, <2>3, TenantTwo
    <2> QED
      BY <2>1, <2>4 DEF h
  <1>7. CASE r.op = "DeactivateAdmin"
    <2> DEFINE g1 == require(s, r.by, "ADMIN")
               g2 == enforceAdminTarget(s, r.by, r.on)
               g3 == guardLastAdmin(s, r.by, r.on, ct)
               g == <<g1, g2, g3>>
    <2>1. h = Plan(g, ct, <<"DeactivateAdmin", "audit">>)
      BY <1>7, Zenon DEF Handler, handleDeactivateAdmin, DeactivateAdmin
    <2>2. Passes(g) => g1 \in {"ok", "logged"}
      <3> HIDE DEF g1, g2, g3
      <3> QED
        BY Guards
    <2>3. Passes(g) => (T # "" => ct = T)
      BY <1>k, <1>a, <2>2
    <2> HIDE DEF g, ct, h
    <2>4. Fitting(s, r, Plan(g, ct, <<"DeactivateAdmin", "audit">>))
      BY <1>0, <2>3, TenantTwo
    <2> QED
      BY <2>1, <2>4 DEF h
  <1> QED
    BY <1>1, <1>2, <1>3, <1>4, <1>5, <1>6, <1>7

\* The handlers of commands.
LEMMA CommandFits ==
    ASSUME NEW s, NEW r, NEW type \in DOMAIN specs, NEW reflect \in BOOLEAN
    PROVE  Fitting(s, r, command(s, conf, r, type, reflect))
  <1> DEFINE a == requireCmd(s, r.by, type)
             b == enforceDeviceTenant(s, r.by, r.on)
             c == guardCmdScope(conf, r.on, type)
             g == <<a, b, c>>
             w == <<"enqueue", "audit">> \o (IF reflect THEN <<"reflect">> ELSE <<>>)
             t == AdminTenant(s, r.by)
  <1>1. command(s, conf, r, type, reflect) = Plan(g, t, w)
    BY DEF command
  <1>2. w \in Seq(Calls) /\ \A j \in 1 .. Len(w) : w[j] \in DeviceCalls \cup OwnCalls
    BY CommandWork DEF DeviceCalls, OwnCalls
  <1>3. Passes(g) => a \in {"ok", "logged"} /\ b \in {"ok", "logged"}
    <2> HIDE DEF a, b, c
    <2> QED
      BY Guards
  <1>4. Passes(g) => Known(s, r.by) /\ b \in {"ok", "logged"}
    BY <1>3, CommandRanked
  <1> HIDE DEF g, t, w
  <1> QED
    BY <1>1, <1>2, <1>4, DevicePlan

\* The wipe handlers.
LEMMA WipeFits ==
    ASSUME NEW s, NEW r, r.op \in WipeOps
    PROVE  Fitting(s, r, Handler(s, conf, r))
  <1> DEFINE h == Handler(s, conf, r)
             a == requireCmd(s, r.by, "WIPE")
             b == enforceDeviceTenant(s, r.by, r.on)
             c == guardCmdScope(conf, r.on, "WIPE")
             g == <<a, b, c>>
             t == AdminTenant(s, r.by)
  <1>0. {"enqueue", "SavePendingWipe", "ConsumePendingWipe", "DeletePendingWipe"} \subseteq DeviceCalls /\ "WIPE" \in DOMAIN specs
    BY DEF DeviceCalls, specs
  <1>1. g = wipeGuards(s, conf, r)
    BY DEF wipeGuards
  <1>2. Passes(g) => a \in {"ok", "logged"} /\ b \in {"ok", "logged"}
    <2> HIDE DEF a, b, c
    <2> QED
      BY Guards
  <1>3. Passes(g) => Known(s, r.by) /\ b \in {"ok", "logged"}
    BY <1>0, <1>2, CommandRanked
  <1>4. CASE r.op = "WipeDevice"
    <2>1. \/ h = Plan(wipeGuards(s, conf, r), t, <<"SavePendingWipe", "audit">>)
          \/ h = Plan(wipeGuards(s, conf, r), t, <<"enqueue", "audit">>)
      BY <1>4, Zenon DEF Handler, handleWipeDevice, RequestWipe, WipeDevice
    <2> HIDE DEF g, h, t
    <2> QED
      BY <1>0, <1>1, <1>3, <2>1, DeviceTwo DEF h
  <1>5. CASE r.op = "ApproveWipe"
    <2> DEFINE w == <<"ConsumePendingWipe", "enqueue", "audit">>
    <2>1. h = Plan(wipeGuards(s, conf, r), t, w)
      BY <1>5, Zenon DEF Handler, handleApproveWipe, ApproveWipe
    <2>2. w \in Seq(Calls) /\ \A j \in 1 .. Len(w) : w[j] \in DeviceCalls \cup OwnCalls
      <3>1. {"ConsumePendingWipe", "enqueue", "audit"} \subseteq Calls /\ {"ConsumePendingWipe", "enqueue", "audit"} \subseteq DeviceCalls \cup OwnCalls
        BY DEF Calls, DeviceCalls, OwnCalls
      <3>2. /\ w \in Seq(Calls) /\ Len(w) = 3 /\ w[1] = "ConsumePendingWipe" /\ w[2] = "enqueue" /\ w[3] = "audit"
        BY <3>1, Works
      <3> HIDE DEF w
      <3> QED
        BY <3>1, <3>2
    <2> HIDE DEF g, h, t, w
    <2> QED
      BY <1>1, <1>3, <2>1, <2>2, DevicePlan DEF h
  <1>6. CASE r.op = "CancelWipe"
    <2> DEFINE e == require(s, r.by, "ADMIN")
               k == <<e, b>>
    <2>1. h = Plan(k, t, <<"DeletePendingWipe", "audit">>)
      BY <1>6, Zenon DEF Handler, handleCancelWipe, CancelWipe
    <2>2. Passes(k) => e \in {"ok", "logged"} /\ b \in {"ok", "logged"}
      <3> HIDE DEF e, b
      <3> QED
        BY Guards
    <2>3. Passes(k) => Known(s, r.by) /\ b \in {"ok", "logged"}
      BY <2>2, Ranked
    <2> HIDE DEF k, h, t
    <2> QED
      BY <1>0, <2>1, <2>3, DeviceTwo DEF h
  <1> QED
    BY <1>4, <1>5, <1>6 DEF WipeOps

\* The other handlers that work on a device.
LEMMA DeviceHandlers ==
    ASSUME NEW s, NEW r, r.op \in {"CollectFile", "EraseDevice", "RevokeDevice", "AssignPolicy"}
    PROVE  Fitting(s, r, Handler(s, conf, r))
  <1> DEFINE h == Handler(s, conf, r)
             b == enforceDeviceTenant(s, r.by, r.on)
             t == AdminTenant(s, r.by)
  <1>0. {"enqueue", "EraseDeviceData", "RevokeDeviceCerts", "AssignPolicy"} \subseteq DeviceCalls /\ "COLLECT_FILE" \in DOMAIN specs
    BY DEF DeviceCalls, specs
  <1>1. CASE r.op = "CollectFile"
    <2> DEFINE a == requireCmd(s, r.by, "COLLECT_FILE")
               c == If(r.arg # "", "invalid input")
               d == guardCmdScope(conf, r.on, "COLLECT_FILE")
               g == <<a, c, b, d>>
    <2>1. h = Plan(g, t, <<"enqueue", "audit">>)
      BY <1>1, Zenon DEF Handler, handleCollectFile, CollectFile
    <2>2. Passes(g) => a \in {"ok", "logged"} /\ b \in {"ok", "logged"}
      <3> HIDE DEF a, b, c, d
      <3> QED
        BY Guards
    <2>3. Passes(g) => Known(s, r.by) /\ b \in {"ok", "logged"}
      BY <1>0, <2>2, CommandRanked
    <2> HIDE DEF g, h, t
    <2> QED
      BY <1>0, <2>1, <2>3, DeviceTwo DEF h
  <1>2. CASE r.op = "EraseDevice"
    <2> DEFINE a == require(s, r.by, "ADMIN")
               c == guardScope(conf, r.on, "wipe")
               g == <<a, b, c>>
    <2>1. h = Plan(g, t, <<"EraseDeviceData", "audit">>)
      BY <1>2, Zenon DEF Handler, handleEraseDevice, EraseDevice
    <2>2. Passes(g) => a \in {"ok", "logged"} /\ b \in {"ok", "logged"}
      <3> HIDE DEF a, b, c
      <3> QED
        BY Guards
    <2>3. Passes(g) => Known(s, r.by) /\ b \in {"ok", "logged"}
      BY <2>2, Ranked
    <2> HIDE DEF g, h, t
    <2> QED
      BY <1>0, <2>1, <2>3, DeviceTwo DEF h
  <1>3. CASE r.op = "RevokeDevice"
    <2> DEFINE a == require(s, r.by, "OPERATOR")
               c == guardScope(conf, r.on, "remote_command")
               g == <<a, b, c>>
    <2>1. h = Plan(g, t, <<"RevokeDeviceCerts", "audit">>)
      BY <1>3, Zenon DEF Handler, handleRevoke, RevokeDevice
    <2>2. Passes(g) => a \in {"ok", "logged"} /\ b \in {"ok", "logged"}
      <3> HIDE DEF a, b, c
      <3> QED
        BY Guards
    <2>3. Passes(g) => Known(s, r.by) /\ b \in {"ok", "logged"}
      BY <2>2, Ranked
    <2> HIDE DEF g, h, t
    <2> QED
      BY <1>0, <2>1, <2>3, DeviceTwo DEF h
  <1>4. CASE r.op = "AssignPolicy"
    <2> DEFINE pt == Db!PolicyTenant(s, r.arg)[1]
               a == require(s, r.by, "ADMIN")
               c == policyOwner(s, r.by, r.arg, FALSE)
               d == If(policyFitsDevice(pt, Db!TenantForDevice(s, r.on)), "forbidden")
               e == guardScope(conf, r.on, "policy_enforce")
               g == <<a, b, c, d, e>>
               w == <<"AssignPolicy", "audit", "publish">>
    <2>1. h = Plan(g, t, w)
      BY <1>4, Zenon DEF Handler, handleAssignPolicy, AssignPolicy
    <2>2. Passes(g) => a \in {"ok", "logged"} /\ b \in {"ok", "logged"}
      <3> HIDE DEF a, b, c, d, e
      <3> QED
        BY Guards
    <2>3. Passes(g) => Known(s, r.by) /\ b \in {"ok", "logged"}
      BY <2>2, Ranked
    <2>4. w \in Seq(Calls) /\ \A j \in 1 .. Len(w) : w[j] \in DeviceCalls \cup OwnCalls
      <3>1. {"AssignPolicy", "audit", "publish"} \subseteq Calls /\ {"AssignPolicy", "audit", "publish"} \subseteq DeviceCalls \cup OwnCalls
        BY DEF Calls, DeviceCalls, OwnCalls
      <3>2. w \in Seq(Calls) /\ Len(w) = 3 /\ w[1] = "AssignPolicy" /\ w[2] = "audit" /\ w[3] = "publish"
        BY <3>1, Works
      <3> HIDE DEF w
      <3> QED
        BY <3>1, <3>2
    <2> HIDE DEF g, h, t, w
    <2> QED
      BY <2>1, <2>3, <2>4, DevicePlan DEF h
  <1> QED
    BY <1>1, <1>2, <1>3, <1>4

\* A rule is added to a policy of the caller's tenant.
LEMMA RuleFits ==
    ASSUME NEW s, NEW r, r.op = "AddPolicyRule"
    PROVE  Fitting(s, r, Handler(s, conf, r))
  <1> DEFINE h == Handler(s, conf, r)
             ct == AdminTenant(s, r.by)
             a == require(s, r.by, "ADMIN")
             b == If(validRuleType(r.arg), "invalid rule")
             c == policyOwner(s, r.by, r.on, TRUE)
             g == <<a, b, c>>
             t == Db!PolicyTenant(s, r.on)[1]
             w == <<"AddPolicyRule", "BumpPolicyVersion", "audit", "publish policy">>
  <1>1. h = Plan(g, t, w)
    BY Zenon DEF Handler, handleAddRule, AddPolicyRule
  <1>2. Passes(g) => a \in {"ok", "logged"} /\ c \in {"ok", "logged"}
    <2> HIDE DEF a, b, c
    <2> QED
      BY Guards
  <1>3. w \in Seq(Calls) /\ \A j \in 1 .. Len(w) : w[j] \in PolicyCalls \cup OwnCalls
    <2>1. /\ {"AddPolicyRule", "BumpPolicyVersion", "audit", "publish policy"} \subseteq Calls
          /\ {"AddPolicyRule", "BumpPolicyVersion", "audit", "publish policy"} \subseteq PolicyCalls \cup OwnCalls
      BY DEF Calls, PolicyCalls, OwnCalls
    <2>2. /\ "AddPolicyRule" \in Calls /\ "BumpPolicyVersion" \in Calls /\ "audit" \in Calls /\ "publish policy" \in Calls
      BY <2>1
    <2>3. w \in Seq(Calls)
      <3>1. ASSUME NEW a1 \in Calls, NEW a2 \in Calls, NEW a3 \in Calls, NEW a4 \in Calls
            PROVE  <<a1, a2, a3, a4>> \in Seq(Calls)
        BY Works
      <3>2. <<"AddPolicyRule", "BumpPolicyVersion", "audit", "publish policy">> \in Seq(Calls)
        <4> HIDE DEF w
        <4> QED
          BY <2>2, <3>1
      <3> QED
        BY <3>2
    <2>4. Len(w) = 4 /\ w[1] = "AddPolicyRule" /\ w[2] = "BumpPolicyVersion" /\ w[3] = "audit" /\ w[4] = "publish policy"
      OBVIOUS
    <2> HIDE DEF w
    <2>5. ASSUME NEW j \in 1 .. Len(w) PROVE w[j] \in PolicyCalls \cup OwnCalls
      <3>1. j \in {1, 2, 3, 4}
        <4>1. Len(w) = 4
          BY <2>4
        <4>2. \A n : n = 4 => \A k \in 1 .. n : k \in {1, 2, 3, 4}
          OBVIOUS
        <4> QED
          BY <4>1, <4>2, <2>5, Zenon
      <3>2. w[j] \in {"AddPolicyRule", "BumpPolicyVersion", "audit", "publish policy"}
        BY <2>4, <3>1
      <3> QED
        BY <2>1, <3>2
    <2> QED
      BY <2>3, <2>5
  <1>4. ASSUME Passes(g), NEW step \in PolicyCalls PROVE Fitted(s, r, t, step)
    <2>1. a \in {"ok", "logged"} /\ c \in {"ok", "logged"}
      BY <1>2, <1>4
    <2>2. Known(s, r.by)
      BY <2>1, Ranked
    <2>3. Db!PolicyTenant(s, r.on)[2] /\ (ct = "" \/ t = ct)
      BY <2>1 DEF policyOwner, If
    <2>4. r.on \in DOMAIN s.pol /\ t = s.pol[r.on].tenant
      BY <2>3 DEF Db!PolicyTenant
    <2>5. s.adm[r.by].tenant # "" => r.on \in DOMAIN s.pol /\ s.pol[r.on].tenant = s.adm[r.by].tenant
      BY <2>2, <2>3, <2>4 DEF Known
    <2> QED
      BY <2>5 DEF Fitted, Fits, Belongs, DeviceCalls, TenantCalls, PolicyCalls, EventCalls
  <1> HIDE DEF g, h, t, w
  <1>5. Passes(g) => \A j \in 1 .. Len(w) : Fitted(s, r, t, w[j])
    BY <1>3, <1>4, OwnFitted
  <1> QED
    BY <1>1, <1>3, <1>5, PlanFits DEF h

\* An event is marked by an administrator of its tenant.
LEMMA EventFits ==
    ASSUME NEW s, NEW r, r.op \in EventOps, NEW x, x.by = r.by, x.on = r.on,
           NEW h \in {AckEvent(s, conf, x), UpdateEventCase(s, conf, x)}
    PROVE  Fitting(s, r, h)
  <1> DEFINE a == require(s, r.by, "OPERATOR")
             b == If(x.arg \in {"ACKNOWLEDGED", "RESOLVED"}, "invalid input")
             c == enforceEventTenant(s, r.by, r.on)
             t == AdminTenant(s, r.by)
  <1>1. ASSUME NEW g, NEW step \in EventCalls, Passes(g) => a \in {"ok", "logged"} /\ c \in {"ok", "logged"}
        PROVE  Fitting(s, r, Plan(g, t, <<step, "audit">>))
    <2> DEFINE w == <<step, "audit">>
    <2>1. w \in Seq(Calls) /\ \A j \in 1 .. Len(w) : w[j] \in {step, "audit"}
      BY TwoCalls DEF OwnCalls
    <2>2. Passes(g) => Fitted(s, r, t, step)
      <3> HAVE Passes(g)
      <3>1. Known(s, r.by)
        BY <1>1, Ranked
      <3>2. t = "" \/ Db!EventTenant(s, r.on) = t
        BY <1>1 DEF enforceEventTenant, If
      <3>3. s.adm[r.by].tenant # "" => Db!EventTenant(s, r.on) = s.adm[r.by].tenant
        BY <3>1, <3>2 DEF Known
      <3> QED
        BY <3>3 DEF Fitted, Fits, Belongs, DeviceCalls, TenantCalls, PolicyCalls, EventCalls
    <2> HIDE DEF w, t
    <2>3. Passes(g) => \A j \in 1 .. Len(w) : Fitted(s, r, t, w[j])
      BY <2>1, <2>2, OwnFitted DEF OwnCalls
    <2>4. Fitting(s, r, Plan(g, t, w))
      BY <2>1, <2>3, PlanFits
    <2> QED
      BY <2>4 DEF w
  <1>2. "SetEventAck" \in EventCalls /\ "SetEventCase" \in EventCalls
    BY DEF EventCalls
  <1>3. AckEvent(s, conf, x) = Plan(<<a, b, c>>, t, <<"SetEventAck", "audit">>)
    BY DEF AckEvent
  <1>4. UpdateEventCase(s, conf, x) = Plan(<<a, c>>, t, <<"SetEventCase", "audit">>)
    BY DEF UpdateEventCase
  <1> HIDE DEF a, b, c, t
  <1>5. Fitting(s, r, AckEvent(s, conf, x))
    <2> DEFINE g == <<a, b, c>>
    <2>1. Passes(g) => a \in {"ok", "logged"} /\ c \in {"ok", "logged"}
      BY Guards
    <2> HIDE DEF g
    <2>2. Fitting(s, r, Plan(g, t, <<"SetEventAck", "audit">>))
      BY <1>1, <1>2, <2>1
    <2> QED
      BY <1>3, <2>2 DEF g
  <1>6. Fitting(s, r, UpdateEventCase(s, conf, x))
    <2> DEFINE g == <<a, c>>
    <2>1. Passes(g) => a \in {"ok", "logged"} /\ c \in {"ok", "logged"}
      BY Guards
    <2> HIDE DEF g
    <2>2. Fitting(s, r, Plan(g, t, <<"SetEventCase", "audit">>))
      BY <1>1, <1>2, <2>1
    <2> QED
      BY <1>4, <2>2 DEF g
  <1> QED
    BY <1>5, <1>6

\* The handlers that make the caller's own calls only.
LEMMA OwnHandlers ==
    ASSUME NEW s, NEW r, r.op \in MFAOps \cup {"AuthorizeExport"}
    PROVE  Fitting(s, r, Handler(s, conf, r))
  <1> DEFINE h == Handler(s, conf, r)
             mfa == Db!LookupMFA(s, r.by)
             Good(w) == w \in Seq(Calls) /\ \A j \in 1 .. Len(w) : w[j] \in OwnCalls
  <1>a. {"ConsumeTOTPStep", "DisableMFA", "SetPendingMFASecret", "ActivateMFA", "audit", "session"} \subseteq OwnCalls
    BY DEF OwnCalls
  <1>b. /\ <<>> \in Seq(Calls) /\ \A j \in 1 .. Len(<<>>) : <<>>[j] \in OwnCalls
        /\ \A a \in OwnCalls : <<a>> \in Seq(Calls) /\ \A j \in 1 .. Len(<<a>>) : <<a>>[j] \in OwnCalls
        /\ \A a, b \in OwnCalls : <<a, b>> \in Seq(Calls) /\ \A j \in 1 .. Len(<<a, b>>) : <<a, b>>[j] \in OwnCalls
        /\ \A a, b, c \in OwnCalls : <<a, b, c>> \in Seq(Calls) /\ \A j \in 1 .. Len(<<a, b, c>>) : <<a, b, c>>[j] \in OwnCalls
    <2>1. \A a \in OwnCalls : a \in Calls
      BY OwnFitted
    <2> QED
      BY <2>1, Works
  <1>c. /\ Good(<<>>) /\ Good(<<"audit">>) /\ Good(<<"session">>) /\ Good(<<"DisableMFA">>)
        /\ Good(<<"SetPendingMFASecret", "audit">>) /\ Good(<<"ConsumeTOTPStep", "session">>)
        /\ Good(<<"ConsumeTOTPStep", "SetPendingMFASecret", "audit">>)
        /\ Good(<<"ConsumeTOTPStep", "ActivateMFA", "audit">>) /\ Good(<<"ConsumeTOTPStep", "DisableMFA", "audit">>)
    BY <1>a, <1>b
  <1>d. \A x : Good(x.run) => Fitting(s, r, x)
    BY OwnFitted DEF Fitting
  <1>e. ASSUME NEW g, NEW t, NEW w, Good(w) PROVE Fitting(s, r, Plan(g, t, w))
    BY <1>e, OwnFitted, PlanFits
  <1> HIDE DEF Good
  <1>1. CASE r.op = "BeginMFAEnrollment"
    <2>1. h = BeginMFAEnrollment(s, conf, r)
      BY <1>1, Zenon DEF Handler
    <2>2. CASE ~mfa[2]
      <3>1. h = Plan(<<require(s, r.by, "VIEWER")>>, "", <<"SetPendingMFASecret", "audit">>)
        BY <2>1, <2>2, Zenon DEF BeginMFAEnrollment
      <3> QED
        BY <3>1, <1>c, <1>e
    <2>3. CASE mfa[2] /\ ~VerifyTOTPStep(mfa[1], r.code)
      <3>1. h = [err |-> "forbidden", t |-> "", run |-> <<"audit">>]
        BY <2>1, <2>3, Zenon DEF BeginMFAEnrollment
      <3> QED
        BY <3>1, <1>c, <1>d
    <2>4. CASE mfa[2] /\ VerifyTOTPStep(mfa[1], r.code)
      <3>1. h = Plan(<<require(s, r.by, "VIEWER")>>, "", <<"ConsumeTOTPStep", "SetPendingMFASecret", "audit">>)
        BY <2>1, <2>4, Zenon DEF BeginMFAEnrollment
      <3> QED
        BY <3>1, <1>c, <1>e
    <2> QED
      BY <2>2, <2>3, <2>4
  <1>2. CASE r.op = "ActivateMFA"
    <2>1. h = ActivateMFA(s, conf, r)
      BY <1>2, Zenon DEF Handler
    <2>2. \A g, t : Fitting(s, r, Plan(g, t, <<"ConsumeTOTPStep", "ActivateMFA", "audit">>))
      BY <1>c, <1>e
    <2> QED
      BY <2>1, <2>2, Zenon DEF ActivateMFA
  <1>3. CASE r.op = "DisableMFA"
    <2>1. h = DisableMFA(s, conf, r)
      BY <1>3, Zenon DEF Handler
    <2>2. /\ \A g, t : Fitting(s, r, Plan(g, t, <<"ConsumeTOTPStep", "DisableMFA", "audit">>))
          /\ \A g, t : Fitting(s, r, Plan(g, t, <<"DisableMFA">>))
      BY <1>c, <1>e
    <2> QED
      BY <2>1, <2>2, Zenon DEF DisableMFA
  <1>4. CASE r.op = "Login"
    <2>1. h = Authenticate(s, conf, r)
      BY <1>4, Zenon DEF Handler
    <2> DEFINE Done(e, w) == [err |-> e, t |-> "", run |-> w]
    <2>2. \/ h = Done("", <<"ConsumeTOTPStep", "session">>) \/ h = Done("", <<"session">>)
          \/ h = Done("forbidden", <<>>)
      BY <2>1, Zenon DEF Authenticate
    <2>3. \A e, w : Good(w) => Fitting(s, r, Done(e, w))
      BY <1>d
    <2> HIDE DEF Done, h
    <2>4. Fitting(s, r, h)
      BY <2>2, <2>3, <1>c
    <2> QED
      BY <2>4 DEF h
  <1>5. CASE r.op = "AuthorizeExport"
    <2>1. h = Plan(<<require(s, r.by, "ADMIN")>>, "", <<"audit">>)
      BY <1>5, Zenon DEF Handler, AuthorizeExport
    <2> QED
      BY <2>1, <1>c, <1>e
  <1> QED
    BY <1>1, <1>2, <1>3, <1>4, <1>5 DEF MFAOps

\* Whatever a handler goes on to do belongs to the caller's tenant.
LEMMA HandlerFits ==
    ASSUME NEW s, NEW r, {"op", "by", "on", "arg"} \subseteq DOMAIN r, r.op \in MFAOps \cup WipeOps \cup OtherOps
    PROVE  Fitting(s, r, Handler(s, conf, r))
  <1>1. CASE r.op \in MFAOps \cup {"AuthorizeExport"}
    BY <1>1, OwnHandlers
  <1>2. CASE r.op \in WipeOps
    BY <1>2, WipeFits
  <1>3. CASE r.op \in {"IssueEnrollmentToken", "RevokeEnrollmentToken", "SetDeviceTags", "CreatePolicy", "CreateAdmin", "SetAdminRole",
                       "DeactivateAdmin"}
    BY <1>3, TenantHandlers
  <1>4. CASE r.op \in {"CollectFile", "EraseDevice", "RevokeDevice", "AssignPolicy"}
    BY <1>4, DeviceHandlers
  <1>5. CASE r.op = "AddPolicyRule"
    BY <1>5, RuleFits
  <1>6. CASE r.op \in EventOps
    <2> DEFINE x == [r EXCEPT !.arg = "ACKNOWLEDGED"]
               y == [r EXCEPT !.arg = "RESOLVED"]
    <2>1. x.by = r.by /\ x.on = r.on /\ y.by = r.by /\ y.on = r.on
      OBVIOUS
    <2>2. CASE r.op = "AckEvent"
      <3>1. Handler(s, conf, r) = AckEvent(s, conf, x) \/ Handler(s, conf, r) = AckEvent(s, conf, y)
        BY <2>2, Zenon DEF Handler, handleAckEvent, handleResolveEvent
      <3> HIDE DEF x, y
      <3>2. Fitting(s, r, AckEvent(s, conf, x))
        BY <1>6, <2>1, EventFits
      <3>3. Fitting(s, r, AckEvent(s, conf, y))
        BY <1>6, <2>1, EventFits
      <3> QED
        BY <3>1, <3>2, <3>3
    <2>3. CASE r.op = "UpdateEventCase"
      <3>1. Handler(s, conf, r) = UpdateEventCase(s, conf, r)
        BY <2>3, Zenon DEF Handler, handleEventCase
      <3> QED
        BY <1>6, <3>1, EventFits
    <2> QED
      BY <1>6, <2>2, <2>3 DEF EventOps
  <1>7. CASE r.op \in {"QuarantineDevice", "ReleaseDevice", "CollectDiagnostics", "LockDevice", "RestartDevice"}
    <2>1. {"QUARANTINE", "UNQUARANTINE", "COLLECT_DIAGNOSTICS", "LOCK", "RESTART"} \subseteq DOMAIN specs
      BY DEF specs
    <2>2. \E type \in {"QUARANTINE", "UNQUARANTINE", "COLLECT_DIAGNOSTICS", "LOCK", "RESTART"}, reflect \in BOOLEAN :
            Handler(s, conf, r) = command(s, conf, r, type, reflect)
      <3>1. CASE r.op = "QuarantineDevice"
        BY <3>1, Zenon DEF Handler, handleQuarantine, QuarantineDevice
      <3>2. CASE r.op = "ReleaseDevice"
        BY <3>2, Zenon DEF Handler, handleRelease, ReleaseDevice
      <3>3. CASE r.op = "CollectDiagnostics"
        BY <3>3, Zenon DEF Handler, handleCollectDiagnostics, CollectDiagnostics
      <3>4. CASE r.op = "LockDevice"
        BY <3>4, Zenon DEF Handler, handleLockDevice, LockDevice
      <3>5. CASE r.op = "RestartDevice"
        BY <3>5, Zenon DEF Handler, handleRestartDevice, RestartDevice
      <3> QED
        BY <1>7, <3>1, <3>2, <3>3, <3>4, <3>5
    <2> QED
      BY <2>1, <2>2, CommandFits
  <1> QED
    BY <1>1, <1>2, <1>3, <1>4, <1>5, <1>6, <1>7 DEF MFAOps, WipeOps, OtherOps, EventOps

-----------------------------------------------------------------------------
(* Every call on its way belongs to its administrator's tenant *)

\* What slot contents q say of store s in family f.
Own(s, f, q) ==
  \/ q = Idle
  \/ /\ q.by \in DOMAIN s.adm
     /\ f = "event" <=> q.op \in EventOps
     /\ \A i \in 1 .. Len(q.run) : Fitted(s, q, q.t, q.run[i])
OwnInv == \A p \in Slots : Own(db, fam, req[p])
TenantInv == Sane(db) /\ (fam # "event" => DOMAIN db.ack = {}) /\ OwnInv

SameEvents(s, z) == \A i : Db!EventTenant(z, i) = Db!EventTenant(s, i)

\* A call keeps its tenant, whatever other calls do meanwhile.
LEMMA FittedGrows ==
    ASSUME NEW s, NEW z, Grown(s, z), NEW r, r.by \in DOMAIN s.adm, NEW tt, NEW step, Fitted(s, r, tt, step),
           step \in EventCalls => SameEvents(s, z)
    PROVE  Fitted(z, r, tt, step)
  <1>1. z.adm[r.by].tenant = s.adm[r.by].tenant
    BY DEF Grown
  <1>2. step \in EventCalls => r.op \in EventOps
    BY DEF Fitted
  <1>3. ASSUME NEW t, Belongs(s, t, r.on, tt, step) PROVE Belongs(z, t, r.on, tt, step)
    <2>1. step \in TenantCalls => tt = t
      BY <1>3 DEF Belongs
    <2>2. step \in DeviceCalls => r.on \in DOMAIN z.dev /\ z.dev[r.on].tenant = t
      BY <1>3 DEF Belongs, Grown
    <2>3. step \in PolicyCalls => r.on \in DOMAIN z.pol /\ z.pol[r.on].tenant = t
      BY <1>3 DEF Belongs, Grown
    <2>4. step \in EventCalls => Db!EventTenant(z, r.on) = t
      BY <1>3 DEF Belongs, SameEvents
    <2> QED
      BY <2>1, <2>2, <2>3, <2>4 DEF Belongs
  <1> QED
    BY <1>1, <1>2, <1>3 DEF Fitted, Fits

\* So does a slot.
LEMMA OwnGrows ==
    ASSUME NEW s, NEW z, Grown(s, z), NEW f, f = "event" => SameEvents(s, z), NEW q, Own(s, f, q)
    PROVE  Own(z, f, q)
  <1>1. CASE q = Idle
    BY <1>1 DEF Own
  <1>2. CASE q # Idle
    <2>1. /\ q.by \in DOMAIN s.adm
          /\ f = "event" <=> q.op \in EventOps
          /\ \A i \in 1 .. Len(q.run) : Fitted(s, q, q.t, q.run[i])
      BY <1>2 DEF Own
    <2>2. q.by \in DOMAIN z.adm
      BY <2>1 DEF Grown
    <2>3. ASSUME NEW i \in 1 .. Len(q.run) PROVE Fitted(z, q, q.t, q.run[i])
      <3>1. Fitted(s, q, q.t, q.run[i])
        BY <2>1
      <3>2. q.run[i] \in EventCalls => SameEvents(s, z)
        BY <2>1, <3>1 DEF Fitted
      <3> QED
        BY <2>1, <3>1, <3>2, FittedGrows
    <2> QED
      BY <2>1, <2>2, <2>3 DEF Own
  <1> QED
    BY <1>1, <1>2

\* And what is left of its run does.
LEMMA OwnRests ==
    ASSUME NEW s, NEW f, NEW q, Own(s, f, q), DOMAIN q = ReqFields, q.run \in Seq(Calls), q.run # <<>>,
           NEW w \in {<<>>, Tail(q.run)}
    PROVE  Own(s, f, Answered([q EXCEPT !.run = w]))
  <1> DEFINE z == [q EXCEPT !.run = w]
  <1>1. /\ q.by \in DOMAIN s.adm
        /\ f = "event" <=> q.op \in EventOps
        /\ \A i \in 1 .. Len(q.run) : Fitted(s, q, q.t, q.run[i])
    BY IdleFields DEF Own
  <1>2. z.op = q.op /\ z.by = q.by /\ z.on = q.on /\ z.t = q.t /\ z.run = w
    BY DEF ReqFields
  <1>3. /\ Tail(q.run) \in Seq(Calls)
        /\ \A i \in 1 .. Len(Tail(q.run)) : i + 1 \in 1 .. Len(q.run) /\ Tail(q.run)[i] = q.run[i + 1]
    BY Rests
  <1>4. \A i \in 1 .. Len(w) : Fitted(s, q, q.t, w[i])
    <2>1. CASE w = <<>>
      BY <2>1
    <2>2. CASE w = Tail(q.run)
      BY <1>1, <1>3, <2>2
    <2> QED
      BY <2>1, <2>2
  <1> HIDE DEF z
  <1>5. \A i \in 1 .. Len(w) : Fitted(s, z, z.t, w[i])
    BY <1>2, <1>4 DEF Fitted, Fits
  <1>6. Own(s, f, z)
    BY <1>1, <1>2, <1>5 DEF Own
  <1>7. Own(s, f, Answered(z))
    BY <1>6 DEF Answered, Own
  <1> QED
    BY <1>7 DEF z

\* A request that starts on a fitting plan.
LEMMA OwnStart ==
    ASSUME NEW s, NEW r, Asked(r), r.by \in DOMAIN s.adm, NEW plan, Fitting(s, r, plan), NEW rest
    PROVE  Own(s, fam, Started(r, plan, rest))
  <1> DEFINE q == Started(r, plan, rest)
  <1>1. q.op = r.op /\ q.by = r.by /\ q.on = r.on /\ q.run = plan.run /\ q.t = plan.t
    BY StartedFields DEF Asked
  <1> HIDE DEF q
  <1>2. \A i \in 1 .. Len(q.run) : Fitted(s, q, q.t, q.run[i])
    BY <1>1 DEF Fitting, Fitted, Fits
  <1>3. Own(s, fam, q)
    BY <1>1, <1>2 DEF Own, Asked
  <1> QED
    BY <1>3 DEF q

\* A caller with a session has a row.
LEMMA AuthedKnown ==
    ASSUME NEW s, NEW r, authed(s, r)
    PROVE  r.by \in DOMAIN s.adm
  <1>1. require(s, r.by, "VIEWER") \in {"ok", "logged"}
    BY Zenon DEF authed, require, If
  <1> QED
    BY <1>1, Ranked DEF Known

\* So has one who logs in.
LEMMA LoginKnown ==
    ASSUME NEW s, NEW r, r.op = "Login", Handler(s, conf, r).run # <<>>
    PROVE  r.by \in DOMAIN s.adm
  <1>1. Handler(s, conf, r) = Authenticate(s, conf, r)
    BY Zenon DEF Handler
  <1> DEFINE no == [err |-> "forbidden", t |-> "", run |-> <<>>]
  <1>2. ~ Db!Active(s, r.by) => Authenticate(s, conf, r) = no
    BY Zenon DEF Authenticate
  <1>3. no.run = <<>>
    OBVIOUS
  <1>4. Db!Active(s, r.by)
    BY <1>1, <1>2, <1>3
  <1> QED
    BY <1>4 DEF Db!Active

\* A request is admitted with calls of its caller's tenant.
LEMMA OwnAdmitted ==
    ASSUME ConfInv, NEW r \in Requests(fam), r.op # "Login" => authed(db, r), Handler(db, conf, r).run # <<>>, NEW rest
    PROVE  Own(db, fam, Started(r, Handler(db, conf, r), rest))
  <1>1. Asked(r)
    BY RequestFacts DEF ConfInv
  <1>2. r.by \in DOMAIN db.adm
    BY AuthedKnown, LoginKnown
  <1>3. Fitting(db, r, Handler(db, conf, r))
    BY <1>1, HandlerFits DEF Asked
  <1> QED
    BY <1>1, <1>2, <1>3, OwnStart

\* A bulk request is admitted with none.
LEMMA OwnBulk ==
    ASSUME ConfInv, NEW r \in Bulk(fam), authed(db, r), NEW rest
    PROVE  Own(db, fam, Started(r, [t |-> "", run |-> <<>>], rest))
  <1> DEFINE plan == [t |-> "", run |-> <<>>]
  <1>1. Asked(r)
    BY RequestFacts DEF ConfInv
  <1>2. r.by \in DOMAIN db.adm
    BY AuthedKnown
  <1>3. plan.run = <<>>
    BY Zenon
  <1> HIDE DEF plan
  <1>4. Fitting(db, r, plan)
    BY <1>3 DEF Fitting
  <1>5. Own(db, fam, Started(r, plan, rest))
    BY <1>1, <1>2, <1>4, OwnStart
  <1> QED
    BY <1>5 DEF plan

\* A bulk request goes on with calls of its caller's tenant.
LEMMA OwnNext ==
    ASSUME NEW q, Ready(q), Own(db, fam, q), q.run = <<>>, q.rest # <<>>
    PROVE  LET r == [q EXCEPT !.on = Head(q.rest)]
               plan == Handler(db, conf, r)
           IN  Own(db, fam, Answered([r EXCEPT !.run = plan.run, !.t = plan.t, !.rest = Tail(@)]))
  <1> DEFINE r == [q EXCEPT !.on = Head(q.rest)]
             plan == Handler(db, conf, r)
             w == [r EXCEPT !.run = plan.run, !.t = plan.t, !.rest = Tail(@)]
  <1>1. DOMAIN q = ReqFields /\ q.op \in MFAOps \cup WipeOps \cup OtherOps
    BY IdleFields DEF Ready
  <1>2. q.by \in DOMAIN db.adm /\ (fam = "event" <=> q.op \in EventOps)
    BY IdleFields DEF Own
  <1>3. DOMAIN r = ReqFields /\ r.op = q.op /\ r.by = q.by
    BY <1>1 DEF ReqFields
  <1> HIDE DEF r
  <1>4. Fitting(db, r, plan)
    BY <1>1, <1>3, HandlerFits DEF ReqFields
  <1> HIDE DEF plan
  <1>5. w.op = r.op /\ w.by = r.by /\ w.on = r.on /\ w.run = plan.run /\ w.t = plan.t
    BY <1>3 DEF ReqFields
  <1> HIDE DEF w
  <1>6. \A i \in 1 .. Len(w.run) : Fitted(db, w, w.t, w.run[i])
    BY <1>4, <1>5 DEF Fitting, Fitted, Fits
  <1>7. Own(db, fam, w)
    BY <1>2, <1>3, <1>5, <1>6 DEF Own
  <1>8. Own(db, fam, Answered(w))
    BY <1>7 DEF Answered, Own
  <1> QED
    BY <1>8 DEF r, plan, w

\* A call of a step is lawful, and leaves the events of their family alone.
LEMMA StepLawful ==
    ASSUME AdminInv, TenantInv, NEW p \in Slots, Step(p)
    PROVE  LET q == req[p]
               step == q.run[1]
           IN  Lawful(db, db', q, step) /\ (fam = "event" => SameEvents(db, db')) /\ (step \in EventCalls => fam = "event")
  <1> DEFINE q == req[p]
             step == q.run[1]
             id == NewId
  <1>0. ReqInv /\ StoreInv /\ CodeInv
    BY DEF AdminInv
  <1>1. q.run # <<>> /\ step \in Calls /\ Cleared(q, step) /\ DOMAIN q = ReqFields /\ db' = Exec(db, q, step, id).s
    BY <1>0, StepParts
  <1>2. id \notin DOMAIN db.tok /\ id \notin DOMAIN db.pol /\ id \notin DOMAIN db.adm
    <2>1. \E i \in Ids : i \notin Created
      BY DEF Step
    <2>2. id \notin Created
      BY <2>1 DEF NewId
    <2> QED
      BY <2>2 DEF Created
  <1> HIDE DEF id
  <1>3. Own(db, fam, q)
    BY DEF TenantInv, OwnInv
  <1>4. (fam = "event" <=> q.op \in EventOps) /\ Fitted(db, q, q.t, step)
    <2>1. 1 \in 1 .. Len(q.run)
      <3>1. q.run \in Seq(Calls)
        BY <1>0, <1>1, IdleFields DEF ReqInv, Ready
      <3> QED
        BY <1>1, <3>1, Rests
    <2> QED
      BY <1>1, <1>3, <2>1, IdleFields DEF Own
  <1>5. step = "EraseDeviceData" => fam # "event"
    <2>1. step = "EraseDeviceData" => q.op = "EraseDevice"
      BY <1>1 DEF Cleared
    <2> QED
      BY <1>4, <2>1 DEF EventOps
  <1>6. Lawful(db, db', q, step)
    <2>1. step = "EraseDeviceData" => DOMAIN db.ack = {}
      BY <1>5 DEF TenantInv
    <2>2. Sane(db)
      BY DEF TenantInv
    <2> HIDE DEF q, step
    <2> QED
      BY <1>1, <1>2, <2>1, <2>2, AllCalls
  <1>7. fam = "event" => SameEvents(db, db')
    <2>1. step # "EraseDeviceData" => db'.ev = db.ev
      BY <1>0, Effects
    <2> QED
      BY <1>5, <2>1 DEF SameEvents, Db!EventTenant
  <1>8. step \in EventCalls => fam = "event"
    BY <1>4 DEF Fitted
  <1> QED
    BY <1>6, <1>7, <1>8

\* The next slot contents of a step are those of the slot, with a call less or none.
LEMMA OwnStep ==
    ASSUME AdminInv, TenantInv, NEW p \in Slots, Admit(p) \/ NextDevice(p) \/ Step(p) \/ Fail(p)
    PROVE  Own(db, fam, req'[p])
  <1>1. Ready(req[p]) /\ Own(db, fam, req[p]) /\ p \in DOMAIN req /\ ConfInv
    BY DEF AdminInv, ReqInv, TenantInv, OwnInv
  <1>2. CASE Admit(p)
    <2>1. ASSUME NEW r \in Requests(fam), r.op # "Login" => authed(db, r), Handler(db, conf, r).run # <<>>,
                 req' = [req EXCEPT ![p] = Started(r, Handler(db, conf, r), <<>>)]
          PROVE  Own(db, fam, req'[p])
      <3> DEFINE none == <<>>
      <3>1. req'[p] = Started(r, Handler(db, conf, r), none)
        BY <1>1, <2>1, Zenon
      <3>2. Handler(db, conf, r).run # <<>>
        BY <2>1
      <3> HIDE DEF none
      <3>3. Own(db, fam, Started(r, Handler(db, conf, r), none))
        BY <1>1, <2>1, <3>2, OwnAdmitted
      <3> QED
        BY <3>1, <3>3
    <2>2. ASSUME NEW r \in Bulk(fam), authed(db, r), NEW rest,
                 req' = [req EXCEPT ![p] = Started(r, [t |-> "", run |-> <<>>], rest)]
          PROVE  Own(db, fam, req'[p])
      <3>1. req'[p] = Started(r, [t |-> "", run |-> <<>>], rest)
        BY <1>1, <2>2, Zenon
      <3>2. Own(db, fam, Started(r, [t |-> "", run |-> <<>>], rest))
        BY <1>1, <2>2, OwnBulk
      <3> QED
        BY <3>1, <3>2
    <2> QED
      BY <1>2, <2>1, <2>2, Zenon DEF Admit
  <1>3. CASE NextDevice(p)
    <2> DEFINE r == [req[p] EXCEPT !.on = Head(req[p].rest)]
               plan == Handler(db, conf, r)
               z == Answered([r EXCEPT !.run = plan.run, !.t = plan.t, !.rest = Tail(@)])
    <2>1. req[p].run = <<>> /\ req[p].rest # <<>>
      BY <1>3 DEF NextDevice
    <2>2. Own(db, fam, z)
      BY <1>1, <2>1, OwnNext
    <2>3. req'[p] = z
      BY <1>1, <1>3, Zenon DEF NextDevice
    <2> QED
      BY <2>2, <2>3
  <1>4. CASE Step(p) \/ Fail(p)
    <2>1. req[p].run # <<>>
      BY <1>4 DEF Step, Fail
    <2>2. PICK w \in {<<>>, Tail(req[p].run)} : req' = [req EXCEPT ![p] = Answered([req[p] EXCEPT !.run = w])]
      BY <1>4, Zenon DEF Step, Fail
    <2>3. DOMAIN req[p] = ReqFields /\ req[p].run \in Seq(Calls)
      BY <1>1, <2>1, ReadyRests
    <2>4. Own(db, fam, Answered([req[p] EXCEPT !.run = w]))
      BY <1>1, <2>1, <2>3, OwnRests
    <2>5. req'[p] = Answered([req[p] EXCEPT !.run = w])
      BY <1>1, <2>2, Zenon
    <2> QED
      BY <2>4, <2>5
  <1> QED
    BY <1>2, <1>3, <1>4

\* Every step, and none, keeps the invariant.
LEMMA TenantStep ==
    ASSUME AdminInv, TenantInv, [Next]_vars
    PROVE  TenantInv'
  <1>1. CASE UNCHANGED vars
    <2>1. fam' = fam /\ db' = db /\ req' = req
      BY <1>1 DEF vars
    <2> QED
      BY <2>1 DEF TenantInv, OwnInv
  <1>2. CASE Next
    <2>1. PICK p \in Slots : Admit(p) \/ NextDevice(p) \/ Step(p) \/ Fail(p)
      BY <1>2 DEF Next
    <2>2. fam' = fam /\ (\A o \in Slots : o # p => req'[o] = req[o]) /\ (~ Step(p) => db' = db)
      BY <2>1, StepFrame DEF AdminInv
    <2>3. Own(db, fam, req'[p])
      BY <2>1, OwnStep
    <2>4. \A o \in Slots : Own(db, fam, req'[o])
      BY <2>2, <2>3 DEF TenantInv, OwnInv
    <2>5. CASE Step(p)
      <3>1. /\ Lawful(db, db', req[p], req[p].run[1])
            /\ fam = "event" => SameEvents(db, db')
            /\ req[p].run[1] \in EventCalls => fam = "event"
        BY <2>5, StepLawful
      <3>2. Sane(db') /\ Grown(db, db') /\ (fam # "event" => DOMAIN db'.ack = {})
        BY <3>1 DEF Lawful, TenantInv
      <3>3. \A o \in Slots : Own(db', fam, req'[o])
        BY <2>4, <3>1, <3>2, OwnGrows
      <3> QED
        BY <2>2, <3>2, <3>3 DEF TenantInv, OwnInv
    <2>6. CASE ~ Step(p)
      <3>1. db' = db
        BY <2>2, <2>6
      <3> QED
        BY <2>2, <2>4, <3>1 DEF TenantInv, OwnInv
    <2> QED
      BY <2>5, <2>6
  <1> QED
    BY <1>1, <1>2

\* A step writes for the tenant of its administrator only.
LEMMA StepStays ==
    ASSUME AdminInv, TenantInv, NEW p \in Slots, Step(p), db.adm[req[p].by].tenant # ""
    PROVE  Outside(db', db.adm[req[p].by].tenant) = Outside(db, db.adm[req[p].by].tenant)
  <1> DEFINE q == req[p]
             t == db.adm[q.by].tenant
             step == q.run[1]
  <1>1. Lawful(db, db', q, step)
    BY StepLawful
  <1>2. q.run # <<>> /\ q # Idle /\ Own(db, fam, q) /\ q.run \in Seq(Calls)
    <2>1. q.run # <<>>
      BY DEF Step
    <2> QED
      BY <2>1, IdleFields DEF AdminInv, ReqInv, Ready, TenantInv, OwnInv
  <1>3. q.by \in DOMAIN db.adm /\ Fitted(db, q, q.t, step)
    <2>1. 1 \in 1 .. Len(q.run)
      BY <1>2, Rests
    <2> QED
      BY <1>2, <2>1 DEF Own
  <1>4. Rightful(db, q, t, step)
    BY <1>3 DEF Fitted, Fits, Rightful
  <1> HIDE DEF q, t, step
  <1>5. Stays(db, db', t)
    BY <1>1, <1>4 DEF Lawful
  <1>6. DOMAIN db = Tables /\ DOMAIN db' = Tables
    BY <1>1 DEF Lawful, TenantInv, Sane, Shaped
  <1>7. Outside(db', t) = Outside(db, t)
    BY <1>5, <1>6, PartsSuffice DEF Stays
  <1> QED
    BY <1>7 DEF q, t

\* The rows the deployment starts from have their columns and their tenants.
LEMMA SeedSane == Sane(Seed) /\ DOMAIN Seed.ack = {}
  <1> DEFINE adm == [a \in DOMAIN Admins |-> AdminRow(a)]
             v1 == Device("t1")
             v2 == Device("t2")
             dev == [d1 |-> v1, d2 |-> v2, d3 |-> v1]
             c1 == [dev |-> "d1", revoked |-> FALSE]
             c2 == [dev |-> "d2", revoked |-> FALSE]
             cert == [f1 |-> c1, f2 |-> c2]
             k == [by |-> "rival", tenant |-> "t2", used |-> FALSE, expired |-> FALSE]
             tok == [k2 |-> k]
             p0 == [tenant |-> "", version |-> 0, updated |-> 1, rules |-> <<>>]
             p1 == [tenant |-> "t1", version |-> 0, updated |-> 2, rules |-> <<>>]
             p2 == [tenant |-> "t2", version |-> 0, updated |-> 3, rules |-> <<>>]
             pol == [p0 |-> p0, p1 |-> p1, p2 |-> p2]
             asg == {<<"d1", "p0">>, <<"d2", "p0">>}
             e1 == Event(1, "d2", "t2", "software", "HIGH")
             e2 == Event(2, "d1", "t1", "compliance", "LOW")
             e3 == Event(3, "d2", "t2", "compliance", "LOW")
             e4 == Event(4, "d1", "t1", "security", "HIGH")
             e5 == Event(5, "d2", "t2", "security", "HIGH")
             ev == <<e1, e2, e3, e4, e5>>
             i1 == [id |-> "i2", dev |-> "d2", tenant |-> "t2", count |-> 1]
             i2 == [id |-> "i1", dev |-> "d1", tenant |-> "t1", count |-> 1]
             inc == <<i1, i2>>
             a1 == [id |-> "a1", dev |-> "d1", old |-> FALSE]
             a2 == [id |-> "a2", dev |-> "d2", old |-> FALSE]
             art == <<a1, a2>>
             q1 == [id |-> "q2", by |-> "rival"]
             srch == <<q1>>
             none == <<>>
  <1>1. Seed = [Db!EmptyStore EXCEPT !.adm = adm, !.dev = dev, !.cert = cert, !.tok = tok, !.pol = pol, !.asg = asg, !.ev = ev,
                                     !.inc = inc, !.art = art, !.srch = srch]
    BY DEF Seed
  <1>2. \A a \in DOMAIN Admins : "tenant" \in DOMAIN AdminRow(a)
    BY DEF AdminRow
  <1>3. v1.tenant = "t1" /\ v2.tenant = "t2" /\ "tenant" \in DOMAIN v1 /\ "tenant" \in DOMAIN v2
    BY DEF Device
  <1>4. "tenant" \in DOMAIN p0 /\ "tenant" \in DOMAIN p1 /\ "tenant" \in DOMAIN p2 /\ "tenant" \in DOMAIN k
    OBVIOUS
  <1>5. c1 \in [dev : {c1.dev}, revoked : BOOLEAN] /\ c2 \in [dev : {c2.dev}, revoked : BOOLEAN]
    OBVIOUS
  <1>6. /\ e1.dev = "d2" /\ e1.tenant = "t2" /\ e2.dev = "d1" /\ e2.tenant = "t1" /\ e3.dev = "d2" /\ e3.tenant = "t2"
        /\ e4.dev = "d1" /\ e4.tenant = "t1" /\ e5.dev = "d2" /\ e5.tenant = "t2"
    BY DEF Event
  <1> HIDE DEF v1, v2, c1, c2, k, p0, p1, p2, e1, e2, e3, e4, e5, i1, i2, a1, a2, q1
  <1>7. \A x \in DOMAIN adm : "tenant" \in DOMAIN adm[x]
    BY <1>2
  <1>8. \A x \in DOMAIN dev : "tenant" \in DOMAIN dev[x]
    BY <1>3
  <1>9. \A x \in DOMAIN pol : "tenant" \in DOMAIN pol[x]
    BY <1>4
  <1>10. \A x \in DOMAIN tok : "tenant" \in DOMAIN tok[x]
    BY <1>4
  <1>11. \A x \in DOMAIN cert : cert[x] \in [dev : {cert[x].dev}, revoked : BOOLEAN]
    BY <1>5
  <1>12. \A i \in DOMAIN ev : ev[i].dev \in DOMAIN dev /\ dev[ev[i].dev].tenant = ev[i].tenant
    <2>1. DOMAIN dev = {"d1", "d2", "d3"} /\ dev["d1"] = v1 /\ dev["d2"] = v2
      OBVIOUS
    <2>2. \A x \in {e1, e2, e3, e4, e5} : x.dev \in DOMAIN dev /\ dev[x.dev].tenant = x.tenant
      <3> HIDE DEF dev
      <3> QED
        BY <1>3, <1>6, <2>1
    <2>3. \A i \in DOMAIN ev : ev[i] \in {e1, e2, e3, e4, e5}
      OBVIOUS
    <2> QED
      BY <2>2, <2>3
  <1>13. ev \in Seq({e1, e2, e3, e4, e5}) /\ inc \in Seq({i1, i2}) /\ art \in Seq({a1, a2}) /\ srch \in Seq({q1}) /\ none \in Seq({})
    OBVIOUS
  <1>14. DOMAIN none = {}
    OBVIOUS
  <1> HIDE DEF adm, dev, cert, tok, pol, asg, ev, inc, art, srch, none
  <1>15. IsSeq(ev) /\ IsSeq(inc) /\ IsSeq(art) /\ IsSeq(srch) /\ IsSeq(none)
    BY <1>13 DEF IsSeq
  <1>16. /\ DOMAIN Seed = Tables /\ Seed.ev = ev /\ Seed.cert = cert /\ Seed.adm = adm /\ Seed.dev = dev /\ Seed.tok = tok
         /\ Seed.pol = pol /\ Seed.inc = inc /\ Seed.art = art /\ Seed.srch = srch /\ Seed.cmd = none /\ Seed.aud = none
         /\ Seed.ack = none
    BY <1>1 DEF Db!EmptyStore, Db!Empty, Tables, none
  <1>17. Shaped(Seed)
    <2>1. \A f \in RowTables : \A x \in DOMAIN Seed[f] : "tenant" \in DOMAIN Seed[f][x]
      BY <1>7, <1>8, <1>9, <1>10, <1>14, <1>16 DEF RowTables
    <2>2. \A f \in RowSeqs : IsSeq(Seed[f])
      BY <1>15, <1>16 DEF RowSeqs
    <2> QED
      BY <1>16, <2>1, <2>2 DEF Shaped
  <1>18. CertRows(Seed) /\ EventRows(Seed) /\ AckRows(Seed)
    BY <1>11, <1>12, <1>14, <1>16 DEF CertRows, EventRows, AckRows
  <1> QED
    BY <1>14, <1>16, <1>17, <1>18 DEF Sane

\* The deployment starts with no calls on their way.
LEMMA TenantInit ==
    ASSUME Init
    PROVE  TenantInv
  <1>1. db = Seed /\ \A p \in Slots : req[p] = Idle
    BY DEF Init
  <1> QED
    BY <1>1, SeedSane DEF TenantInv, OwnInv, Own

\* However the requests of the administrators interleave and whichever of their calls fail: a store call
\* made for an administrator of a tenant leaves the rows of all other tenants and the shared policies as
\* they are (enforceDeviceTenant, policyOwner, enforceEventTenant and resolveTokenTenant before the first
\* call; the tenant filters of the store in the calls themselves).
THEOREM WritesStay == Spec => WritesStayInTenant
  <1>1. Init => AdminInv /\ TenantInv
    BY AdminInit, TenantInit
  <1>2. AdminInv /\ TenantInv /\ [Next]_vars => (AdminInv /\ TenantInv)'
    BY AdminStep, TenantStep
  <1>3. AdminInv /\ TenantInv /\ [Next]_vars =>
          [\A p \in Slots : (req[p].run # <<>> /\ db' # db /\ req'[p].run # req[p].run) =>
              LET t == db.adm[req[p].by].tenant IN t # "" => Outside(db', t) = Outside(db, t)]_vars
    <2> SUFFICES ASSUME AdminInv, TenantInv, Next, NEW p \in Slots, db' # db, req'[p].run # req[p].run,
                        db.adm[req[p].by].tenant # ""
                 PROVE  Outside(db', db.adm[req[p].by].tenant) = Outside(db, db.adm[req[p].by].tenant)
      BY Zenon
    <2>1. PICK o \in Slots : Admit(o) \/ NextDevice(o) \/ Step(o) \/ Fail(o)
      BY DEF Next
    <2>2. Step(o) /\ o = p
      BY <2>1, StepFrame DEF AdminInv
    <2> QED
      BY <2>2, StepStays
  <1> QED
    BY <1>1, <1>2, <1>3, PTL DEF Spec, WritesStayInTenant

=============================================================================
