------------------------------ MODULE CaseProofs ------------------------------
(***************************************************************************)
(* Cases, for any number of requests at once, requests altogether and      *)
(* changes of the world, on either store: a contained case is closed on    *)
(* proof, a proof rests on evidence, the risk that is left is bounded, the *)
(* time line tells the status, and no step changes cases of two tenants.   *)
(***************************************************************************)
EXTENDS Cases, FiniteSetTheorems, SequenceTheorems, TLAPS

Statuses == {"OPEN", "INVESTIGATING", "CONTAINED", "CLOSED"}
CaseTenants == {"acme", "default"}
CaseKeys == CaseTenants \X CaseIds
CaseEvents == {<<"created", "", "">>, <<"attach", "", "">>, <<"verify", "", "">>} \cup ({"transition"} \X Statuses \X Statuses)

\* A stored case: its time line tells its status and its verifications.
IsCase(c) ==
  c = [status |-> c.status, owner |-> c.owner, asset |-> c.asset, verification |-> c.verification,
       timeline |-> c.timeline, created |-> c.created]
CaseOK(c) ==
  /\ IsCase(c)
  /\ c.status \in Statuses /\ IsFiniteSet(c.verification) /\ c.timeline \in Seq(CaseEvents)
  /\ TimelineTells(c)
StoreOK(s) == s = [k \in DOMAIN s |-> s[k]] /\ DOMAIN s \subseteq CaseKeys /\ \A k \in DOMAIN s : CaseOK(s[k])

\* What a step does to the cases: it adds cases and lengthens one at most.
Lengthened(c, d) == c.verification \subseteq d.verification /\ IsPrefix(c.timeline, d.timeline)
StoreStep(s, r) ==
  /\ StoreOK(r) /\ DOMAIN s \subseteq DOMAIN r
  /\ \A k \in DOMAIN s : Lengthened(s[k], r[k])
  /\ \A k, j \in DOMAIN s : s[k] # r[k] /\ s[j] # r[j] => j = k

Settings == [db : BOOLEAN, enforce : BOOLEAN, requireVerify : BOOLEAN, deploy : {"acme"}, kind : Kinds]
Outcomes == {"PENDING", "VERIFIED", "REGRESSED", "INCONCLUSIVE"}
CheckType == [kind : Kinds, outcome : Outcomes, baseline : {4}, score : {4}, gone : {5}, residual : 0..4, due : BOOLEAN]
World == [fresh : SUBSET {"hit", "quiet"}, status : {"QUARANTINE_PENDING", "QUARANTINED", ""}, known : BOOLEAN, present : BOOLEAN, exposed : {0, 1}]

\* What is left after a verdict; only a containment check lowers a risk that is not gone.
VerdictOK(kind, outcome, residual) ==
  /\ outcome \in Outcomes \ {"PENDING"} /\ residual \in 0..4
  /\ residual < 4 => outcome = "VERIFIED" \/ kind = "graph_containment"
Proved(P, t, refs) == \E p \in P : p.key[1] = t /\ p.key[2] \in refs

\* A check is of the kind of this behaviour, and where it says VERIFIED there was a proof.
CheckOK(k, c, kind, P) ==
  /\ c \in CheckType /\ c.kind = kind
  /\ c.outcome # "PENDING" => VerdictOK(kind, c.outcome, c.residual)
  /\ c.outcome = "VERIFIED" => \E p \in P : p.key = k
ChecksOK(s, kind, P) == s = [k \in DOMAIN s |-> s[k]] /\ \A k \in DOMAIN s : CheckOK(k, s[k], kind, P)

\* The evidence behind a verdict of a handler or of the worker.
Evidence(kind, by, fresh, exposed) ==
  /\ (kind = "detection" \/ (by = "worker" /\ kind # "device_status")) => fresh = {"quiet"}
  /\ (kind = "graph_containment" /\ by = "api") => exposed = 0
  /\ by = "worker" => kind # "vuln"
ProofsOK(P) == \A p \in P : Evidence(p.kind, p.by, p.fresh, p.exposed)
By(h) == IF h = "worker" THEN "worker" ELSE "api"

\* A handler past the gate of a contained case has seen a proof; a verdict rests on evidence.
GateOK(j, required, s, P) ==
  (required /\ j.to = "CLOSED" /\ j.saw = {"CONTAINED"}) =>
     <<j.tenant, j.id>> \in DOMAIN s /\ Proved(P, j.tenant, s[<<j.tenant, j.id>>].verification)
JudgedOK(h, j, kind) ==
  /\ VerdictOK(kind, j.verdict.outcome, j.verdict.residual) /\ j.kind = kind
  /\ j.verdict.outcome = "VERIFIED" => Evidence(kind, By(h), j.fresh, j.exposed)
JobOK(h, j, f, s, P) ==
  /\ j.pc = "transition" => GateOK(j, f.requireVerify, s, P)
  /\ j.pc = "resolve" => JudgedOK(h, j, f.kind)
Jobs == CaseHandlers \cup {"worker"}
JobsOK(js, f, s, P) == js = [h \in Jobs |-> js[h]] /\ \A h \in Jobs : JobOK(h, js[h], f, s, P)

CaseInv ==
  /\ cfg \in Settings /\ world \in World /\ StoreOK(cases)
  /\ ChecksOK(checks, cfg.kind, proofs) /\ JobsOK(jobs, cfg, cases, proofs) /\ ProofsOK(proofs) /\ ClosedWithProof
-----------------------------------------------------------------------------
(* Time lines *)

\* Max of a bounded set of numbers is in it and above it.
LEMMA MaxIsIn ==
    ASSUME NEW N \in Nat, NEW S, S \subseteq 0 .. N, S # {}
    PROVE  Max(S) \in S /\ \A y \in S : Max(S) >= y
  <1> DEFINE T == {N - x : x \in S}
  <1>1. T \subseteq Nat /\ T # {}
    OBVIOUS
  <1>2. IsWellFoundedOn(OpToRel(<, Nat), Nat)
    BY NatLessThanWellFounded
  <1>3. PICK n \in T : \A m \in T : ~ (<<m, n>> \in OpToRel(<, Nat))
    BY <1>1, <1>2, WFMin
  <1>4. ASSUME NEW m \in T PROVE n <= m
    <2>1. n \in Nat /\ m \in Nat
      BY <1>1
    <2>2. ~ (<<m, n>> \in {ss \in Nat \X Nat : ss[1] < ss[2]})
      BY <1>3 DEF OpToRel
    <2>3. ~ (<<m, n>>[1] < <<m, n>>[2])
      BY <2>1, <2>2
    <2> QED
      BY <2>1, <2>3
  <1>5. PICK x \in S : n = N - x
    OBVIOUS
  <1>6. \A y \in S : x >= y
    <2> TAKE y \in S
    <2>1. n <= N - y
      BY <1>4
    <2> QED
      BY <1>5, <2>1
  <1>7. \E z \in S : \A y \in S : z >= y
    BY <1>6
  <1> QED
    BY <1>7 DEF Max

\* An entry at the end changes what the time line tells at its end, and if it is a transition.
ToldMore(tl, e, r) ==
  /\ \A n \in 0 .. Len(tl) : told(r, n) = told(tl, n)
  /\ e[1] = "transition" => told(r, Len(r)) = e[3]
  /\ e[1] # "transition" => told(r, Len(r)) = told(tl, Len(tl))
LEMMA ToldAppend ==
    ASSUME NEW tl \in Seq(CaseEvents), NEW e, NEW r, r = Append(tl, e)
    PROVE  ToldMore(tl, e, r)
  <1> DEFINE moved(s, n) == {i \in 1 .. n : s[i][1] = "transition"}
  <1>1. Len(tl) \in Nat /\ Len(r) = Len(tl) + 1 /\ r[Len(r)] = e /\ \A i \in 1 .. Len(tl) : r[i] = tl[i]
    OBVIOUS
  <1>2. ASSUME NEW n \in 0 .. Len(tl) PROVE told(r, n) = told(tl, n) /\ moved(r, n) = moved(tl, n)
    <2>1. moved(r, n) = moved(tl, n)
      BY <1>1
    <2>2. CASE moved(tl, n) = {}
      BY <2>1, <2>2 DEF told
    <2>3. CASE moved(tl, n) # {}
      <3>1. n \in Nat /\ moved(tl, n) \subseteq 0 .. n
        BY <1>1
      <3>2. Max(moved(tl, n)) \in moved(tl, n)
        BY <2>3, <3>1, MaxIsIn
      <3>3. Max(moved(tl, n)) \in 1 .. Len(tl)
        BY <1>1, <3>2
      <3>4. r[Max(moved(tl, n))] = tl[Max(moved(tl, n))]
        BY <1>1, <3>3
      <3>5. told(r, n) = r[Max(moved(r, n))][3] /\ told(tl, n) = tl[Max(moved(tl, n))][3]
        BY <2>1, <2>3 DEF told
      <3> QED
        BY <2>1, <3>4, <3>5
    <2> QED
      BY <2>1, <2>2, <2>3
  <1>3. CASE e[1] = "transition"
    <2>1. Len(r) \in moved(r, Len(r)) /\ moved(r, Len(r)) \subseteq 0 .. Len(r) /\ Len(r) \in Nat
      BY <1>1, <1>3
    <2>2. Max(moved(r, Len(r))) \in moved(r, Len(r)) /\ \A y \in moved(r, Len(r)) : Max(moved(r, Len(r))) >= y
      BY <2>1, MaxIsIn
    <2>3. Max(moved(r, Len(r))) = Len(r)
      <3> DEFINE S == moved(r, Len(r))
                 m == Max(S)
      <3>1. m \in 0 .. Len(r) /\ m >= Len(r) /\ Len(r) \in Nat
        <4> HIDE DEF S, m
        <4>1. Len(r) \in S /\ S \subseteq 0 .. Len(r) /\ m \in S /\ \A y \in S : m >= y
          BY <2>1, <2>2 DEF S, m
        <4> QED
          BY <2>1, <4>1
      <3> HIDE DEF S, m
      <3>2. m = Len(r)
        BY <3>1
      <3> QED
        BY <3>2 DEF S, m
    <2>4. told(r, Len(r)) = r[Max(moved(r, Len(r)))][3]
      BY <2>1 DEF told
    <2>5. told(r, Len(r)) = e[3]
      BY <1>1, <2>3, <2>4
    <2>6. \A n \in 0 .. Len(tl) : told(r, n) = told(tl, n)
      BY <1>2
    <2> QED
      BY <1>3, <2>5, <2>6 DEF ToldMore
  <1>4. CASE e[1] # "transition"
    <2>1. moved(r, Len(r)) = moved(r, Len(tl))
      BY <1>1, <1>4
    <2>2. told(r, Len(r)) = told(r, Len(tl))
      <3>1. CASE moved(r, Len(tl)) = {}
        BY <2>1, <3>1 DEF told
      <3>2. CASE moved(r, Len(tl)) # {}
        BY <2>1, <3>2 DEF told
      <3> QED
        BY <3>1, <3>2
    <2>3. told(r, Len(r)) = told(tl, Len(tl))
      BY <1>1, <1>2, <2>2
    <2>4. \A n \in 0 .. Len(tl) : told(r, n) = told(tl, n)
      BY <1>2
    <2> QED
      BY <1>4, <2>3, <2>4 DEF ToldMore
  <1> QED
    BY <1>3, <1>4

\* Every transition of a time line is an allowed one from what was told before, and it tells each
\* verification once.
TimelineOK(tl, V) ==
  /\ \A i \in 1 .. Len(tl) : tl[i][1] = "transition" => tl[i][2] = told(tl, i - 1) /\ canTransition(tl[i][2], tl[i][3])
  /\ Cardinality({i \in 1 .. Len(tl) : tl[i][1] = "verify"}) = Cardinality(V)

\* A time line goes on with a transition from its status or with a verification that is new.
NextEvent(tl, e, V, W) ==
  \/ e[1] = "transition" /\ e[2] = told(tl, Len(tl)) /\ canTransition(e[2], e[3]) /\ W = V
  \/ e[1] = "verify" /\ \E ref : ref \notin V /\ W = V \cup {ref}
GoneOn(tl, V, e, r, W) ==
  /\ r \in Seq(CaseEvents) /\ IsPrefix(tl, r) /\ TimelineOK(r, W) /\ IsFiniteSet(W) /\ V \subseteq W
  /\ e[1] = "transition" => told(r, Len(r)) = e[3]
  /\ e[1] # "transition" => told(r, Len(r)) = told(tl, Len(tl))
LEMMA TimelineGoesOn ==
    ASSUME NEW tl \in Seq(CaseEvents), NEW V, IsFiniteSet(V), NEW e \in CaseEvents, NEW r, r = Append(tl, e), TimelineOK(tl, V),
           NEW W, NextEvent(tl, e, V, W)
    PROVE  GoneOn(tl, V, e, r, W)
  <1> DEFINE verified(s) == {i \in 1 .. Len(s) : s[i][1] = "verify"}
  <1>1. /\ r \in Seq(CaseEvents) /\ Len(tl) \in Nat /\ Len(r) = Len(tl) + 1 /\ DOMAIN r = 1 .. Len(r)
        /\ r[Len(r)] = e /\ \A i \in 1 .. Len(tl) : r[i] = tl[i]
    OBVIOUS
  <1>2. IsPrefix(tl, r)
    <2>1. SubSeq(r, 1, Len(tl)) = tl /\ SubSeq(tl, 1, Len(tl)) = tl
      BY <1>1
    <2> QED
      BY <1>1, <2>1 DEF IsPrefix
  <1>3. /\ \A n \in 0 .. Len(tl) : told(r, n) = told(tl, n)
        /\ e[1] = "transition" => told(r, Len(r)) = e[3]
        /\ e[1] # "transition" => told(r, Len(r)) = told(tl, Len(tl))
    <2>1. ToldMore(tl, e, r)
      BY ToldAppend
    <2> QED
      BY <2>1 DEF ToldMore
  <1>4. ASSUME NEW i \in 1 .. Len(tl), r[i][1] = "transition"
        PROVE  r[i][2] = told(r, i - 1) /\ canTransition(r[i][2], r[i][3])
    <2>1. r[i] = tl[i] /\ i - 1 \in 0 .. Len(tl)
      BY <1>1
    <2>2. tl[i][2] = told(tl, i - 1) /\ canTransition(tl[i][2], tl[i][3])
      BY <1>4, <2>1 DEF TimelineOK
    <2> QED
      BY <1>3, <2>1, <2>2
  <1>5. IsFiniteSet(verified(tl)) /\ Len(r) \notin verified(tl) /\ Cardinality(verified(tl)) = Cardinality(V)
    <2>1. IsFiniteSet(1 .. Len(tl)) /\ verified(tl) \subseteq 1 .. Len(tl)
      BY <1>1, FS_Interval
    <2>2. IsFiniteSet(verified(tl))
      BY <2>1, FS_Subset
    <2>3. Len(r) \notin 1 .. Len(tl)
      BY <1>1
    <2>4. Cardinality(verified(tl)) = Cardinality(V)
      BY DEF TimelineOK
    <2> QED
      BY <2>1, <2>2, <2>3, <2>4
  <1>6. ASSUME e[1] = "transition", e[2] = told(tl, Len(tl)), canTransition(e[2], e[3])
        PROVE  /\ told(r, Len(r)) = e[3]
               /\ \A i \in 1 .. Len(r) : r[i][1] = "transition" => r[i][2] = told(r, i - 1) /\ canTransition(r[i][2], r[i][3])
               /\ verified(r) = verified(tl)
    <2>1. told(r, Len(r)) = e[3]
      BY <1>3, <1>6
    <2>2. ASSUME NEW i \in 1 .. Len(r), r[i][1] = "transition"
          PROVE  r[i][2] = told(r, i - 1) /\ canTransition(r[i][2], r[i][3])
      <3>1. CASE i \in 1 .. Len(tl)
        BY <1>4, <2>2, <3>1
      <3>2. CASE i = Len(r)
        <4>1. i - 1 = Len(tl) /\ Len(tl) \in 0 .. Len(tl) /\ r[i] = e
          BY <1>1, <3>2
        <4>2. told(r, i - 1) = told(tl, Len(tl))
          BY <1>3, <4>1
        <4> QED
          BY <1>6, <4>1, <4>2
      <3> QED
        BY <1>1, <3>1, <3>2
    <2>3. verified(r) = verified(tl)
      <3>1. \A i \in 1 .. Len(r) : i = Len(r) \/ i \in 1 .. Len(tl)
        BY <1>1
      <3>2. \A i \in 1 .. Len(tl) : i \in 1 .. Len(r)
        BY <1>1
      <3>3. r[Len(r)][1] # "verify"
        BY <1>1, <1>6
      <3>4. ASSUME NEW i \in verified(r) PROVE i \in verified(tl)
        <4>1. i \in 1 .. Len(r) /\ r[i][1] = "verify"
          OBVIOUS
        <4>2. i \in 1 .. Len(tl)
          BY <3>1, <3>3, <4>1
        <4>3. tl[i][1] = "verify"
          BY <1>1, <4>1, <4>2
        <4> QED
          BY <4>2, <4>3
      <3>5. ASSUME NEW i \in verified(tl) PROVE i \in verified(r)
        <4>1. i \in 1 .. Len(tl) /\ tl[i][1] = "verify"
          OBVIOUS
        <4>2. r[i][1] = "verify" /\ i \in 1 .. Len(r)
          BY <1>1, <3>2, <4>1
        <4> QED
          BY <4>2
      <3> HIDE DEF verified
      <3> QED
        BY <3>4, <3>5
    <2> QED
      BY <2>1, <2>2, <2>3
  <1>7. ASSUME NEW ref, e[1] = "verify", ref \notin V
        PROVE  /\ told(r, Len(r)) = told(tl, Len(tl)) /\ IsFiniteSet(V \cup {ref})
               /\ \A i \in 1 .. Len(r) : r[i][1] = "transition" => r[i][2] = told(r, i - 1) /\ canTransition(r[i][2], r[i][3])
               /\ Cardinality(verified(r)) = Cardinality(V \cup {ref})
    <2>1. told(r, Len(r)) = told(tl, Len(tl))
      BY <1>3, <1>7
    <2>2. ASSUME NEW i \in 1 .. Len(r), r[i][1] = "transition"
          PROVE  r[i][2] = told(r, i - 1) /\ canTransition(r[i][2], r[i][3])
      <3>1. i # Len(r)
        BY <1>1, <1>7, <2>2
      <3>2. i \in 1 .. Len(tl)
        BY <1>1, <3>1
      <3> QED
        BY <1>4, <2>2, <3>2
    <2>3. verified(r) = verified(tl) \cup {Len(r)}
      <3>1. \A i \in 1 .. Len(r) : i = Len(r) \/ i \in 1 .. Len(tl)
        BY <1>1
      <3>2. Len(r) \in 1 .. Len(r) /\ \A i \in 1 .. Len(tl) : i \in 1 .. Len(r)
        BY <1>1
      <3>3. r[Len(r)][1] = "verify"
        BY <1>1, <1>7
      <3>4. ASSUME NEW i \in verified(r) PROVE i \in verified(tl) \cup {Len(r)}
        <4>1. i \in 1 .. Len(r) /\ r[i][1] = "verify"
          OBVIOUS
        <4>2. CASE i \in 1 .. Len(tl)
          <5>1. tl[i][1] = "verify"
            BY <1>1, <4>1, <4>2
          <5> QED
            BY <4>2, <5>1
        <4> QED
          BY <3>1, <4>1, <4>2
      <3>5. ASSUME NEW i \in verified(tl) PROVE i \in verified(r)
        <4>1. i \in 1 .. Len(tl) /\ tl[i][1] = "verify"
          OBVIOUS
        <4>2. r[i][1] = "verify" /\ i \in 1 .. Len(r)
          BY <1>1, <3>2, <4>1
        <4> QED
          BY <4>2
      <3>6. Len(r) \in verified(r)
        BY <3>2, <3>3
      <3> HIDE DEF verified
      <3> QED
        BY <3>4, <3>5, <3>6
    <2>4. Cardinality(verified(r)) = Cardinality(V) + 1
      <3> DEFINE A == verified(tl)
                 x == Len(r)
      <3>1. IsFiniteSet(A) /\ x \notin A /\ Cardinality(A) = Cardinality(V) /\ verified(r) = A \cup {x}
        BY <1>5, <2>3
      <3> HIDE DEF verified, A, x
      <3>2. Cardinality(A \cup {x}) = Cardinality(A) + 1
        BY <3>1, FS_AddElement
      <3> QED
        BY <3>1, <3>2
    <2>5. Cardinality(V \cup {ref}) = Cardinality(V) + 1 /\ IsFiniteSet(V \cup {ref})
      BY <1>7, FS_AddElement
    <2> QED
      BY <2>1, <2>2, <2>4, <2>5
  <1>8. ASSUME e[1] = "transition", e[2] = told(tl, Len(tl)), canTransition(e[2], e[3])
        PROVE  TimelineOK(r, V) /\ told(r, Len(r)) = e[3]
    <2>1. told(r, Len(r)) = e[3] /\ verified(r) = verified(tl)
          /\ \A i \in 1 .. Len(r) : r[i][1] = "transition" => r[i][2] = told(r, i - 1) /\ canTransition(r[i][2], r[i][3])
      BY <1>6, <1>8
    <2> QED
      BY <1>5, <2>1 DEF TimelineOK
  <1>9. ASSUME NEW ref, ref \notin V, W = V \cup {ref}, e[1] = "verify"
        PROVE  TimelineOK(r, W) /\ IsFiniteSet(W) /\ V \subseteq W /\ told(r, Len(r)) = told(tl, Len(tl))
    BY <1>7, <1>9 DEF TimelineOK
  <1> HIDE DEF verified
  <1>10. CASE e[1] = "transition" /\ e[2] = told(tl, Len(tl)) /\ canTransition(e[2], e[3]) /\ W = V
    <2>1. TimelineOK(r, V) /\ told(r, Len(r)) = e[3]
      BY <1>8, <1>10
    <2>2. W = V /\ e[1] = "transition"
      BY <1>10
    <2>3. r \in Seq(CaseEvents)
      BY <1>1
    <2> QED
      BY <1>2, <2>1, <2>2, <2>3 DEF GoneOn
  <1>11. CASE e[1] = "verify" /\ \E ref : ref \notin V /\ W = V \cup {ref}
    <2>1. TimelineOK(r, W) /\ told(r, Len(r)) = told(tl, Len(tl)) /\ IsFiniteSet(W) /\ V \subseteq W
      BY <1>9, <1>11
    <2>2. e[1] # "transition" /\ r \in Seq(CaseEvents)
      BY <1>1, <1>11
    <2> QED
      BY <1>2, <2>1, <2>2 DEF GoneOn
  <1> QED
    BY <1>10, <1>11 DEF NextEvent

\* What CaseOK says of a case, field by field.
LEMMA CaseFields ==
    ASSUME NEW c, CaseOK(c)
    PROVE  /\ c.status \in Statuses /\ IsFiniteSet(c.verification) /\ c.timeline \in Seq(CaseEvents)
           /\ c.status = told(c.timeline, Len(c.timeline)) /\ TimelineOK(c.timeline, c.verification)
  <1>1. c.status \in Statuses /\ IsFiniteSet(c.verification) /\ c.timeline \in Seq(CaseEvents) /\ TimelineTells(c)
    BY DEF CaseOK
  <1>2. DOMAIN c.timeline = 1 .. Len(c.timeline)
    BY <1>1
  <1> QED
    BY <1>1, <1>2 DEF TimelineTells, TimelineOK

\* A case that got an entry at its end is as good as the time line it has now.
NextCase(c, e, d) ==
  /\ d.timeline = Append(c.timeline, e)
  /\ \/ /\ e[1] = "transition" /\ e[2] = c.status /\ e[3] = d.status /\ canTransition(c.status, d.status)
        /\ d.status \in Statuses /\ d.verification = c.verification
     \/ /\ e[1] = "verify" /\ d.status = c.status
        /\ \E ref : ref \notin c.verification /\ d.verification = c.verification \cup {ref}
LEMMA CaseGoesOn ==
    ASSUME NEW c, CaseOK(c), NEW d, IsCase(d), NEW e \in CaseEvents, NextCase(c, e, d)
    PROVE  CaseOK(d) /\ Lengthened(c, d)
  <1> DEFINE tl == c.timeline
             V == c.verification
             W == d.verification
             r == d.timeline
             from == c.status
             to == d.status
  <1>1. /\ tl \in Seq(CaseEvents) /\ IsFiniteSet(V) /\ from = told(tl, Len(tl)) /\ r = Append(tl, e) /\ from \in Statuses
        /\ TimelineOK(tl, V)
    BY CaseFields DEF NextCase
  <1>2. \/ /\ e[1] = "transition" /\ e[2] = from /\ e[3] = to /\ canTransition(from, to)
           /\ to \in Statuses /\ W = V
        \/ /\ e[1] = "verify" /\ to = from
           /\ \E ref : ref \notin V /\ W = V \cup {ref}
    BY DEF NextCase
  <1>3. /\ r \in Seq(CaseEvents) /\ IsPrefix(tl, r) /\ V \subseteq W /\ to = told(r, Len(r)) /\ IsFiniteSet(W)
        /\ to \in Statuses /\ TimelineOK(r, W)
    <2> HIDE DEF tl, V, W, r, from, to
    <2>1. NextEvent(tl, e, V, W)
      BY <1>1, <1>2 DEF NextEvent
    <2>2. GoneOn(tl, V, e, r, W)
      BY <1>1, <2>1, TimelineGoesOn
    <2> QED
      BY <1>1, <1>2, <2>2 DEF GoneOn
  <1>4. TimelineTells(d)
    <2>1. DOMAIN r = 1 .. Len(r)
      BY <1>3
    <2> QED
      BY <1>3, <2>1 DEF TimelineTells, TimelineOK
  <1>5. CaseOK(d)
    BY <1>3, <1>4 DEF CaseOK
  <1> QED
    BY <1>3, <1>5 DEF Lengthened

\* What the operations write.
Moved(c, to) == [[c EXCEPT !.status = to] EXCEPT !.timeline = Append(@, <<"transition", c.status, to>>)]
Verified(c, ref) == [[c EXCEPT !["verification"] = @ \cup {ref}] EXCEPT !.timeline = Append(@, Event("verify"))]
Created(at) == [NewCase(at) EXCEPT !.status = "OPEN", !.timeline = <<Event("created")>>]

LEMMA CaseMoves ==
    ASSUME NEW c, CaseOK(c), NEW to \in Statuses, canTransition(c.status, to)
    PROVE  CaseOK(Moved(c, to)) /\ Lengthened(c, Moved(c, to))
  <1> DEFINE e == <<"transition", c.status, to>>
             d == Moved(c, to)
  <1>1. e \in CaseEvents /\ e[1] = "transition" /\ e[2] = c.status /\ e[3] = to
    BY CaseFields DEF CaseEvents
  <1>2. d.status = to /\ d.verification = c.verification /\ d.timeline = Append(c.timeline, e) /\ IsCase(d)
    <2>1. IsCase(c)
      BY DEF CaseOK
    <2> HIDE DEF e
    <2>2. Moved(c, to) = [[c EXCEPT !.status = to] EXCEPT !.timeline = Append(@, e)]
      BY DEF e, Moved
    <2> QED
      BY <2>1, <2>2 DEF IsCase
  <1> HIDE DEF e, d
  <1>3. NextCase(c, e, d)
    BY <1>1, <1>2 DEF NextCase
  <1>4. CaseOK(d) /\ Lengthened(c, d)
    BY <1>1, <1>2, <1>3, CaseGoesOn
  <1> QED
    BY <1>4 DEF d

LEMMA CaseVerified ==
    ASSUME NEW c, CaseOK(c), NEW ref, ref \notin c.verification
    PROVE  CaseOK(Verified(c, ref)) /\ Lengthened(c, Verified(c, ref))
  <1> DEFINE e == Event("verify")
             W == c.verification \cup {ref}
             d == Verified(c, ref)
  <1>1. e \in CaseEvents /\ e[1] = "verify"
    BY DEF CaseEvents, Event
  <1>2. d.status = c.status /\ d.verification = W /\ d.timeline = Append(c.timeline, e) /\ IsCase(d)
    <2>1. IsCase(c)
      BY DEF CaseOK
    <2> HIDE DEF e, W
    <2>2. Verified(c, ref) = [[c EXCEPT !["verification"] = W] EXCEPT !.timeline = Append(@, e)]
      BY DEF e, W, Verified
    <2> QED
      BY <2>1, <2>2 DEF IsCase
  <1> HIDE DEF e, d
  <1>3. NextCase(c, e, d)
    BY <1>1, <1>2 DEF NextCase
  <1>4. CaseOK(d) /\ Lengthened(c, d)
    BY <1>1, <1>2, <1>3, CaseGoesOn
  <1> QED
    BY <1>4 DEF d

LEMMA CaseBegins == ASSUME NEW at PROVE CaseOK(Created(at))
  <1> DEFINE tl == <<Event("created")>>
             A == {Device}
             none == {}
             d == Created(at)
  <1>1. tl \in Seq(CaseEvents) /\ Len(tl) = 1 /\ DOMAIN tl = 1 .. 1
    <2>1. Event("created") \in CaseEvents
      BY DEF CaseEvents, Event
    <2> QED
      BY <2>1
  <1>2. \A i \in 1 .. 1 : tl[i][1] = "created"
    <2>1. tl[1][1] = "created"
      BY DEF Event
    <2> QED
      BY <2>1
  <1>3. d = [status |-> "OPEN", owner |-> "system", asset |-> A, verification |-> none, timeline |-> tl, created |-> at]
    <2> DEFINE empty == <<>>
    <2>1. NewCase(at) = [status |-> "OPEN", owner |-> "system", asset |-> A, verification |-> none, timeline |-> empty, created |-> at]
      BY DEF NewCase
    <2>2. d = [NewCase(at) EXCEPT !.status = "OPEN", !.timeline = tl]
      BY DEF Created
    <2> HIDE DEF A, none, d, tl, empty
    <2>3. d = [[status |-> "OPEN", owner |-> "system", asset |-> A, verification |-> none, timeline |-> empty, created |-> at]
               EXCEPT !.status = "OPEN", !.timeline = tl]
      BY <2>1, <2>2
    <2> QED
      BY <2>3
  <1> HIDE DEF tl, A, none, d
  <1>4. d.status = "OPEN" /\ d.verification = none /\ d.timeline = tl /\ IsCase(d)
    BY <1>3 DEF IsCase
  <1>5. told(tl, Len(tl)) = "OPEN"
    BY <1>1, <1>2 DEF told
  <1>6. {i \in DOMAIN tl : tl[i][1] = "verify"} = {}
    BY <1>1, <1>2
  <1>7. TimelineTells(d)
    <2>1. \A i \in DOMAIN tl : tl[i][1] # "transition"
      BY <1>1, <1>2
    <2> QED
      BY <1>4, <1>5, <1>6, <2>1 DEF TimelineTells, none
  <1>8. IsFiniteSet(d.verification)
    BY <1>4, FS_EmptySet DEF none
  <1>9. CaseOK(d)
    BY <1>1, <1>4, <1>7, <1>8 DEF CaseOK, Statuses
  <1> QED
    BY <1>9 DEF d

-----------------------------------------------------------------------------
(* The store of cases, in memory and in the database *)

LEMMA CaseStays == ASSUME NEW c, CaseOK(c) PROVE Lengthened(c, c)
  <1>1. c.timeline \in Seq(CaseEvents)
    BY CaseFields
  <1>2. Len(c.timeline) \in Nat /\ SubSeq(c.timeline, 1, Len(c.timeline)) = c.timeline
    BY <1>1
  <1> QED
    BY <1>2 DEF Lengthened, IsPrefix

LEMMA StoreStays == ASSUME NEW s, StoreOK(s) PROVE StoreStep(s, s)
  BY CaseStays DEF StoreStep, StoreOK

\* One case is written anew, longer, or for the first time.
LEMMA StoreWrites ==
    ASSUME NEW s, StoreOK(s), NEW k \in CaseKeys, NEW d, CaseOK(d), k \in DOMAIN s => Lengthened(s[k], d),
           NEW r, r = [x \in DOMAIN s \cup {k} |-> IF x = k THEN d ELSE s[x]]
    PROVE  StoreStep(s, r)
  <1>1. DOMAIN r = DOMAIN s \cup {k} /\ r[k] = d /\ \A x \in DOMAIN s : x # k => r[x] = s[x]
    OBVIOUS
  <1>2. r = [x \in DOMAIN r |-> r[x]]
    OBVIOUS
  <1>3. \A x \in DOMAIN r : CaseOK(r[x])
    BY <1>1 DEF StoreOK
  <1>4. DOMAIN r \subseteq CaseKeys
    BY <1>1 DEF StoreOK
  <1>5. StoreOK(r)
    BY <1>2, <1>3, <1>4 DEF StoreOK
  <1>6. \A x \in DOMAIN s : Lengthened(s[x], r[x])
    <2> TAKE x \in DOMAIN s
    <2>1. CaseOK(s[x])
      BY DEF StoreOK
    <2> QED
      BY <1>1, <2>1, CaseStays
  <1>7. \A x, y \in DOMAIN s : s[x] # r[x] /\ s[y] # r[y] => y = x
    BY <1>1
  <1> QED
    BY <1>1, <1>5, <1>6, <1>7 DEF StoreStep

LEMMA CreateKeeps ==
    ASSUME NEW s, StoreOK(s), NEW t \in CaseTenants, NEW id \in CaseIds, NEW at
    PROVE  StoreStep(s, Create(s, t, id, NewCase(at)).store)
  <1> DEFINE k == <<t, id>>
             d == Created(at)
             r == [x \in DOMAIN s \cup {k} |-> IF x = k THEN d ELSE s[x]]
  <1>1. k \in CaseKeys /\ t # "" /\ id # ""
    BY DEF CaseKeys, CaseTenants, CaseIds
  <1>2. CaseOK(d)
    BY CaseBegins
  <1>3. CASE k \in DOMAIN s
    <2>1. Create(s, t, id, NewCase(at)).store = s
      BY <1>3 DEF Create, Failed
    <2> QED
      BY <2>1, StoreStays
  <1>4. CASE k \notin DOMAIN s
    <2>1. Create(s, t, id, NewCase(at)) = [ok |-> TRUE, store |-> With(s, k, d)]
      BY <1>1, <1>4 DEF Create, Created
    <2> HIDE DEF k, d
    <2>2. Create(s, t, id, NewCase(at)).store = With(s, k, d)
      BY <2>1
    <2>3. With(s, k, d) = r
      BY DEF With
    <2>4. StoreStep(s, r)
      BY <1>1, <1>2, <1>4, StoreWrites DEF k
    <2> QED
      BY <2>2, <2>3, <2>4
  <1> QED
    BY <1>3, <1>4

LEMMA TransitionKeeps ==
    ASSUME NEW s, StoreOK(s), NEW t, NEW id, NEW to
    PROVE  StoreStep(s, Transition(s, t, id, to).store)
  <1> DEFINE k == <<t, id>>
             c == s[k]
             d == Moved(c, to)
             r == [x \in DOMAIN s \cup {k} |-> IF x = k THEN d ELSE s[x]]
  <1>1. CASE k \notin DOMAIN s \/ ~knownStatus(to) \/ ~canTransition(c.status, to)
    <2>1. Transition(s, t, id, to) = Failed(s)
      BY <1>1 DEF Transition
    <2> QED
      BY <2>1, StoreStays DEF Failed
  <1>2. CASE k \in DOMAIN s /\ knownStatus(to) /\ canTransition(c.status, to)
    <2>1. Transition(s, t, id, to) = appendEvent(s, k, [c EXCEPT !.status = to], <<"transition", c.status, to>>)
      BY <1>2 DEF Transition
    <2>2. appendEvent(s, k, [c EXCEPT !.status = to], <<"transition", c.status, to>>) = [ok |-> TRUE, store |-> [s EXCEPT ![k] = d]]
      BY DEF appendEvent, Moved
    <2>3. CaseOK(c) /\ to \in Statuses /\ k \in CaseKeys /\ s = [x \in DOMAIN s |-> s[x]]
      BY <1>2 DEF StoreOK, knownStatus, allowedTransitions, Statuses
    <2>4. CaseOK(d) /\ Lengthened(c, d)
      BY <1>2, <2>3, CaseMoves
    <2> HIDE DEF k, d
    <2>5. [s EXCEPT ![k] = d] = r
      BY <1>2, <2>3
    <2>6. StoreStep(s, r)
      BY <2>3, <2>4, StoreWrites DEF r
    <2>7. Transition(s, t, id, to).store = r
      BY <2>1, <2>2, <2>5
    <2> QED
      BY <2>6, <2>7
  <1> QED
    BY <1>1, <1>2

LEMMA AttachKeeps ==
    ASSUME NEW s, StoreOK(s), NEW t, NEW id, NEW ref
    PROVE  StoreStep(s, Attach(s, t, id, "verification", ref).store)
  <1> DEFINE k == <<t, id>>
             c == s[k]
             d == Verified(c, ref)
             r == [x \in DOMAIN s \cup {k} |-> IF x = k THEN d ELSE s[x]]
  <1>1. CASE k \notin DOMAIN s
    <2>1. Attach(s, t, id, "verification", ref) = Failed(s)
      BY <1>1 DEF Attach
    <2> QED
      BY <2>1, StoreStays DEF Failed
  <1>2. CASE k \in DOMAIN s /\ ref \in c.verification
    <2>1. Attach(s, t, id, "verification", ref) = [ok |-> TRUE, store |-> s]
      BY <1>2 DEF Attach
    <2> QED
      BY <2>1, StoreStays
  <1>3. CASE k \in DOMAIN s /\ ref \notin c.verification
    <2>1. Attach(s, t, id, "verification", ref) = appendEvent(s, k, [c EXCEPT !["verification"] = @ \cup {ref}], Event("verify"))
      BY <1>3 DEF Attach
    <2>2. appendEvent(s, k, [c EXCEPT !["verification"] = @ \cup {ref}], Event("verify")) = [ok |-> TRUE, store |-> [s EXCEPT ![k] = d]]
      BY DEF appendEvent, Verified
    <2>3. CaseOK(c) /\ k \in CaseKeys /\ s = [x \in DOMAIN s |-> s[x]]
      BY <1>3 DEF StoreOK
    <2>4. CaseOK(d) /\ Lengthened(c, d)
      BY <1>3, <2>3, CaseVerified
    <2> HIDE DEF k, d
    <2>5. [s EXCEPT ![k] = d] = r
      BY <1>3, <2>3
    <2>6. StoreStep(s, r)
      BY <2>3, <2>4, StoreWrites DEF r
    <2>7. Attach(s, t, id, "verification", ref).store = r
      BY <2>1, <2>2, <2>5
    <2> QED
      BY <2>6, <2>7
  <1> QED
    BY <1>1, <1>2, <1>3
\* The database applies an operation to the one row and writes the row back.
LEMMA RowOK ==
    ASSUME NEW s, StoreOK(s), NEW t, NEW id
    PROVE  StoreOK(Row(s, t, id))
  BY DEF StoreOK, Row

LEMMA RowWrites ==
    ASSUME NEW s, StoreOK(s), NEW t, NEW id, NEW q, StoreStep(Row(s, t, id), q), DOMAIN q \subseteq {<<t, id>>}
    PROVE  StoreStep(s, Saved(q, s))
  <1> DEFINE k == <<t, id>>
             r == Saved(q, s)
  <1>1. r = [x \in DOMAIN q \cup DOMAIN s |-> IF x \in DOMAIN q THEN q[x] ELSE s[x]]
    BY DEF Saved
  <1>2. StoreOK(Row(s, t, id)) /\ DOMAIN Row(s, t, id) = DOMAIN s \cap {k} /\ \A x \in DOMAIN s \cap {k} : Row(s, t, id)[x] = s[x]
    <2>1. StoreOK(Row(s, t, id))
      BY RowOK
    <2>2. DOMAIN Row(s, t, id) = DOMAIN s \cap {k} /\ \A x \in DOMAIN s \cap {k} : Row(s, t, id)[x] = s[x]
      BY DEF Row
    <2> QED
      BY <2>1, <2>2
  <1>3. StoreOK(q) /\ DOMAIN s \cap {k} \subseteq DOMAIN q /\ \A x \in DOMAIN s \cap {k} : Lengthened(s[x], q[x])
    BY <1>2 DEF StoreStep
  <1> HIDE DEF k, r
  <1>4. CASE k \in DOMAIN q
    <2>1. DOMAIN q = {k}
      BY <1>4 DEF k
    <2>2. r = [x \in DOMAIN s \cup {k} |-> IF x = k THEN q[k] ELSE s[x]]
      BY <1>1, <2>1
    <2>3. CaseOK(q[k]) /\ k \in CaseKeys
      BY <1>3, <1>4 DEF StoreOK
    <2>4. k \in DOMAIN s => Lengthened(s[k], q[k])
      BY <1>3
    <2>5. StoreStep(s, r)
      BY <2>2, <2>3, <2>4, StoreWrites
    <2> QED
      BY <2>5 DEF r
  <1>5. CASE k \notin DOMAIN q
    <2>1. DOMAIN q = {}
      BY <1>5 DEF k
    <2>2. r = s
      BY <1>1, <2>1 DEF StoreOK
    <2> QED
      BY <2>2, StoreStays DEF r
  <1> QED
    BY <1>4, <1>5

LEMMA DoCreateKeeps ==
    ASSUME StoreOK(cases), NEW t \in CaseTenants, NEW id \in CaseIds, NEW at
    PROVE  StoreStep(cases, DoCreate(t, id, NewCase(at)).store)
  <1> DEFINE s == cases
             k == <<t, id>>
             q == Create(<<>>, t, id, NewCase(at)).store
  <1>1. k \in CaseKeys /\ t # "" /\ id # ""
    BY DEF CaseKeys, CaseTenants, CaseIds
  <1>2. CASE ~cfg.db
    BY <1>2, CreateKeeps DEF DoCreate
  <1>3. CASE cfg.db /\ k \in DOMAIN s
    <2>1. DoCreate(t, id, NewCase(at)).store = s
      BY <1>3 DEF DoCreate, dbCreate, Failed
    <2> QED
      BY <2>1, StoreStays
  <1>4. CASE cfg.db /\ k \notin DOMAIN s
    <2>0. k \notin DOMAIN <<>>
      OBVIOUS
    <2>1. Create(<<>>, t, id, NewCase(at)) = [ok |-> TRUE, store |-> With(<<>>, k, Created(at))]
      BY <1>1, <2>0 DEF Create, Created
    <2>2. q = With(<<>>, k, Created(at)) /\ DoCreate(t, id, NewCase(at)).store = Saved(q, s)
      BY <1>4, <2>1 DEF DoCreate, dbCreate
    <2> HIDE DEF k, q
    <2>3. q = [x \in {k} |-> Created(at)]
      BY <2>2 DEF With
    <2>4. Saved(q, s) = [x \in DOMAIN q \cup DOMAIN s |-> IF x \in DOMAIN q THEN q[x] ELSE s[x]]
      BY DEF Saved
    <2>5. Saved(q, s) = [x \in DOMAIN s \cup {k} |-> IF x = k THEN Created(at) ELSE s[x]]
      BY <2>3, <2>4
    <2>6. StoreStep(s, Saved(q, s))
      BY <1>1, <1>4, <2>5, CaseBegins, StoreWrites
    <2> QED
      BY <2>2, <2>6
  <1> QED
    BY <1>2, <1>3, <1>4

LEMMA DoTransitionKeeps ==
    ASSUME StoreOK(cases), NEW t, NEW id, NEW to
    PROVE  StoreStep(cases, DoTransition(t, id, to).store)
  <1> DEFINE row == Row(cases, t, id)
             r == Transition(row, t, id, to)
  <1>1. CASE ~cfg.db
    BY <1>1, TransitionKeeps DEF DoTransition
  <1>2. CASE cfg.db
    <2>1. StoreOK(row) /\ DOMAIN row \subseteq {<<t, id>>}
      <3>1. StoreOK(row)
        BY RowOK
      <3>2. DOMAIN row \subseteq {<<t, id>>}
        BY DEF Row
      <3> QED
        BY <3>1, <3>2
    <2>2. StoreStep(row, r.store)
      BY <2>1, TransitionKeeps
    <2>3. DOMAIN r.store \subseteq {<<t, id>>}
      BY <2>1 DEF Transition, appendEvent, Failed
    <2>4. StoreStep(cases, Saved(r.store, cases))
      BY <2>2, <2>3, RowWrites
    <2>5. DoTransition(t, id, to).store = IF r.ok THEN Saved(r.store, cases) ELSE cases
      BY <1>2 DEF DoTransition, dbTransition, mutate
    <2> QED
      BY <2>4, <2>5, StoreStays
  <1> QED
    BY <1>1, <1>2

LEMMA DoAttachKeeps ==
    ASSUME StoreOK(cases), NEW t, NEW id, NEW ref
    PROVE  StoreStep(cases, DoAttach(t, id, "verification", ref).store)
  <1> DEFINE row == Row(cases, t, id)
             r == Attach(row, t, id, "verification", ref)
  <1>1. CASE ~cfg.db
    BY <1>1, AttachKeeps DEF DoAttach
  <1>2. CASE cfg.db
    <2>1. StoreOK(row) /\ DOMAIN row \subseteq {<<t, id>>}
      <3>1. StoreOK(row)
        BY RowOK
      <3>2. DOMAIN row \subseteq {<<t, id>>}
        BY DEF Row
      <3> QED
        BY <3>1, <3>2
    <2>2. StoreStep(row, r.store)
      BY <2>1, AttachKeeps
    <2>3. DOMAIN r.store \subseteq {<<t, id>>}
      BY <2>1 DEF Attach, appendEvent, Failed
    <2>4. StoreStep(cases, Saved(r.store, cases))
      BY <2>2, <2>3, RowWrites
    <2>5. DoAttach(t, id, "verification", ref).store = IF r.ok THEN Saved(r.store, cases) ELSE cases
      BY <1>2 DEF DoAttach, dbAttach, mutate
    <2> QED
      BY <2>4, <2>5, StoreStays
  <1> QED
    BY <1>1, <1>2
-----------------------------------------------------------------------------
(* Checks and their verdicts *)

LEMMA MinMaxOfTwo ==
    ASSUME NEW a \in Int, NEW b \in Int
    PROVE  /\ Min({a, b}) \in {a, b} /\ Min({a, b}) <= a /\ Min({a, b}) <= b
           /\ Max({a, b}) \in {a, b} /\ Max({a, b}) >= a /\ Max({a, b}) >= b
  <1>1. \E x \in {a, b} : \A y \in {a, b} : x <= y
    OBVIOUS
  <1>2. \E x \in {a, b} : \A y \in {a, b} : x >= y
    OBVIOUS
  <1>3. Min({a, b}) \in {a, b} /\ \A y \in {a, b} : Min({a, b}) <= y
    BY <1>1 DEF Min
  <1>4. Max({a, b}) \in {a, b} /\ \A y \in {a, b} : Max({a, b}) >= y
    BY <1>2 DEF Max
  <1> QED
    BY <1>3, <1>4

LEMMA VerifiedResidual == ASSUME NEW c \in CheckType PROVE verifiedResidual(c) = 4
  <1>1. c.gone = 5 /\ c.baseline = 4
    BY DEF CheckType
  <1>2. Min({5, 4}) \in {5, 4} /\ Min({5, 4}) <= 4
    BY MinMaxOfTwo
  <1> QED
    BY <1>1, <1>2 DEF verifiedResidual

LEMMA GraphResidual == ASSUME NEW c \in CheckType, NEW x \in {0, 1} PROVE Min({c.baseline, Max({1, (c.baseline * x) \div 2})}) \in 0 .. 4
  <1>1. c.baseline = 4
    BY DEF CheckType
  <1>2. (4 * x) \div 2 \in Nat
    BY SMT
  <1> DEFINE n == (4 * x) \div 2
             m == Max({1, n})
  <1>3. m \in Nat
    <2>1. n \in Nat /\ n \in Int /\ 1 \in Int
      BY <1>2
    <2> HIDE DEF n
    <2>2. Max({1, n}) \in {1, n}
      BY <2>1, MinMaxOfTwo
    <2> QED
      BY <2>1, <2>2
  <1> HIDE DEF m
  <1>4. Min({4, m}) \in {4, m} /\ Min({4, m}) <= 4
    BY <1>3, MinMaxOfTwo
  <1>5. Min({c.baseline, Max({1, (c.baseline * x) \div 2})}) = Min({4, m})
    BY <1>1 DEF m
  <1> QED
    BY <1>3, <1>4, <1>5

\* Every evaluation ends in a verdict, and VERIFIED has its evidence.
Sound(h, kind, v) ==
  /\ VerdictOK(kind, v.outcome, v.residual)
  /\ v.outcome = "VERIFIED" => Evidence(kind, By(h), world.fresh, world.exposed)

LEMMA VerdictFields == ASSUME NEW o, NEW r PROVE Verdict(o, r).outcome = o /\ Verdict(o, r).residual = r
  BY DEF Verdict

\* A verdict that lowers nothing.
LEMMA PlainVerdict ==
    ASSUME NEW kind, NEW o \in {"VERIFIED", "REGRESSED", "INCONCLUSIVE"}
    PROVE  VerdictOK(kind, Verdict(o, 4).outcome, Verdict(o, 4).residual)
  BY DEF Verdict, VerdictOK, Outcomes

LEMMA ApiJudges ==
    ASSUME NEW c \in CheckType, world \in World, NEW h, h # "worker"
    PROVE  Sound(h, c.kind, VerifyEvaluate(c))
  <1> DEFINE v == VerifyEvaluate(c)
  <1>1. c.kind \in Kinds /\ c.baseline = 4 /\ verifiedResidual(c) = 4 /\ world.exposed \in {0, 1}
        /\ By(h) = "api"
    BY VerifiedResidual DEF CheckType, World, By
  <1>2. CASE c.kind = "device_status"
    <2>1. v = EvaluateDeviceStatus(c, world.status)
      BY <1>2 DEF VerifyEvaluate
    <2>2. VerdictOK(c.kind, v.outcome, v.residual)
      <3>1. v = Verdict("INCONCLUSIVE", 4) \/ v = Verdict("VERIFIED", 4) \/ v = Verdict("REGRESSED", 4)
        BY <1>1, <2>1 DEF EvaluateDeviceStatus
      <3> QED
        BY <3>1, PlainVerdict
    <2> QED
      BY <1>1, <1>2, <2>2 DEF Sound, Evidence
  <1>3. CASE c.kind = "vuln"
    <2>1. v = EvaluateVulnCleared(c, world.known, world.present)
      BY <1>3 DEF VerifyEvaluate
    <2>2. VerdictOK(c.kind, v.outcome, v.residual)
      BY <1>1, <2>1, VerdictFields DEF EvaluateVulnCleared, VerdictOK, Outcomes
    <2> QED
      BY <1>1, <1>3, <2>2 DEF Sound, Evidence
  <1>4. CASE c.kind = "graph_containment"
    <2>1. v = EvaluateGraphContainment(c, world.known, 2, world.exposed)
      BY <1>4 DEF VerifyEvaluate, Peers
    <2>2. Min({c.baseline, Max({1, (c.baseline * world.exposed) \div 2})}) \in 0 .. 4
      BY <1>1, GraphResidual
    <2>3. VerdictOK(c.kind, v.outcome, v.residual) /\ (v.outcome = "VERIFIED" => world.exposed = 0)
      BY <1>1, <1>4, <2>1, <2>2, VerdictFields DEF EvaluateGraphContainment, VerdictOK, Outcomes
    <2> QED
      BY <1>1, <1>4, <2>3 DEF Sound, Evidence
  <1>5. CASE c.kind = "detection"
    <2>1. v = DetectionEvaluate(c, world.fresh)
      BY <1>5 DEF VerifyEvaluate
    <2>2. VerdictOK(c.kind, v.outcome, v.residual) /\ (v.outcome = "VERIFIED" => world.fresh # {} /\ "hit" \notin world.fresh)
      BY <1>1, <2>1, VerdictFields DEF DetectionEvaluate, VerdictOK, Outcomes
    <2>3. world.fresh \subseteq {"hit", "quiet"}
      BY DEF World
    <2>4. v.outcome = "VERIFIED" => world.fresh = {"quiet"}
      BY <2>2, <2>3
    <2> QED
      BY <1>1, <1>5, <2>2, <2>4 DEF Sound, Evidence
  <1> QED
    BY <1>1, <1>2, <1>3, <1>4, <1>5 DEF Kinds

LEMMA WorkerJudges ==
    ASSUME NEW c \in CheckType, world \in World, c.kind # "vuln"
    PROVE  Sound("worker", c.kind, WorkerEvaluate(c))
  <1> DEFINE v == WorkerEvaluate(c)
  <1>1. c.baseline = 4 /\ verifiedResidual(c) = 4 /\ By("worker") = "worker"
    BY VerifiedResidual DEF CheckType, By
  <1>2. CASE c.kind = "device_status"
    <2>1. v = EvaluateDeviceStatus(c, world.status)
      BY <1>2 DEF WorkerEvaluate
    <2>2. VerdictOK(c.kind, v.outcome, v.residual)
      <3>1. v = Verdict("INCONCLUSIVE", 4) \/ v = Verdict("VERIFIED", 4) \/ v = Verdict("REGRESSED", 4)
        BY <1>1, <2>1 DEF EvaluateDeviceStatus
      <3> QED
        BY <3>1, PlainVerdict
    <2> QED
      BY <1>1, <1>2, <2>2 DEF Sound, Evidence
  <1>3. CASE c.kind # "device_status"
    <2>1. v = DetectionEvaluate(c, world.fresh)
      BY <1>3 DEF WorkerEvaluate
    <2>2. VerdictOK(c.kind, v.outcome, v.residual) /\ (v.outcome = "VERIFIED" => world.fresh # {} /\ "hit" \notin world.fresh)
      BY <1>1, <2>1, VerdictFields DEF DetectionEvaluate, VerdictOK, Outcomes
    <2>3. world.fresh \subseteq {"hit", "quiet"}
      BY DEF World
    <2>4. v.outcome = "VERIFIED" => world.fresh = {"quiet"}
      BY <2>2, <2>3
    <2> QED
      BY <1>1, <1>3, <2>2, <2>4 DEF Sound, Evidence
  <1> QED
    BY <1>2, <1>3

\* What happens to the store of checks.
LEMMA OpenCheckKeeps ==
    ASSUME NEW s, NEW kind \in Kinds, NEW P, ChecksOK(s, kind, P), NEW t, NEW id
    PROVE  ChecksOK(OpenCheck(s, t, id, NewCheck(kind)).store, kind, P)
  <1> DEFINE n == NewCheck(kind)
             c == [n EXCEPT !.outcome = "PENDING", !.baseline = IF @ = 0 THEN n.score ELSE @]
             k == <<t, id>>
             r == OpenCheck(s, t, id, NewCheck(kind)).store
  <1>1. c \in CheckType /\ c.kind = kind /\ c.outcome = "PENDING"
    <2>1. n \in [kind : Kinds, outcome : Outcomes, baseline : {0}, score : {4}, gone : {5}, residual : 0..4, due : BOOLEAN] /\ n.kind = kind
      BY DEF NewCheck, Outcomes
    <2> HIDE DEF n
    <2>2. (IF n.baseline = 0 THEN n.score ELSE n.baseline) = 4
      BY <2>1
    <2>3. c = [n EXCEPT !.outcome = "PENDING", !.baseline = 4]
      BY <2>2
    <2> QED
      BY <2>1, <2>3 DEF CheckType, Outcomes
  <1>2. r = s \/ r = With(s, k, c)
    BY DEF OpenCheck, Failed
  <1> HIDE DEF c
  <1>3. CheckOK(k, c, kind, P)
    BY <1>1 DEF CheckOK
  <1>4. ChecksOK(With(s, k, c), kind, P)
    BY <1>3 DEF ChecksOK, With
  <1> QED
    BY <1>2, <1>4

LEMMA ResolveKeeps ==
    ASSUME NEW s, NEW kind, NEW P, ChecksOK(s, kind, P), NEW k, NEW o, NEW res, VerdictOK(kind, o, res),
           o = "VERIFIED" => \E p \in P : p.key = k
    PROVE  ChecksOK(ResolveCheck(s, k, o, res).store, kind, P)
  <1>1. CASE k \notin DOMAIN s
    BY <1>1 DEF ResolveCheck, Failed
  <1>2. CASE k \in DOMAIN s
    <2> DEFINE d == [s[k] EXCEPT !.outcome = o, !.residual = res]
    <2>1. ResolveCheck(s, k, o, res).store = [s EXCEPT ![k] = d]
      BY <1>2 DEF ResolveCheck
    <2>2. CheckOK(k, s[k], kind, P)
      BY <1>2 DEF ChecksOK
    <2>3. d \in CheckType /\ d.kind = kind /\ d.outcome = o /\ d.residual = res
      BY <2>2 DEF CheckOK, CheckType, VerdictOK
    <2> HIDE DEF d
    <2>4. CheckOK(k, d, kind, P)
      BY <2>3 DEF CheckOK
    <2>5. s = [x \in DOMAIN s |-> s[x]]
      BY DEF ChecksOK
    <2>6. [s EXCEPT ![k] = d] = [x \in DOMAIN s |-> IF x = k THEN d ELSE s[x]]
      BY <2>5
    <2>7. ChecksOK([x \in DOMAIN s |-> IF x = k THEN d ELSE s[x]], kind, P)
      BY <2>4 DEF ChecksOK
    <2> QED
      BY <2>1, <2>6, <2>7
  <1> QED
    BY <1>1, <1>2

LEMMA DbResolveKeeps ==
    ASSUME NEW s, NEW kind, NEW P, ChecksOK(s, kind, P), NEW k, NEW o, NEW res, VerdictOK(kind, o, res),
           o = "VERIFIED" => \E p \in P : p.key = k
    PROVE  ChecksOK(dbResolve(s, k, o, res).store, kind, P)
  <1> DEFINE row == [x \in DOMAIN s \cap {k} |-> s[x]]
             q == ResolveCheck(row, k, o, res).store
  <1>1. ChecksOK(row, kind, P)
    BY DEF ChecksOK
  <1> HIDE DEF row
  <1>2. ChecksOK(q, kind, P)
    BY <1>1, ResolveKeeps
  <1>3. dbResolve(s, k, o, res).store = Saved(q, s)
    BY DEF dbResolve, row
  <1> HIDE DEF q
  <1>4. ChecksOK(Saved(q, s), kind, P)
    BY <1>2 DEF ChecksOK, Saved
  <1> QED
    BY <1>3, <1>4

LEMMA MoreProofs ==
    ASSUME NEW s, NEW kind, NEW P, NEW Q, P \subseteq Q, ChecksOK(s, kind, P)
    PROVE  ChecksOK(s, kind, Q)
  <1>1. \A k \in DOMAIN s : CheckOK(k, s[k], kind, P) => CheckOK(k, s[k], kind, Q)
    BY DEF CheckOK
  <1> QED
    BY <1>1 DEF ChecksOK
-----------------------------------------------------------------------------
(* Handlers and the worker *)

LEMMA JobsStay ==
    ASSUME NEW js, NEW f, NEW s, NEW r, NEW P, NEW Q, JobsOK(js, f, s, P), StoreStep(s, r), P \subseteq Q
    PROVE  JobsOK(js, f, r, Q)
  <1>1. ASSUME NEW t, NEW a, NEW b, a \subseteq b, Proved(P, t, a) PROVE Proved(Q, t, b)
    BY <1>1 DEF Proved
  <1>2. ASSUME NEW j, GateOK(j, f.requireVerify, s, P) PROVE GateOK(j, f.requireVerify, r, Q)
    <2> DEFINE k == <<j.tenant, j.id>>
    <2>1. SUFFICES ASSUME f.requireVerify, j.to = "CLOSED", j.saw = {"CONTAINED"}
                   PROVE  k \in DOMAIN r /\ Proved(Q, j.tenant, r[k].verification)
      BY DEF GateOK
    <2>2. k \in DOMAIN s /\ Proved(P, j.tenant, s[k].verification)
      BY <1>2, <2>1 DEF GateOK
    <2>3. k \in DOMAIN r /\ s[k].verification \subseteq r[k].verification
      BY <2>2 DEF StoreStep, Lengthened
    <2> QED
      BY <1>1, <2>2, <2>3
  <1>3. \A h \in Jobs : JobOK(h, js[h], f, s, P) => JobOK(h, js[h], f, r, Q)
    BY <1>2 DEF JobOK
  <1> QED
    BY <1>3 DEF JobsOK

LEMMA JobsTurn ==
    ASSUME NEW js, NEW f, NEW s, NEW P, JobsOK(js, f, s, P), NEW h \in Jobs, NEW j, JobOK(h, j, f, s, P)
    PROVE  JobsOK([js EXCEPT ![h] = j], f, s, P)
  <1>1. js = [x \in Jobs |-> js[x]]
    BY DEF JobsOK
  <1>2. [js EXCEPT ![h] = j] = [x \in Jobs |-> IF x = h THEN j ELSE js[x]]
    BY <1>1
  <1>3. JobsOK([x \in Jobs |-> IF x = h THEN j ELSE js[x]], f, s, P)
    BY DEF JobsOK
  <1> QED
    BY <1>2, <1>3

LEMMA NothingToDo ==
    ASSUME NEW h, NEW f, NEW s, NEW P
    PROVE  JobOK(h, Waiting, f, s, P) /\ \A k : JobOK(h, [pc |-> "attach", key |-> k], f, s, P)
  BY DEF JobOK, Waiting

\* What a step has to show.
Kept == CaseInv' /\ StoreStep(cases, cases')
ClosedOK(cs, required) == required => \A c \in cs : (c.from = "CONTAINED" /\ c.saw = {"CONTAINED"}) => c.proved

LEMMA StepKeeps ==
    ASSUME CaseInv, cfg' = cfg, world' \in World, StoreStep(cases, cases'), ChecksOK(checks', cfg.kind, proofs'),
           JobsOK(jobs', cfg, cases', proofs'), ProofsOK(proofs'), ClosedOK(closings', cfg.requireVerify)
    PROVE  Kept
  <1>1. cfg' \in Settings /\ StoreOK(cases')
    BY DEF CaseInv, StoreStep
  <1>2. ChecksOK(checks, cfg.kind, proofs)' /\ JobsOK(jobs, cfg, cases, proofs)' /\ ProofsOK(proofs)'
    BY DEF ChecksOK, JobsOK, ProofsOK
  <1>3. ClosedWithProof'
    BY DEF ClosedWithProof, ClosedOK
  <1>4. StoreOK(cases)' /\ (cfg \in Settings)' /\ (world \in World)'
    BY <1>1 DEF StoreOK
  <1> QED
    BY <1>2, <1>3, <1>4 DEF Kept, CaseInv

\* A step that touches nothing but the cases.
LEMMA CasesStep ==
    ASSUME CaseInv, StoreStep(cases, cases'), UNCHANGED <<cfg, checks, world, jobs, moves, closings, proofs>>
    PROVE  Kept
  <1>1. JobsOK(jobs, cfg, cases', proofs)
    <2>1. JobsOK(jobs, cfg, cases, proofs)
      BY DEF CaseInv
    <2> QED
      BY <2>1, JobsStay
  <1>2. world' \in World /\ ChecksOK(checks', cfg.kind, proofs') /\ JobsOK(jobs', cfg, cases', proofs') /\ ProofsOK(proofs')
    BY <1>1 DEF CaseInv
  <1>3. ClosedOK(closings', cfg.requireVerify)
    BY DEF CaseInv, ClosedWithProof, ClosedOK
  <1> QED
    BY <1>2, <1>3, StepKeeps

LEMMA OpenIncidentKeeps == ASSUME CaseInv, OpenIncident PROVE Kept
  <1>1. PICK lookup \in {"error", "", "acme"} :
          /\ caseTenant(lookup) # "" /\ cases' = DoCreate(caseTenant(lookup), "case-i1", NewCase(requests)).store
          /\ UNCHANGED <<cfg, checks, world, jobs, moves, closings, proofs>>
    BY DEF OpenIncident
  <1>2. caseTenant(lookup) \in CaseTenants /\ "case-i1" \in CaseIds /\ StoreOK(cases)
    BY <1>1 DEF caseTenant, CaseTenants, CaseIds, CaseInv
  <1>3. StoreStep(cases, cases')
    BY <1>1, <1>2, DoCreateKeeps
  <1> QED
    BY <1>1, <1>3, CasesStep

LEMMA CaseCreateKeeps == ASSUME CaseInv, handleCaseCreate PROVE Kept
  <1>1. PICK caller \in Callers :
          /\ cases' = DoCreate(IF caller = "" THEN cfg.deploy ELSE caller, "m1", NewCase(requests)).store
          /\ UNCHANGED <<cfg, checks, world, jobs, moves, closings, proofs>>
    BY DEF handleCaseCreate
  <1> DEFINE t == IF caller = "" THEN cfg.deploy ELSE caller
  <1>2. t \in CaseTenants
    BY DEF CaseInv, Settings, Callers, CaseTenants
  <1>3. "m1" \in CaseIds /\ StoreOK(cases)
    BY DEF CaseIds, CaseInv
  <1>4. StoreStep(cases, DoCreate(t, "m1", NewCase(requests)).store)
    BY <1>2, <1>3, DoCreateKeeps
  <1> QED
    BY <1>1, <1>4, CasesStep

LEMMA CaseAttachKeeps == ASSUME CaseInv, handleCaseAttach PROVE Kept
  <1>1. PICK caller \in Callers, id \in CaseIds, ref \in {k[2] : k \in DOMAIN checks} :
          \E t \in caseOpTenant(caller, id) :
            /\ cases' = DoAttach(t, id, "verification", ref).store
            /\ UNCHANGED <<cfg, checks, world, jobs, moves, closings, proofs>>
    BY DEF handleCaseAttach
  <1>2. PICK t \in caseOpTenant(caller, id) :
            /\ cases' = DoAttach(t, id, "verification", ref).store
            /\ UNCHANGED <<cfg, checks, world, jobs, moves, closings, proofs>>
    BY <1>1
  <1>3. StoreOK(cases)
    BY DEF CaseInv
  <1>4. StoreStep(cases, cases')
    BY <1>2, <1>3, DoAttachKeeps
  <1> QED
    BY <1>2, <1>4, CasesStep
\* A step that touches nothing but the jobs.
LEMMA JobsStep ==
    ASSUME CaseInv, JobsOK(jobs', cfg, cases, proofs), UNCHANGED <<cfg, cases, checks, world, moves, closings, proofs>>
    PROVE  Kept
  <1>1. StoreStep(cases, cases')
    BY StoreStays DEF CaseInv
  <1>2. world' \in World /\ ChecksOK(checks', cfg.kind, proofs') /\ JobsOK(jobs', cfg, cases', proofs') /\ ProofsOK(proofs')
    BY DEF CaseInv
  <1>3. ClosedOK(closings', cfg.requireVerify)
    BY DEF CaseInv, ClosedWithProof, ClosedOK
  <1> QED
    BY <1>1, <1>2, <1>3, StepKeeps

\* The gate lets a contained case through only if an attached check was verified, and what was
\* verified has a proof.
LEMMA CaseTransitionKeeps == ASSUME CaseInv, NEW h \in CaseHandlers, handleCaseTransition(h) PROVE Kept
  <1>1. PICK caller \in Callers, id \in CaseIds, to \in DOMAIN allowedTransitions : \E t \in caseOpTenant(caller, id) :
          /\ LET gated == cfg.requireVerify /\ to = "CLOSED" IN
             jobs' = IF gated /\ (Get(cases, t, id) = {} \/ (\E c \in Get(cases, t, id) : c.status = "CONTAINED" /\ ~hasVerifiedCheck(t, c.verification))) THEN jobs
                     ELSE [jobs EXCEPT ![h] = [pc |-> "transition", tenant |-> t, id |-> id, to |-> to, saw |-> {c.status : c \in Get(cases, t, id)}]]
          /\ UNCHANGED <<cfg, cases, checks, world, moves, closings, proofs>>
    BY DEF handleCaseTransition
  <1>2. PICK t \in caseOpTenant(caller, id) :
          /\ jobs' = IF cfg.requireVerify /\ to = "CLOSED" /\ (Get(cases, t, id) = {} \/ (\E c \in Get(cases, t, id) : c.status = "CONTAINED" /\ ~hasVerifiedCheck(t, c.verification))) THEN jobs
                     ELSE [jobs EXCEPT ![h] = [pc |-> "transition", tenant |-> t, id |-> id, to |-> to, saw |-> {c.status : c \in Get(cases, t, id)}]]
          /\ UNCHANGED <<cfg, cases, checks, world, moves, closings, proofs>>
    BY <1>1
  <1> DEFINE k == <<t, id>>
             saw == {c.status : c \in Get(cases, t, id)}
             j == [pc |-> "transition", tenant |-> t, id |-> id, to |-> to, saw |-> saw]
             refused == cfg.requireVerify /\ to = "CLOSED" /\ (Get(cases, t, id) = {} \/ (\E c \in Get(cases, t, id) : c.status = "CONTAINED" /\ ~hasVerifiedCheck(t, c.verification)))
  <1>3. JobsOK(jobs, cfg, cases, proofs) /\ ChecksOK(checks, cfg.kind, proofs) /\ h \in Jobs
    BY DEF CaseInv, Jobs
  <1>4. CASE refused
    BY <1>2, <1>3, <1>4, JobsStep
  <1>5. CASE ~refused
    <2>1. ASSUME cfg.requireVerify, to = "CLOSED", saw = {"CONTAINED"}
          PROVE  k \in DOMAIN cases /\ Proved(proofs, t, cases[k].verification)
      <3>1. k \in DOMAIN cases /\ Get(cases, t, id) = {cases[k]}
        BY <1>5, <2>1 DEF Get
      <3>2. cases[k].status = "CONTAINED"
        BY <2>1, <3>1
      <3>3. hasVerifiedCheck(t, cases[k].verification)
        BY <1>5, <2>1, <3>1, <3>2
      <3>4. PICK r \in cases[k].verification : <<t, r>> \in DOMAIN checks /\ checks[<<t, r>>].outcome = "VERIFIED"
        BY <3>3 DEF hasVerifiedCheck
      <3>5. CheckOK(<<t, r>>, checks[<<t, r>>], cfg.kind, proofs)
        BY <1>3, <3>4 DEF ChecksOK
      <3>6. PICK p \in proofs : p.key = <<t, r>>
        BY <3>4, <3>5 DEF CheckOK
      <3>7. p.key[1] = t /\ p.key[2] = r
        BY <3>6
      <3> QED
        BY <3>1, <3>4, <3>7 DEF Proved
    <2>2. j.pc = "transition" /\ j.tenant = t /\ j.id = id /\ j.to = to /\ j.saw = saw
      OBVIOUS
    <2>3. jobs' = [jobs EXCEPT ![h] = j]
      BY <1>2, <1>5
    <2> HIDE DEF j, saw, k
    <2>4. GateOK(j, cfg.requireVerify, cases, proofs)
      BY <2>1, <2>2 DEF GateOK, k
    <2>5. JobOK(h, j, cfg, cases, proofs)
      BY <2>2, <2>4 DEF JobOK
    <2>6. JobsOK(jobs', cfg, cases, proofs)
      BY <1>3, <2>3, <2>5, JobsTurn
    <2> QED
      BY <1>2, <2>6, JobsStep
  <1> QED
    BY <1>4, <1>5

\* A handler writes what it was let through for, though the case may have moved meanwhile.
LEMMA FinishTransitionKeeps == ASSUME CaseInv, NEW h \in CaseHandlers, finishTransition(h) PROVE Kept
  <1> DEFINE j == jobs[h]
             k == <<j.tenant, j.id>>
             q == DoTransition(j.tenant, j.id, j.to)
             new == [case |-> k, from |-> cases[k].status, saw |-> j.saw, proved |-> \E p \in proofs : p.key[1] = k[1] /\ p.key[2] \in cases[k].verification]
  <1>1. /\ j.pc = "transition" /\ cases' = q.store /\ jobs' = [jobs EXCEPT ![h] = Waiting]
        /\ closings' = IF q.ok /\ j.to = "CLOSED" THEN closings \cup {new} ELSE closings
        /\ UNCHANGED <<cfg, checks, world, requests, moves, proofs>>
    BY DEF finishTransition, Only
  <1>2. /\ StoreOK(cases) /\ JobsOK(jobs, cfg, cases, proofs) /\ h \in Jobs /\ world \in World
        /\ ChecksOK(checks, cfg.kind, proofs) /\ ProofsOK(proofs)
    BY DEF CaseInv, Jobs
  <1>3. StoreStep(cases, cases')
    BY <1>1, <1>2, DoTransitionKeeps
  <1>4. JobsOK(jobs', cfg, cases', proofs')
    <2>1. JobsOK(jobs, cfg, cases', proofs)
      BY <1>2, <1>3, JobsStay
    <2>2. JobOK(h, Waiting, cfg, cases', proofs)
      BY NothingToDo
    <2>3. JobsOK([jobs EXCEPT ![h] = Waiting], cfg, cases', proofs)
      BY <1>2, <2>1, <2>2, JobsTurn
    <2> QED
      BY <1>1, <2>3
  <1>5. ClosedOK(closings', cfg.requireVerify)
    <2>1. ClosedOK(closings, cfg.requireVerify)
      BY DEF CaseInv, ClosedWithProof, ClosedOK
    <2>2. GateOK(j, cfg.requireVerify, cases, proofs)
      BY <1>1, <1>2 DEF JobsOK, JobOK
    <2>3. k[1] = j.tenant /\ new.saw = j.saw /\ new.proved = \E p \in proofs : p.key[1] = k[1] /\ p.key[2] \in cases[k].verification
      OBVIOUS
    <2>4. cfg.requireVerify /\ j.to = "CLOSED" /\ new.saw = {"CONTAINED"} => new.proved
      BY <2>2, <2>3 DEF GateOK, Proved
    <2> HIDE DEF new, q, j, k
    <2> QED
      BY <1>1, <2>1, <2>4 DEF ClosedOK
  <1> QED
    BY <1>1, <1>2, <1>3, <1>4, <1>5, StepKeeps

LEMMA VerifyOpenKeeps == ASSUME CaseInv, handleVerifyOpen PROVE Kept
  <1>1. PICK t : checks' = OpenCheck(checks, t, NextCheck, NewCheck(cfg.kind)).store
                 /\ UNCHANGED <<cfg, cases, world, jobs, moves, closings, proofs>>
    BY DEF handleVerifyOpen
  <1>2. /\ StoreOK(cases) /\ JobsOK(jobs, cfg, cases, proofs) /\ world \in World
        /\ ChecksOK(checks, cfg.kind, proofs) /\ ProofsOK(proofs) /\ cfg.kind \in Kinds
    BY DEF CaseInv, Settings
  <1>3. ChecksOK(checks', cfg.kind, proofs')
    BY <1>1, <1>2, OpenCheckKeeps
  <1>4. ClosedOK(closings', cfg.requireVerify)
    BY <1>1 DEF CaseInv, ClosedWithProof, ClosedOK
  <1>5. StoreStep(cases, cases')
    BY <1>1, <1>2, StoreStays
  <1> QED
    BY <1>1, <1>2, <1>3, <1>4, <1>5, StepKeeps

\* A verdict on what the world was when it was read.
LEMMA JudgedKeeps ==
    ASSUME CaseInv, NEW h \in Jobs, NEW k \in DOMAIN checks, NEW v, Sound(h, checks[k].kind, v),
           jobs' = [jobs EXCEPT ![h] = Judged(h, k, v)],
           UNCHANGED <<cfg, cases, checks, world, moves, closings, proofs>>
    PROVE  Kept
  <1> DEFINE j == Judged(h, k, v)
  <1>1. JobsOK(jobs, cfg, cases, proofs) /\ CheckOK(k, checks[k], cfg.kind, proofs)
    BY DEF CaseInv, ChecksOK
  <1>2. checks[k].kind = cfg.kind
    BY <1>1 DEF CheckOK
  <1>3. j.pc = "resolve" /\ j.verdict = v /\ j.kind = cfg.kind /\ j.fresh = world.fresh /\ j.exposed = world.exposed
    BY <1>2 DEF Judged
  <1> HIDE DEF j
  <1>4. JudgedOK(h, j, cfg.kind)
    BY <1>2, <1>3 DEF Sound, JudgedOK
  <1>5. JobOK(h, j, cfg, cases, proofs)
    BY <1>3, <1>4 DEF JobOK
  <1>6. JobsOK(jobs', cfg, cases, proofs)
    BY <1>1, <1>5, JobsTurn DEF j
  <1> QED
    BY <1>6, JobsStep

LEMMA VerifyRunKeeps == ASSUME CaseInv, NEW h \in CaseHandlers, handleVerifyRun(h) PROVE Kept
  <1>1. PICK k \in DOMAIN checks :
          /\ h # "worker" /\ jobs' = [jobs EXCEPT ![h] = Judged(h, k, VerifyEvaluate(checks[k]))]
          /\ UNCHANGED <<cfg, cases, checks, world, moves, closings, proofs>>
    BY DEF handleVerifyRun
  <1>2. checks[k] \in CheckType /\ world \in World /\ h \in Jobs
    BY DEF CaseInv, ChecksOK, CheckOK, Jobs
  <1>3. Sound(h, checks[k].kind, VerifyEvaluate(checks[k]))
    BY <1>1, <1>2, ApiJudges
  <1> QED
    BY <1>1, <1>2, <1>3, JudgedKeeps

LEMMA VerifyWorkerKeeps == ASSUME CaseInv, runVerifyWorker PROVE Kept
  <1>1. PICK k \in DOMAIN checks :
          /\ checks[k].kind # "vuln" /\ jobs' = [jobs EXCEPT !["worker"] = Judged("worker", k, WorkerEvaluate(checks[k]))]
          /\ UNCHANGED <<cfg, cases, checks, world, moves, closings, proofs>>
    BY DEF runVerifyWorker
  <1>2. checks[k] \in CheckType /\ world \in World /\ "worker" \in Jobs
    BY DEF CaseInv, ChecksOK, CheckOK, Jobs
  <1>3. Sound("worker", checks[k].kind, WorkerEvaluate(checks[k]))
    BY <1>1, <1>2, WorkerJudges
  <1> QED
    BY <1>1, <1>2, <1>3, JudgedKeeps
\* Whoever resolves writes the verdict of its own evidence, and a proof of it.
LEMMA FinishResolveKeeps == ASSUME CaseInv, NEW h \in Jobs, finishResolve(h) PROVE Kept
  <1> DEFINE j == jobs[h]
             o == j.verdict.outcome
             res == j.verdict.residual
             proved == o = "VERIFIED"
             by == IF h = "worker" THEN h ELSE "api"
             new == [key |-> j.key, kind |-> j.kind, by |-> by, fresh |-> j.fresh, exposed |-> j.exposed]
             next == IF h = "worker" /\ proved THEN [pc |-> "attach", key |-> j.key] ELSE Waiting
  <1>1. /\ j.pc = "resolve"
        /\ checks' = (IF cfg.db THEN dbResolve(checks, j.key, o, res) ELSE ResolveCheck(checks, j.key, o, res)).store
        /\ jobs' = [jobs EXCEPT ![h] = next]
        /\ proofs' = IF proved THEN proofs \cup {new} ELSE proofs
        /\ UNCHANGED <<cfg, cases, world, requests, moves, closings>>
    BY DEF finishResolve, Only
  <1>2. /\ StoreOK(cases) /\ JobsOK(jobs, cfg, cases, proofs) /\ world \in World
        /\ ChecksOK(checks, cfg.kind, proofs) /\ ProofsOK(proofs)
    BY DEF CaseInv
  <1>3. JudgedOK(h, j, cfg.kind)
    BY <1>1, <1>2 DEF JobsOK, JobOK
  <1>4. VerdictOK(cfg.kind, o, res) /\ j.kind = cfg.kind /\ (proved => Evidence(cfg.kind, By(h), j.fresh, j.exposed))
    BY <1>3 DEF JudgedOK
  <1>5. by = By(h)
    BY DEF By
  <1>6. new.key = j.key /\ new.kind = j.kind /\ new.by = by /\ new.fresh = j.fresh /\ new.exposed = j.exposed
    OBVIOUS
  <1>7. JobOK(h, next, cfg, cases, proofs')
    BY NothingToDo
  <1>8. checks' = dbResolve(checks, j.key, o, res).store \/ checks' = ResolveCheck(checks, j.key, o, res).store
    BY <1>1
  <1> HIDE DEF o, res, by, new, next, proved
  <1>9. proofs \subseteq proofs'
    BY <1>1
  <1>10. o = "VERIFIED" => \E p \in proofs' : p.key = j.key
    BY <1>1, <1>6 DEF proved
  <1>11. ChecksOK(checks', cfg.kind, proofs')
    <2>1. ChecksOK(checks, cfg.kind, proofs')
      BY <1>2, <1>9, MoreProofs
    <2> QED
      BY <1>4, <1>8, <1>10, <2>1, ResolveKeeps, DbResolveKeeps
  <1>12. ProofsOK(proofs')
    <2>1. proved => Evidence(new.kind, new.by, new.fresh, new.exposed)
      BY <1>4, <1>5, <1>6
    <2> QED
      BY <1>1, <1>2, <2>1 DEF ProofsOK
  <1>13. StoreStep(cases, cases')
    BY <1>1, <1>2, StoreStays
  <1>14. JobsOK(jobs', cfg, cases', proofs')
    <2>1. JobsOK(jobs, cfg, cases, proofs')
      BY <1>2, <1>9, JobsStay, StoreStays
    <2>2. JobsOK([jobs EXCEPT ![h] = next], cfg, cases, proofs')
      BY <1>7, <2>1, JobsTurn
    <2> QED
      BY <1>1, <2>2
  <1>15. ClosedOK(closings', cfg.requireVerify)
    BY <1>1 DEF CaseInv, ClosedWithProof, ClosedOK
  <1> QED
    BY <1>1, <1>2, <1>11, <1>12, <1>13, <1>14, <1>15, StepKeeps

LEMMA WorkerAttachKeeps == ASSUME CaseInv, workerAttach PROVE Kept
  <1>1. /\ jobs' = [jobs EXCEPT !["worker"] = Waiting] /\ UNCHANGED <<cfg, checks, world, requests, moves, closings, proofs>>
        /\ cases' = cases \/ \E k : cases' = DoAttach(k[1], k[2], "verification", jobs["worker"].key[2]).store
    BY DEF workerAttach
  <1>2. /\ StoreOK(cases) /\ JobsOK(jobs, cfg, cases, proofs) /\ world \in World /\ "worker" \in Jobs
        /\ ChecksOK(checks, cfg.kind, proofs) /\ ProofsOK(proofs)
    BY DEF CaseInv, Jobs
  <1>3. StoreStep(cases, cases')
    BY <1>1, <1>2, DoAttachKeeps, StoreStays
  <1>4. JobsOK(jobs', cfg, cases', proofs')
    <2>1. JobsOK(jobs, cfg, cases', proofs)
      BY <1>2, <1>3, JobsStay
    <2>2. JobOK("worker", Waiting, cfg, cases', proofs)
      BY NothingToDo
    <2>3. JobsOK([jobs EXCEPT !["worker"] = Waiting], cfg, cases', proofs)
      BY <1>2, <2>1, <2>2, JobsTurn
    <2> QED
      BY <1>1, <2>3
  <1>5. ClosedOK(closings', cfg.requireVerify)
    BY <1>1 DEF CaseInv, ClosedWithProof, ClosedOK
  <1> QED
    BY <1>1, <1>2, <1>3, <1>4, <1>5, StepKeeps

LEMMA ChangeKeeps == ASSUME CaseInv, Change PROVE Kept
  <1>1. /\ UNCHANGED <<cfg, cases, jobs, requests, closings, proofs>>
        /\ \/ \E e \in {"hit", "quiet"} : world' = [world EXCEPT !.fresh = @ \cup {e}] /\ UNCHANGED checks
           \/ \E s \in {"QUARANTINED", ""} : world' = [world EXCEPT !.status = s] /\ UNCHANGED checks
           \/ world' = [world EXCEPT !.present = FALSE, !.exposed = 0] /\ UNCHANGED checks
           \/ world' = [world EXCEPT !.known = FALSE] /\ UNCHANGED checks
           \/ checks' = [k \in DOMAIN checks |-> [checks[k] EXCEPT !.due = TRUE]] /\ UNCHANGED world
    BY DEF Change
  <1>2. /\ StoreOK(cases) /\ JobsOK(jobs, cfg, cases, proofs) /\ world \in World
        /\ ChecksOK(checks, cfg.kind, proofs) /\ ProofsOK(proofs)
    BY DEF CaseInv
  <1>3. world' \in World
    <2>1. ASSUME NEW e \in {"hit", "quiet"} PROVE [world EXCEPT !.fresh = @ \cup {e}] \in World
      <3>1. world.fresh \cup {e} \in SUBSET {"hit", "quiet"}
        BY <1>2 DEF World
      <3> QED
        BY <1>2, <3>1 DEF World
    <2>2. \A s \in {"QUARANTINED", ""} : [world EXCEPT !.status = s] \in World
      BY <1>2 DEF World
    <2>3. [world EXCEPT !.present = FALSE, !.exposed = 0] \in World /\ [world EXCEPT !.known = FALSE] \in World
      BY <1>2 DEF World
    <2> QED
      BY <1>1, <1>2, <2>1, <2>2, <2>3
  <1>4. ChecksOK(checks', cfg.kind, proofs)
    <2> DEFINE due == [k \in DOMAIN checks |-> [checks[k] EXCEPT !.due = TRUE]]
    <2>1. \A k \in DOMAIN checks : CheckOK(k, due[k], cfg.kind, proofs)
      <3> TAKE k \in DOMAIN checks
      <3>1. CheckOK(k, checks[k], cfg.kind, proofs) /\ due[k] = [checks[k] EXCEPT !.due = TRUE]
        BY <1>2 DEF ChecksOK
      <3> DEFINE d == [checks[k] EXCEPT !.due = TRUE]
      <3>2. d \in CheckType /\ d.kind = checks[k].kind /\ d.outcome = checks[k].outcome /\ d.residual = checks[k].residual
        BY <3>1 DEF CheckOK, CheckType
      <3> HIDE DEF d
      <3>3. CheckOK(k, d, cfg.kind, proofs)
        BY <3>1, <3>2 DEF CheckOK
      <3> QED
        BY <3>1, <3>3 DEF d
    <2>2. due = [k \in DOMAIN due |-> due[k]] /\ DOMAIN due = DOMAIN checks
      OBVIOUS
    <2> HIDE DEF due
    <2>3. ChecksOK(due, cfg.kind, proofs)
      BY <2>1, <2>2 DEF ChecksOK
    <2> QED
      BY <1>1, <1>2, <2>3 DEF due
  <1>5. StoreStep(cases, cases')
    BY <1>1, <1>2, StoreStays
  <1>6. ClosedOK(closings', cfg.requireVerify)
    BY <1>1 DEF CaseInv, ClosedWithProof, ClosedOK
  <1>7. ChecksOK(checks', cfg.kind, proofs') /\ JobsOK(jobs', cfg, cases', proofs') /\ ProofsOK(proofs') /\ cfg' = cfg
    BY <1>1, <1>2, <1>4
  <1> QED
    BY <1>3, <1>5, <1>6, <1>7, StepKeeps

LEMMA IdleKeeps == ASSUME CaseInv, UNCHANGED caseVars PROVE Kept
  <1>1. JobsOK(jobs', cfg, cases, proofs) /\ UNCHANGED <<cfg, cases, checks, world, moves, closings, proofs>>
    BY DEF CaseInv, caseVars
  <1> QED
    BY <1>1, JobsStep

LEMMA CaseNextKeeps == CaseInv /\ [CaseNext]_caseVars => Kept
  <1> SUFFICES ASSUME CaseInv, [CaseNext]_caseVars PROVE Kept
    OBVIOUS
  <1>1. CASE OpenIncident \/ handleCaseCreate \/ handleCaseAttach
    BY <1>1, OpenIncidentKeeps, CaseCreateKeeps, CaseAttachKeeps
  <1>2. CASE handleVerifyOpen \/ runVerifyWorker \/ workerAttach \/ Change
    BY <1>2, VerifyOpenKeeps, VerifyWorkerKeeps, WorkerAttachKeeps, ChangeKeeps
  <1>3. CASE \E h \in CaseHandlers : handleCaseTransition(h) \/ finishTransition(h) \/ handleVerifyRun(h)
    BY <1>3, CaseTransitionKeeps, FinishTransitionKeeps, VerifyRunKeeps
  <1>4. CASE \E h \in CaseHandlers \cup {"worker"} : finishResolve(h)
    BY <1>4, FinishResolveKeeps DEF Jobs
  <1>5. CASE UNCHANGED caseVars
    BY <1>5, IdleKeeps
  <1> QED
    BY <1>1, <1>2, <1>3, <1>4, <1>5 DEF CaseNext

-----------------------------------------------------------------------------
(* The theorems *)

LEMMA ContainedOK == StoreOK(<<>>) /\ StoreOK(Contained)
  <1>1. StoreOK(<<>>)
    <2>1. DOMAIN <<>> = {} /\ <<>> = [k \in DOMAIN <<>> |-> <<>>[k]]
      OBVIOUS
    <2> QED
      BY <2>1 DEF StoreOK
  <1> DEFINE a == Create(<<>>, "acme", "m1", NewCase(0)).store
             b == Transition(a, "acme", "m1", "INVESTIGATING").store
             c == Transition(b, "acme", "m1", "CONTAINED").store
  <1>2. "acme" \in CaseTenants /\ "m1" \in CaseIds
    BY DEF CaseTenants, CaseIds
  <1>3. StoreOK(a)
    BY <1>1, <1>2, CreateKeeps DEF StoreStep
  <1>4. Contained = c
    BY DEF Contained
  <1> HIDE DEF a
  <1>5. StoreOK(b)
    BY <1>3, TransitionKeeps DEF StoreStep
  <1> HIDE DEF b
  <1>6. StoreOK(c)
    BY <1>5, TransitionKeeps DEF StoreStep
  <1> QED
    BY <1>1, <1>4, <1>6

LEMMA CaseInitInv == CaseInit => CaseInv
  <1> SUFFICES ASSUME CaseInit PROVE CaseInv
    OBVIOUS
  <1>1. cfg \in Settings
    <2>1. PICK k \in Kinds : cfg = [db |-> k \in {"vuln", "graph_containment"}, enforce |-> k = "vuln", requireVerify |-> k # "device_status", deploy |-> "acme", kind |-> k]
      BY DEF CaseInit
    <2> DEFINE d == k \in {"vuln", "graph_containment"}
               e == k = "vuln"
               r == k # "device_status"
    <2>2. d \in BOOLEAN /\ e \in BOOLEAN /\ r \in BOOLEAN
      OBVIOUS
    <2>3. cfg = [db |-> d, enforce |-> e, requireVerify |-> r, deploy |-> "acme", kind |-> k]
      BY <2>1
    <2> HIDE DEF d, e, r
    <2> QED
      BY <2>2, <2>3 DEF Settings
  <1>2. world \in World
    BY DEF CaseInit, World
  <1>3. StoreOK(cases)
    BY ContainedOK DEF CaseInit
  <1>4. ChecksOK(checks, cfg.kind, proofs)
    <2>1. ChecksOK(<<>>, cfg.kind, proofs)
      <3>1. DOMAIN <<>> = {} /\ <<>> = [k \in DOMAIN <<>> |-> <<>>[k]]
        OBVIOUS
      <3> QED
        BY <3>1 DEF ChecksOK
    <2>2. cfg.kind \in Kinds
      BY <1>1 DEF Settings
    <2>3. ChecksOK(OpenCheck(<<>>, "acme", "k1", NewCheck(cfg.kind)).store, cfg.kind, proofs)
      BY <2>1, <2>2, OpenCheckKeeps
    <2> QED
      BY <2>1, <2>3 DEF CaseInit
  <1>5. JobsOK(jobs, cfg, cases, proofs)
    <2>1. jobs = [h \in Jobs |-> Waiting]
      BY DEF CaseInit, Jobs
    <2>2. \A h \in Jobs : JobOK(h, Waiting, cfg, cases, proofs)
      BY NothingToDo
    <2> QED
      BY <2>1, <2>2 DEF JobsOK
  <1>6. ProofsOK(proofs) /\ ClosedWithProof
    BY DEF CaseInit, ProofsOK, ClosedWithProof
  <1> QED
    BY <1>1, <1>2, <1>3, <1>4, <1>5, <1>6 DEF CaseInv

LEMMA CaseInvariantHolds == CaseSpec => []CaseInv
  <1>1. CaseInv /\ [CaseNext]_caseVars => CaseInv'
    BY CaseNextKeeps DEF Kept
  <1> QED
    BY CaseInitInv, <1>1, PTL DEF CaseSpec

LEMMA CaseInvBounds == CaseInv => ResidualBounded
  <1> SUFFICES ASSUME CaseInv, NEW k \in DOMAIN checks, checks[k].outcome # "PENDING"
               PROVE  /\ checks[k].residual \in 0 .. checks[k].baseline
                      /\ RiskReduced(checks[k]) > 0 => checks[k].outcome = "VERIFIED" \/ checks[k].kind = "graph_containment"
    BY DEF ResidualBounded
  <1> DEFINE c == checks[k]
  <1>1. c \in CheckType /\ c.kind = cfg.kind /\ VerdictOK(cfg.kind, c.outcome, c.residual)
    BY DEF CaseInv, ChecksOK, CheckOK
  <1>2. c.baseline = 4
    BY <1>1 DEF CheckType
  <1>3. c.residual \in 0 .. 4 /\ (c.residual < 4 => c.outcome = "VERIFIED" \/ c.kind = "graph_containment")
    BY <1>1 DEF VerdictOK
  <1>4. RiskReduced(c) > 0 => c.residual < 4
    <2> DEFINE rest == 4 - c.residual
    <2>1. rest \in Int /\ 0 \in Int
      BY <1>3
    <2>2. RiskReduced(c) = Max({0, rest})
      BY <1>2 DEF RiskReduced
    <2> HIDE DEF rest
    <2>3. Max({0, rest}) \in {0, rest}
      BY <2>1, MinMaxOfTwo
    <2> QED
      BY <1>3, <2>2, <2>3 DEF rest
  <1> QED
    BY <1>2, <1>3, <1>4

\* A contained case is closed on proof, a proof rests on evidence, what is left of a risk is bounded
\* and the time line tells the status, for any number of concurrent requests, requests altogether and
\* changes of the world, on the in-memory stores and on the database.
THEOREM CasesAreProved == CaseSpec => []CaseInvariant
  <1>1. CaseInv => ProofHasEvidence
    BY DEF CaseInv, ProofsOK, Evidence, ProofHasEvidence
  <1>2. CaseInv => TimelineTellsStatus
    BY DEF CaseInv, StoreOK, CaseOK, TimelineTellsStatus
  <1>3. CaseInv => ClosedWithProof
    BY DEF CaseInv
  <1>4. CaseInv => CaseInvariant
    BY <1>1, <1>2, <1>3, CaseInvBounds DEF CaseInvariant
  <1> QED
    BY <1>4, CaseInvariantHolds, PTL

\* A step changes one case at most, so never cases of two tenants, loses none and shortens no time line.
THEOREM CasesStayInTenant == CaseSpec => CaseStaysInTenant
  <1> DEFINE Within == \A k \in DOMAIN cases : /\ k \in DOMAIN cases' /\ IsPrefix(cases[k].timeline, cases'[k].timeline)
                                               /\ \A j \in DOMAIN cases : (cases[k] # cases'[k] /\ cases[j] # cases'[j]) => j[1] = k[1]
  <1>1. Kept => Within
    BY DEF Kept, StoreStep, Lengthened
  <1>2. CaseInv /\ [CaseNext]_caseVars => [Within]_caseVars
    BY <1>1, CaseNextKeeps
  <1> HIDE DEF Within
  <1>3. CaseSpec => [][Within]_caseVars
    BY <1>2, CaseInvariantHolds, PTL DEF CaseSpec
  <1> QED
    BY <1>3 DEF Within, CaseStaysInTenant
=============================================================================
