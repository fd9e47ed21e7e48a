----------------------------- MODULE AdminProofs -----------------------------
(* Proofs about AdminPlane: for any number of requests at a time, requests and  *)
(* failing store calls, every queued command was allowed and a bulk request     *)
(* asks for the role again at every device.                                     *)
EXTENDS AdminPlane, FiniteSetTheorems, SequenceTheorems, TLAPS

-----------------------------------------------------------------------------
(* Induction over the numbers, without an operator parameter *)

\* A set of numbers has a least one.
LEMMA Least ==
    ASSUME NEW S, S \subseteq Nat, S # {}
    PROVE  \E n \in S : \A m \in S : n <= m
  <1>1. IsWellFoundedOn(OpToRel(<, Nat), Nat)
    BY NatLessThanWellFounded
  <1>2. PICK n \in S : \A m \in S : ~ (<<m, n>> \in OpToRel(<, Nat))
    BY <1>1, WFMin
  <1>3. \A m \in S : ~ (<<m, n>> \in {ss \in Nat \X Nat : ss[1] < ss[2]})
    BY <1>2 DEF OpToRel
  <1>4. ASSUME NEW m \in S PROVE n <= m
    <2>1. n \in Nat /\ m \in Nat
      OBVIOUS
    <2>2. ~ (<<m, n>>[1] < <<m, n>>[2])
      BY <1>3, <2>1
    <2> QED
      BY <2>1, <2>2
  <1> QED
    BY <1>4

\* What holds of 0 and passes from each number to the next holds up to N.
LEMMA UpTo ==
    ASSUME NEW N \in Nat, NEW G, 0 \in G, \A n \in 1 .. N : n - 1 \in G => n \in G
    PROVE  \A n \in 0 .. N : n \in G
  <1> DEFINE Bad == {n \in 0 .. N : n \notin G}
  <1> SUFFICES ASSUME Bad # {} PROVE FALSE
    OBVIOUS
  <1>1. PICK n \in Bad : \A m \in Bad : n <= m
    <2>1. Bad \subseteq Nat
      OBVIOUS
    <2> QED
      BY <2>1, Least
  <1>2. n \in 1 .. N /\ n \notin G
    BY <1>1
  <1>3. n - 1 \in 0 .. N /\ ~ (n <= n - 1)
    BY <1>2
  <1>4. n - 1 \notin Bad
    BY <1>1, <1>3
  <1> QED
    BY <1>2, <1>3, <1>4

\* f begins with c and h makes each value from the one before it.
Unfolds(f, T, c, n, h) == f \in [0 .. n -> T] /\ f[0] = c /\ \A i \in 1 .. n : f[i] = h[<<f[i - 1], i>>]

\* Such a function exists.
LEMMA RecursionExists ==
    ASSUME NEW T, NEW c \in T, NEW N \in Nat, NEW h \in [T \X (1 .. N) -> T]
    PROVE  \E f : Unfolds(f, T, c, N, h)
  <1> DEFINE Follows(f, n) == Unfolds(f, T, c, n, h)
             G == {n \in 0 .. N : \E f : Follows(f, n)}
  <1> USE DEF Unfolds
  <1>1. 0 \in G
    <2> DEFINE f == [i \in 0 .. 0 |-> c]
    <2>1. Follows(f, 0)
      OBVIOUS
    <2>2. 0 \in 0 .. N
      OBVIOUS
    <2> HIDE DEF f, Follows
    <2> QED
      BY <2>1, <2>2
  <1>2. ASSUME NEW n \in 1 .. N, n - 1 \in G PROVE n \in G
    <2>1. PICK f : Follows(f, n - 1)
      BY <1>2
    <2> DEFINE g == [i \in 0 .. n |-> IF i = n THEN h[<<f[n - 1], n>>] ELSE f[i]]
    <2>2. n \in Nat /\ n - 1 \in Nat /\ n - 1 \in 0 .. (n - 1)
      OBVIOUS
    <2>3. g \in [0 .. n -> T]
      <3>0. <<f[n - 1], n>> \in T \X (1 .. N)
        BY <2>1, <2>2
      <3> SUFFICES ASSUME NEW i \in 0 .. n PROVE g[i] \in T
        OBVIOUS
      <3>1. CASE i = n
        BY <3>0, <3>1
      <3>2. CASE i # n
        <4>1. i \in 0 .. (n - 1)
          BY <3>2
        <4> QED
          BY <2>1, <3>2, <4>1
      <3> HIDE DEF g
      <3> QED
        BY <3>1, <3>2
    <2>4. g[0] = c
      BY <2>1, <2>2
    <2>5. ASSUME NEW i \in 1 .. n PROVE g[i] = h[<<g[i - 1], i>>]
      <3>1. g[i - 1] = f[i - 1]
        OBVIOUS
      <3>2. CASE i = n
        <4>1. g[n] = h[<<f[n - 1], n>>]
          OBVIOUS
        <4> HIDE DEF g
        <4> QED
          BY <3>1, <3>2, <4>1
      <3>3. CASE i # n
        <4>1. i \in 1 .. (n - 1)
          BY <3>3
        <4>2. f[i] = h[<<f[i - 1], i>>]
          BY <2>1, <4>1
        <4>3. g[i] = f[i]
          BY <3>3
        <4> QED
          BY <3>1, <4>2, <4>3
      <3> QED
        BY <3>2, <3>3
    <2>6. Follows(g, n)
      BY <2>3, <2>4, <2>5
    <2>7. n \in 0 .. N
      OBVIOUS
    <2> QED
      BY <2>6, <2>7
  <1>3. N \in G
    <2> HIDE DEF G
    <2>1. \A n \in 0 .. N : n \in G
      BY <1>1, <1>2, UpTo
    <2> QED
      BY <2>1
  <1> QED
    BY <1>3

-----------------------------------------------------------------------------
(* What a deletion leaves *)

\* k collects the rows of q that are in K, one after the other.
Collects(k, S, q, K) ==
  /\ k[0] = <<>> /\ \A i \in 0 .. Len(q) : k[i] \in Seq(S)
  /\ \A i \in 1 .. Len(q) : k[i] = IF q[i] \in K THEN Append(k[i - 1], q[i]) ELSE k[i - 1]

\* That is how Keep computes its result.
LEMMA KeepCollects ==
    ASSUME NEW S, NEW q \in Seq(S), NEW K
    PROVE  \E k : Collects(k, S, q, K) /\ Db!Keep(q, K) = k[Len(q)]
  <1> DEFINE n == Len(q)
             next(x, i) == IF q[i] \in K THEN Append(x, q[i]) ELSE x
             Kept(f) == [i \in 0 .. n |-> IF i = 0 THEN <<>> ELSE IF q[i] \in K THEN Append(f[i - 1], q[i]) ELSE f[i - 1]]
             St == [y \in Seq(S) \X (1 .. n) |-> next(y[1], y[2])]
             k == CHOOSE f : f = Kept(f)
  <1>1. n \in Nat /\ \A i \in 1 .. n : q[i] \in S
    OBVIOUS
  <1>2. \A x \in Seq(S), i \in 1 .. n : next(x, i) \in Seq(S)
    BY <1>1, AppendProperties
  <1>3. \A x \in Seq(S), i \in 1 .. n : St[<<x, i>>] = next(x, i)
    OBVIOUS
  <1>4. <<>> \in Seq(S)
    OBVIOUS
  <1>5. PICK f \in [0 .. n -> Seq(S)] : f[0] = <<>> /\ \A i \in 1 .. n : f[i] = St[<<f[i - 1], i>>]
    <2>1. St \in [Seq(S) \X (1 .. n) -> Seq(S)]
      BY <1>2
    <2> DEFINE T == Seq(S)
               none == <<>>
    <2>2. none \in T /\ St \in [T \X (1 .. n) -> T]
      BY <1>4, <2>1
    <2> HIDE DEF T, none, St, n
    <2>3. PICK g : Unfolds(g, T, none, n, St)
      BY <1>1, <2>2, RecursionExists
    <2> QED
      BY <2>3 DEF T, none, Unfolds
  <1>6. \A i \in 1 .. n : f[i - 1] \in Seq(S) /\ f[i] = next(f[i - 1], i)
    <2> SUFFICES ASSUME NEW i \in 1 .. n PROVE f[i - 1] \in Seq(S) /\ f[i] = next(f[i - 1], i)
      OBVIOUS
    <2>1. i - 1 \in 0 .. n
      BY <1>1
    <2>2. f[i - 1] \in Seq(S)
      BY <2>1
    <2>3. f[i] = St[<<f[i - 1], i>>]
      BY <1>5
    <2> HIDE DEF St, next
    <2> QED
      BY <1>3, <2>2, <2>3
  <1>7. f = Kept(f)
    <2>1. ASSUME NEW i \in 0 .. n PROVE f[i] = Kept(f)[i]
      <3>1. CASE i = 0
        BY <1>5, <3>1
      <3>2. CASE i # 0
        <4>1. i \in 1 .. n
          BY <1>1, <3>2
        <4> QED
          BY <1>6, <3>2, <4>1
      <3> QED
        BY <3>1, <3>2
    <2> HIDE DEF n
    <2> QED
      BY <2>1
  <1>8. k = Kept(k)
    <2> HIDE DEF Kept
    <2> QED
      BY <1>7
  <1>9. Db!Keep(q, K) = k[n]
    BY DEF Db!Keep
  <1> HIDE DEF k
  <1>10. k[0] = <<>> /\ \A i \in 1 .. n : k[i] = next(k[i - 1], i)
    <2>1. \A i \in 0 .. n : k[i] = IF i = 0 THEN <<>> ELSE IF q[i] \in K THEN Append(k[i - 1], q[i]) ELSE k[i - 1]
      <3>1. \A i \in 0 .. n : Kept(k)[i] = IF i = 0 THEN <<>> ELSE IF q[i] \in K THEN Append(k[i - 1], q[i]) ELSE k[i - 1]
        OBVIOUS
      <3> HIDE DEF Kept
      <3> QED
        BY <1>8, <3>1
    <2>2. 0 \in 0 .. n
      BY <1>1
    <2>3. \A i \in 1 .. n : i \in 0 .. n /\ i # 0
      BY <1>1
    <2> QED
      BY <2>1, <2>2, <2>3
  <1> DEFINE G == {i \in 0 .. n : k[i] \in Seq(S)}
  <1>11. \A i \in 0 .. n : k[i] \in Seq(S)
    <2>1. 0 \in G
      <3>1. k[0] \in Seq(S)
        <4> HIDE DEF next, n
        <4> QED
          BY <1>4, <1>10
      <3>2. 0 \in 0 .. n
        BY <1>1
      <3> HIDE DEF n
      <3> QED
        BY <3>1, <3>2
    <2>2. \A i \in 1 .. n : i - 1 \in G => i \in G
      <3> SUFFICES ASSUME NEW i \in 1 .. n, i - 1 \in G PROVE i \in G
        OBVIOUS
      <3>1. k[i - 1] \in Seq(S) /\ k[i] = next(k[i - 1], i) /\ i \in 0 .. n
        BY <1>1, <1>10
      <3> HIDE DEF next
      <3> QED
        BY <1>2, <3>1
    <2>3. \A i \in 0 .. n : i \in G
      <3> HIDE DEF G, n
      <3> QED
        BY <1>1, <2>1, <2>2, UpTo
    <2> QED
      BY <2>3
  <1>12. Collects(k, S, q, K)
    BY <1>10, <1>11 DEF Collects
  <1> HIDE DEF n
  <1> QED
    BY <1>9, <1>12 DEF n

\* The rows in K stay, and no other row appears.
LEMMA KeepRows ==
    ASSUME NEW S, NEW q \in Seq(S), NEW K
    PROVE  LET w == Db!Keep(q, K)
           IN  /\ w \in Seq(S)
               /\ \A j \in 1 .. Len(w) : \E i \in 1 .. Len(q) : w[j] = q[i]
               /\ \A i \in 1 .. Len(q) : q[i] \in K => \E j \in 1 .. Len(w) : w[j] = q[i]
  <1> DEFINE n == Len(q)
             Rows(w, m) ==
               /\ w \in Seq(S)
               /\ \A j \in 1 .. Len(w) : \E i \in 1 .. m : w[j] = q[i]
               /\ \A i \in 1 .. m : q[i] \in K => \E j \in 1 .. Len(w) : w[j] = q[i]
  <1>1. n \in Nat /\ \A i \in 1 .. n : q[i] \in S
    OBVIOUS
  <1>2. PICK k : Collects(k, S, q, K) /\ Db!Keep(q, K) = k[n]
    BY KeepCollects
  <1> DEFINE G == {m \in 0 .. n : Rows(k[m], m)}
  <1>11. 0 \in G
    <2>1. Rows(<<>>, 0)
      OBVIOUS
    <2>2. k[0] = <<>> /\ 0 \in 0 .. n
      BY <1>1, <1>2 DEF Collects
    <2> HIDE DEF Rows, n
    <2> QED
      BY <2>1, <2>2
  <1>12. ASSUME NEW m \in 1 .. n, m - 1 \in G PROVE m \in G
    <2> DEFINE v == k[m - 1]
               w == k[m]
    <2>0. m \in 0 .. n /\ q[m] \in S /\ Rows(v, m - 1)
      BY <1>1, <1>12
    <2>a. w = IF q[m] \in K THEN Append(v, q[m]) ELSE v
      BY <1>2 DEF Collects
    <2> HIDE DEF Rows, v, w
    <2>1. Rows(v, m - 1) /\ w = (IF q[m] \in K THEN Append(v, q[m]) ELSE v) /\ m \in 0 .. n /\ q[m] \in S
      BY <2>0, <2>a
    <2> USE DEF Rows
    <2> HIDE DEF v, w
    <2>2. CASE q[m] \notin K
      <3>1. w = v
        BY <2>1, <2>2
      <3>2. Rows(v, m)
        <4>1. \A i \in 1 .. m : q[i] \in K => i \in 1 .. (m - 1)
          BY <2>2
        <4>2. \A i \in 1 .. (m - 1) : i \in 1 .. m
          OBVIOUS
        <4> QED
          BY <2>1, <4>1, <4>2
      <3> QED
        BY <2>1, <3>1, <3>2 DEF w
    <2>3. CASE q[m] \in K
      <3>1. w = Append(v, q[m]) /\ v \in Seq(S)
        BY <2>1, <2>3
      <3>2. /\ w \in Seq(S) /\ Len(w) = Len(v) + 1 /\ w[Len(w)] = q[m] /\ Len(v) \in Nat
            /\ \A j \in 1 .. Len(v) : w[j] = v[j]
        BY <2>1, <3>1, AppendProperties
      <3>3. ASSUME NEW j \in 1 .. Len(w) PROVE \E i \in 1 .. m : w[j] = q[i]
        <4>1. CASE j = Len(w)
          BY <3>2, <4>1
        <4>2. CASE j # Len(w)
          <5>1. j \in 1 .. Len(v)
            BY <3>2, <4>2
          <5>2. PICK i \in 1 .. (m - 1) : v[j] = q[i]
            BY <2>1, <5>1
          <5> QED
            BY <3>2, <5>1, <5>2
        <4> QED
          BY <4>1, <4>2
      <3>4. ASSUME NEW i \in 1 .. m, q[i] \in K PROVE \E j \in 1 .. Len(w) : w[j] = q[i]
        <4>1. CASE i = m
          <5>1. Len(w) \in 1 .. Len(w)
            BY <3>2
          <5> QED
            BY <3>2, <4>1, <5>1
        <4>2. CASE i # m
          <5>1. i \in 1 .. (m - 1)
            BY <4>2
          <5>2. PICK j \in 1 .. Len(v) : v[j] = q[i]
            BY <2>1, <3>4, <5>1
          <5>3. j \in 1 .. Len(w)
            BY <3>2
          <5> QED
            BY <3>2, <5>2, <5>3
        <4> QED
          BY <4>1, <4>2
      <3>5. Rows(w, m)
        BY <3>2, <3>3, <3>4
      <3> QED
        BY <2>1, <3>5 DEF w
    <2> QED
      BY <2>2, <2>3
  <1>13. n \in G
    <2> HIDE DEF G, n
    <2>1. \A m \in 0 .. n : m \in G
      BY <1>1, <1>11, <1>12, UpTo
    <2> QED
      BY <1>1, <2>1
  <1>14. Rows(k[n], n)
    BY <1>13
  <1> QED
    BY <1>2, <1>14

\* The rows that are not about d stay, and no other row appears.
LEMMA WithoutRows ==
    ASSUME NEW S, NEW q \in Seq(S), NEW d
    PROVE  LET w == Db!Without(q, d)
           IN  /\ w \in Seq(S)
               /\ \A j \in 1 .. Len(w) : \E i \in 1 .. Len(q) : w[j] = q[i]
               /\ \A i \in 1 .. Len(q) : q[i].dev # d => \E j \in 1 .. Len(w) : w[j] = q[i]
  <1> DEFINE K == {x \in Db!Range(q) : x.dev # d}
  <1>1. \A i \in 1 .. Len(q) : q[i].dev # d => q[i] \in K
    BY DEF Db!Range
  <1>2. Db!Without(q, d) = Db!Keep(q, K)
    BY DEF Db!Without
  <1> HIDE DEF K
  <1> QED
    BY <1>1, <1>2, KeepRows

-----------------------------------------------------------------------------
(* What a check clears *)

MFAOps == {"BeginMFAEnrollment", "ActivateMFA", "DisableMFA", "Login"}
WipeOps == {"WipeDevice", "ApproveWipe", "CancelWipe"}
OtherOps ==
  {"IssueEnrollmentToken", "RevokeEnrollmentToken", "SetDeviceTags", "QuarantineDevice", "ReleaseDevice", "CollectDiagnostics",
   "LockDevice", "RestartDevice", "CollectFile", "RevokeDevice", "EraseDevice", "AuthorizeExport", "AckEvent", "UpdateEventCase",
   "CreatePolicy", "AssignPolicy", "AddPolicyRule", "CreateAdmin", "SetAdminRole", "DeactivateAdmin"}

\* The store calls of all plans, with what stands for none.
Calls ==
  {"SaveEnrollmentToken", "RevokeEnrollmentToken", "SetDeviceTags", "enqueue", "reflect", "RevokeDeviceCerts", "EraseDeviceData",
   "SavePendingWipe", "ConsumePendingWipe", "DeletePendingWipe", "SetEventAck", "SetEventCase", "CreatePolicy", "AssignPolicy",
   "AddPolicyRule", "BumpPolicyVersion", "CreateAdmin", "SetAdminRole", "DeactivateAdmin", "SetPendingMFASecret", "ActivateMFA",
   "DisableMFA", "ConsumeTOTPStep", "audit", "publish", "publish policy", "session"}

\* What the checks of request q established for a store call it goes on to make; none of it
\* changes while the request runs.
Cleared(q, step) ==
  /\ step = "enqueue" => /\ q.op \in DOMAIN CommandOf
                         /\ specs[CommandOf[q.op]].exempt \/ ~ Barred(q.on, specs[CommandOf[q.op]].scope)
                         /\ q.op = "WipeDevice" => ~ conf.dual
  /\ step = "EraseDeviceData" => q.op = "EraseDevice" /\ ~ Barred(q.on, "wipe")
  /\ step = "RevokeDeviceCerts" => ~ Barred(q.on, "remote_command")
  /\ step = "SavePendingWipe" => q.op = "WipeDevice"
  /\ step = "ConsumePendingWipe" => q.op = "ApproveWipe"
  /\ step = "DeletePendingWipe" => q.op = "CancelWipe"
  /\ step \in {"ConsumeTOTPStep", "DisableMFA"} => q.op \in MFAOps
  /\ step \in {"CreateAdmin", "SetAdminRole", "DeactivateAdmin"} => q.op \notin MFAOps

\* And what they established at that moment: the caller had the role of the command.
RoleHeld(s, q, step) == step = "enqueue" => rank(Db!AdminRole(s, q.by)) >= rank(specs[CommandOf[q.op]].min)

ConfInv == fam \in Families /\ conf \in SettingsOf(fam)

\* The steps of a plan are the scope guard's entry, or the work of a request that passed every check.
LEMMA PlanSteps ==
    ASSUME NEW g, NEW t, NEW w \in Seq(Calls)
    PROVE  LET x == Plan(g, t, w)
               passed == \A i \in DOMAIN g : g[i] \in {"ok", "logged"}
           IN  /\ x.run \in Seq(Calls)
               /\ x.run \in {<<>>, <<"audit">>} \/ (passed /\ x.run \in {w, <<"audit">> \o w})
               /\ \A i \in 1 .. Len(x.run) : x.run[i] = "audit" \/ (passed /\ \E j \in 1 .. Len(w) : x.run[i] = w[j])
  <1> DEFINE x == Plan(g, t, w)
             passed == \A i \in DOMAIN g : g[i] \in {"ok", "logged"}
             note == <<"audit">> \o w
  <1>1. x.run \in {<<>>, <<"audit">>} \/ (passed /\ x.run \in {w, note})
    <2>1. CASE passed
      <3>1. <<>> \o w = w
        BY ConcatEmptySeq
      <3>2. {i \in DOMAIN g : g[i] \notin {"ok", "logged"}} = {}
        BY <2>1
      <3>3. x.run = (IF \E i \in DOMAIN g : g[i] = "logged" THEN <<"audit">> ELSE <<>>) \o w
        BY <3>2 DEF Plan
      <3> QED
        BY <2>1, <3>1, <3>3
    <2>2. CASE ~ passed
      <3>1. {i \in DOMAIN g : g[i] \notin {"ok", "logged"}} # {}
        BY <2>2
      <3>2. x.run = IF g[Min({i \in DOMAIN g : g[i] \notin {"ok", "logged"}})] \in ScopeErrors THEN <<"audit">> ELSE <<>>
        BY <3>1 DEF Plan
      <3> QED
        BY <3>2
    <2> QED
      BY <2>1, <2>2
  <1>2. /\ <<"audit">> \in Seq(Calls) /\ <<>> \in Seq(Calls) /\ note \in Seq(Calls)
        /\ Len(note) = 1 + Len(w) /\ Len(w) \in Nat
        /\ \A i \in 1 .. Len(note) : note[i] = IF i <= 1 THEN "audit" ELSE w[i - 1]
    <2>1. <<"audit">> \in Seq(Calls) /\ Len(<<"audit">>) = 1 /\ <<"audit">>[1] = "audit"
      <3>1. "audit" \in Calls
        BY DEF Calls
      <3>2. \A e \in Calls : <<e>> \in Seq(Calls) /\ Len(<<e>>) = 1 /\ <<e>>[1] = e
        OBVIOUS
      <3> QED
        BY <3>1, <3>2
    <2>2. /\ note \in Seq(Calls) /\ Len(note) = Len(<<"audit">>) + Len(w)
          /\ \A i \in 1 .. Len(<<"audit">>) + Len(w) :
                note[i] = IF i <= Len(<<"audit">>) THEN <<"audit">>[i] ELSE w[i - Len(<<"audit">>)]
      BY <2>1, ConcatProperties
    <2> QED
      BY <2>1, <2>2
  <1> HIDE DEF x, passed, note
  <1>3. x.run \in Seq(Calls)
    BY <1>1, <1>2
  <1>4. ASSUME NEW i \in 1 .. Len(x.run) PROVE x.run[i] = "audit" \/ (passed /\ \E j \in 1 .. Len(w) : x.run[i] = w[j])
    <2>1. CASE x.run = <<>>
      BY <2>1
    <2>2. CASE x.run = <<"audit">>
      BY <2>2
    <2>3. CASE passed /\ x.run = w
      BY <2>3
    <2>4. CASE passed /\ x.run = note
      <3>1. CASE i <= 1
        BY <1>2, <2>4, <3>1
      <3>2. CASE ~ (i <= 1)
        <4>1. i - 1 \in 1 .. Len(w) /\ note[i] = w[i - 1]
          BY <1>2, <2>4, <3>2
        <4> QED
          BY <2>4, <4>1
      <3> QED
        BY <3>1, <3>2
    <2> QED
      BY <1>1, <2>1, <2>2, <2>3, <2>4
  <1> QED
    BY <1>1, <1>3, <1>4 DEF x, passed, note

\* The scope guard lets no action pass that the policy bars.
LEMMA GuardBars ==
    ASSUME ConfInv, NEW d, NEW act, guardScope(conf, d, act) \in {"ok", "logged"}
    PROVE  ~ Barred(d, act)
  <1> DEFINE high == Sc!ImpactOf(act) >= Sc!HighImpact
             target == [tenant |-> conf.tenant, device |-> d, domain |-> <<>>, ip |-> 0, host |-> "", env |-> "", port |-> 0]
  <1>1. conf.policy = ScopePolicy
    <2>1. \A a, b, c, e, f : Settings(a, b, c, e, f).policy = ScopePolicy
      BY DEF Settings
    <2>2. \E a, b, c, e, f : conf = Settings(a, b, c, e, f)
      BY DEF ConfInv, SettingsOf, Open
    <2> QED
      BY <2>1, <2>2
  <1>2. CASE conf.scope = "none"
    BY <1>2 DEF guardScope, If, Barred
  <1>3. CASE conf.scope # "none" /\ conf.tenant = "" /\ high
    BY <1>3 DEF guardScope
  <1>4. CASE conf.scope # "none" /\ ~ (conf.tenant = "" /\ high)
    <2>1. guardScope(conf, d, act) = If(Sc!Verdict(conf.policy, target, act), IF conf.enforce THEN "scope deny" ELSE "logged")
      BY <1>4 DEF guardScope
    <2>2. ASSUME d \in conf.policy.excluded.devices PROVE ~ Sc!Verdict(conf.policy, target, act)
      <3>1. d \in {"d3", "d1"} /\ conf.policy.excluded.devices = {"d3", "d1"}
        BY <1>1, <2>2 DEF ScopePolicy
      <3>2. Sc!matchSelector(conf.policy.excluded, target)
        BY <3>1 DEF Sc!matchSelector
      <3>3. conf.policy # Sc!NoPolicy
        <4>1. "rps" \in DOMAIN conf.policy /\ "rps" \notin DOMAIN Sc!NoPolicy
          BY <1>1 DEF ScopePolicy, Sc!NoPolicy
        <4> QED
          BY <4>1
      <3> QED
        BY <3>2, <3>3 DEF Sc!Verdict
    <2> QED
      BY <1>4, <2>1, <2>2 DEF Barred, If
  <1> QED
    BY <1>2, <1>3, <1>4

-----------------------------------------------------------------------------
(* The handlers *)

\* Every step of the plan was cleared for r.
Clears(s, r, plan) ==
  /\ plan.run \in Seq(Calls)
  /\ \A i \in 1 .. Len(plan.run) : Cleared(r, plan.run[i]) /\ RoleHeld(s, r, plan.run[i])

\* Short sequences of calls.
LEMMA Works ==
  /\ <<>> \in Seq(Calls) /\ Len(<<>>) = 0
  /\ \A a \in Calls : <<a>> \in Seq(Calls) /\ Len(<<a>>) = 1 /\ <<a>>[1] = a
  /\ \A a, b \in Calls : <<a, b>> \in Seq(Calls) /\ Len(<<a, b>>) = 2 /\ <<a, b>>[1] = a /\ <<a, b>>[2] = b
  /\ \A a, b, c \in Calls : /\ <<a, b, c>> \in Seq(Calls) /\ Len(<<a, b, c>>) = 3
                            /\ <<a, b, c>>[1] = a /\ <<a, b, c>>[2] = b /\ <<a, b, c>>[3] = c
  /\ \A a, b, c, d \in Calls :
        /\ <<a, b, c, d>> \in Seq(Calls) /\ Len(<<a, b, c, d>>) = 4
        /\ <<a, b, c, d>>[1] = a /\ <<a, b, c, d>>[2] = b /\ <<a, b, c, d>>[3] = c /\ <<a, b, c, d>>[4] = d
  OBVIOUS

\* Nothing has to be known of these.
Harmless ==
  {"SaveEnrollmentToken", "RevokeEnrollmentToken", "SetDeviceTags", "reflect", "SetEventAck", "SetEventCase", "CreatePolicy",
   "AssignPolicy", "AddPolicyRule", "BumpPolicyVersion", "SetPendingMFASecret", "ActivateMFA", "audit", "publish", "publish policy",
   "session"}

\* Such a call is cleared for every request.
LEMMA HarmlessCleared ==
    ASSUME NEW s, NEW r, NEW step \in Harmless
    PROVE  step \in Calls /\ Cleared(r, step) /\ RoleHeld(s, r, step)
  BY DEF Harmless, Calls, Cleared, RoleHeld

\* A plan is cleared when the checks that let it pass clear its calls.
LEMMA PlanClears ==
    ASSUME NEW s, NEW r, NEW g, NEW t, NEW w \in Seq(Calls),
           (\A i \in DOMAIN g : g[i] \in {"ok", "logged"})
             => \A j \in 1 .. Len(w) : Cleared(r, w[j]) /\ RoleHeld(s, r, w[j])
    PROVE  Clears(s, r, Plan(g, t, w))
  <1> DEFINE x == Plan(g, t, w)
  <1>1. x.run \in Seq(Calls)
    BY PlanSteps
  <1>2. ASSUME NEW i \in 1 .. Len(x.run) PROVE Cleared(r, x.run[i]) /\ RoleHeld(s, r, x.run[i])
    <2>1. CASE x.run[i] = "audit"
      <3>1. "audit" \in Harmless
        BY DEF Harmless
      <3> QED
        BY <2>1, <3>1, HarmlessCleared
    <2>2. CASE x.run[i] # "audit"
      <3>1. (\A k \in DOMAIN g : g[k] \in {"ok", "logged"}) /\ \E j \in 1 .. Len(w) : x.run[i] = w[j]
        BY <2>2, PlanSteps
      <3> QED
        BY <3>1
    <2> QED
      BY <2>1, <2>2
  <1> QED
    BY <1>1, <1>2 DEF Clears

\* A plan of harmless steps.
LEMMA HarmlessPlan ==
    ASSUME NEW s, NEW r, NEW g, NEW t, NEW w \in Seq(Calls), \A j \in 1 .. Len(w) : w[j] \in Harmless
    PROVE  Clears(s, r, Plan(g, t, w))
  BY HarmlessCleared, PlanClears

\* The handlers that make harmless calls only.
LEMMA HarmlessHandlers ==
    ASSUME NEW s, NEW r,
           r.op \in {"IssueEnrollmentToken", "RevokeEnrollmentToken", "SetDeviceTags", "AuthorizeExport", "AckEvent", "UpdateEventCase",
                     "CreatePolicy", "AssignPolicy", "AddPolicyRule"}
    PROVE  Clears(s, r, Handler(s, conf, r))
  <1> DEFINE h == Handler(s, conf, r)
  <1>0. \A a \in Harmless : a \in Calls
    BY DEF Harmless, Calls
  <1>1. /\ <<>> \in Seq(Calls) /\ \A j \in 1 .. Len(<<>>) : <<>>[j] \in Harmless
        /\ \A a \in Harmless : <<a>> \in Seq(Calls) /\ \A j \in 1 .. Len(<<a>>) : <<a>>[j] \in Harmless
        /\ \A a, b \in Harmless : <<a, b>> \in Seq(Calls) /\ \A j \in 1 .. Len(<<a, b>>) : <<a, b>>[j] \in Harmless
        /\ \A a, b, c \in Harmless : <<a, b, c>> \in Seq(Calls) /\ \A j \in 1 .. Len(<<a, b, c>>) : <<a, b, c>>[j] \in Harmless
        /\ \A a, b, c, d \in Harmless :
              <<a, b, c, d>> \in Seq(Calls) /\ \A j \in 1 .. Len(<<a, b, c, d>>) : <<a, b, c, d>>[j] \in Harmless
    BY <1>0, Works
  <1>2. /\ \A g, t : Clears(s, r, Plan(g, t, <<>>))
        /\ \A g, t : \A a \in Harmless : Clears(s, r, Plan(g, t, <<a>>))
        /\ \A g, t : \A a, b \in Harmless : Clears(s, r, Plan(g, t, <<a, b>>))
        /\ \A g, t : \A a, b, c \in Harmless : Clears(s, r, Plan(g, t, <<a, b, c>>))
        /\ \A g, t : \A a, b, c, d \in Harmless : Clears(s, r, Plan(g, t, <<a, b, c, d>>))
    BY <1>1, HarmlessPlan
  <1>3. /\ "AddPolicyRule" \in Harmless
        /\ "AssignPolicy" \in Harmless
        /\ "BumpPolicyVersion" \in Harmless
        /\ "CreatePolicy" \in Harmless
        /\ "RevokeEnrollmentToken" \in Harmless
        /\ "SaveEnrollmentToken" \in Harmless
        /\ "SetDeviceTags" \in Harmless
        /\ "SetEventAck" \in Harmless
        /\ "SetEventCase" \in Harmless
        /\ "audit" \in Harmless
        /\ "publish" \in Harmless
        /\ "publish policy" \in Harmless
    BY DEF Harmless
  <1>4. CASE r.op = "IssueEnrollmentToken"
    <2>1. \A g, t : Clears(s, r, Plan(g, t, <<"SaveEnrollmentToken", "audit">>))
      BY <1>2, <1>3
    <2>2. h = handleIssueToken(s, conf, r)
      BY <1>4, Zenon DEF Handler
    <2>3. \A x : Clears(s, r, IssueEnrollmentToken(s, conf, x))
      BY <2>1 DEF IssueEnrollmentToken
    <2> QED
      BY <1>2, <2>2, <2>3, Zenon DEF handleIssueToken
  <1>5. CASE r.op = "RevokeEnrollmentToken"
    <2>1. \A g, t : Clears(s, r, Plan(g, t, <<"RevokeEnrollmentToken", "audit">>))
      BY <1>2, <1>3
    <2>2. h = handleRevokeToken(s, conf, r)
      BY <1>5, Zenon DEF Handler
    <2> QED
      BY <2>1, <2>2 DEF handleRevokeToken, RevokeEnrollmentToken
  <1>6. CASE r.op = "SetDeviceTags"
    <2>1. \A g, t : Clears(s, r, Plan(g, t, <<"SetDeviceTags", "audit">>))
      BY <1>2, <1>3
    <2>2. h = handleSetDeviceTags(s, conf, r)
      BY <1>6, Zenon DEF Handler
    <2> QED
      BY <2>1, <2>2 DEF handleSetDeviceTags, SetDeviceTags
  <1>7. CASE r.op = "AuthorizeExport"
    <2>1. \A g, t : Clears(s, r, Plan(g, t, <<"audit">>))
      BY <1>2, <1>3
    <2>2. h = AuthorizeExport(s, conf, r)
      BY <1>7, Zenon DEF Handler
    <2> QED
      BY <2>1, <2>2 DEF AuthorizeExport
  <1>8. CASE r.op = "AckEvent"
    <2>1. \A g, t : Clears(s, r, Plan(g, t, <<"SetEventAck", "audit">>))
      BY <1>2, <1>3
    <2>2. h \in {handleResolveEvent(s, conf, r), handleAckEvent(s, conf, r)}
      BY <1>8, Zenon DEF Handler
    <2> QED
      BY <2>1, <2>2 DEF handleResolveEvent, handleAckEvent, AckEvent
  <1>9. CASE r.op = "UpdateEventCase"
    <2>1. \A g, t : Clears(s, r, Plan(g, t, <<"SetEventCase", "audit">>))
      BY <1>2, <1>3
    <2>2. h = handleEventCase(s, conf, r)
      BY <1>9, Zenon DEF Handler
    <2> QED
      BY <2>1, <2>2 DEF handleEventCase, UpdateEventCase
  <1>10. CASE r.op = "CreatePolicy"
    <2>1. \A g, t : Clears(s, r, Plan(g, t, <<"CreatePolicy", "audit">>))
      BY <1>2, <1>3
    <2>2. h = handleCreatePolicy(s, conf, r)
      BY <1>10, Zenon DEF Handler
    <2> QED
      BY <2>1, <2>2 DEF handleCreatePolicy, CreatePolicy
  <1>11. CASE r.op = "AssignPolicy"
    <2>1. \A g, t : Clears(s, r, Plan(g, t, <<"AssignPolicy", "audit", "publish">>))
      BY <1>2, <1>3
    <2>2. h = handleAssignPolicy(s, conf, r)
      BY <1>11, Zenon DEF Handler
    <2> QED
      BY <2>1, <2>2 DEF handleAssignPolicy, AssignPolicy
  <1>12. CASE r.op = "AddPolicyRule"
    <2>1. \A g, t : Clears(s, r, Plan(g, t, <<"AddPolicyRule", "BumpPolicyVersion", "audit", "publish policy">>))
      BY <1>2, <1>3
    <2>2. h = handleAddRule(s, conf, r)
      BY <1>12, Zenon DEF Handler
    <2> QED
      BY <2>1, <2>2 DEF handleAddRule, AddPolicyRule
  <1> QED
    BY <1>4, <1>5, <1>6, <1>7, <1>8, <1>9, <1>10, <1>11, <1>12

\* Checks that all pass clear the command and find the caller in its role.
LEMMA CommandCleared ==
    ASSUME ConfInv, NEW s, NEW r, NEW type \in DOMAIN specs, r.op \in DOMAIN CommandOf, CommandOf[r.op] = type,
           r.op = "WipeDevice" => ~ conf.dual,
           requireCmd(s, r.by, type) \in {"ok", "logged"}, guardCmdScope(conf, r.on, type) \in {"ok", "logged"}
    PROVE  Cleared(r, "enqueue") /\ RoleHeld(s, r, "enqueue")
  <1>1. RoleHeld(s, r, "enqueue")
    BY DEF RoleHeld, requireCmd, require, If
  <1>2. specs[type].exempt \/ ~ Barred(r.on, specs[type].scope)
    <2>1. CASE specs[type].exempt
      BY <2>1
    <2>2. CASE ~ specs[type].exempt
      <3>1. guardCmdScope(conf, r.on, type) = guardScope(conf, r.on, specs[type].scope)
        BY <2>2, Zenon DEF guardCmdScope, commandScope
      <3> QED
        BY <3>1, GuardBars
    <2> QED
      BY <2>1, <2>2
  <1>3. Cleared(r, "enqueue")
    BY <1>2 DEF Cleared
  <1> QED
    BY <1>1, <1>3

\* The calls of a command.
LEMMA CommandWork ==
    ASSUME NEW reflect \in BOOLEAN
    PROVE  LET w == <<"enqueue", "audit">> \o (IF reflect THEN <<"reflect">> ELSE <<>>)
           IN  w \in Seq(Calls) /\ \A j \in 1 .. Len(w) : w[j] \in {"enqueue", "audit", "reflect"}
  <1> DEFINE u == <<"enqueue", "audit">>
             v == IF reflect THEN <<"reflect">> ELSE <<>>
  <1>1. {"enqueue", "audit", "reflect"} \subseteq Calls
    BY DEF Calls
  <1>2. u \in Seq(Calls) /\ Len(u) = 2 /\ u[1] = "enqueue" /\ u[2] = "audit"
    BY <1>1, Works
  <1>3. v \in Seq(Calls) /\ Len(v) \in Nat /\ \A j \in 1 .. Len(v) : v[j] = "reflect"
    BY <1>1, Works
  <1> HIDE DEF u, v
  <1>4. /\ u \o v \in Seq(Calls) /\ Len(u \o v) = Len(u) + Len(v)
        /\ \A j \in 1 .. Len(u) + Len(v) : (u \o v)[j] = IF j <= Len(u) THEN u[j] ELSE v[j - Len(u)]
    BY <1>2, <1>3, ConcatProperties
  <1>5. ASSUME NEW j \in 1 .. Len(u \o v) PROVE (u \o v)[j] \in {"enqueue", "audit", "reflect"}
    <2>1. CASE j <= 2
      BY <1>2, <1>3, <1>4, <2>1
    <2>2. CASE ~ (j <= 2)
      <3>1. j - 2 \in 1 .. Len(v) /\ (u \o v)[j] = v[j - 2]
        BY <1>2, <1>3, <1>4, <2>2
      <3> QED
        BY <1>3, <3>1
    <2> QED
      BY <2>1, <2>2
  <1> QED
    BY <1>4, <1>5 DEF u, v

\* The handlers of one command, its audit entry and its status.
LEMMA CommandClears ==
    ASSUME ConfInv, NEW s, NEW r, NEW type \in DOMAIN specs, r.op \in DOMAIN CommandOf, CommandOf[r.op] = type, r.op # "WipeDevice"
    PROVE  \A reflect \in BOOLEAN : Clears(s, r, command(s, conf, r, type, reflect))
  <1> TAKE reflect \in BOOLEAN
  <1> DEFINE g == <<requireCmd(s, r.by, type), enforceDeviceTenant(s, r.by, r.on), guardCmdScope(conf, r.on, type)>>
             w == <<"enqueue", "audit">> \o (IF reflect THEN <<"reflect">> ELSE <<>>)
             t == AdminTenant(s, r.by)
  <1>1. {"enqueue", "audit", "reflect"} \subseteq Calls /\ {"audit", "reflect"} \subseteq Harmless
    BY DEF Calls, Harmless
  <1>3. w \in Seq(Calls) /\ \A j \in 1 .. Len(w) : w[j] \in {"enqueue", "audit", "reflect"}
    BY CommandWork
  <1>4. ASSUME \A i \in DOMAIN g : g[i] \in {"ok", "logged"}, NEW j \in 1 .. Len(w)
        PROVE  Cleared(r, w[j]) /\ RoleHeld(s, r, w[j])
    <2>1. requireCmd(s, r.by, type) \in {"ok", "logged"} /\ guardCmdScope(conf, r.on, type) \in {"ok", "logged"}
      BY <1>4
    <2>2. Cleared(r, "enqueue") /\ RoleHeld(s, r, "enqueue")
      BY <2>1, CommandCleared
    <2> QED
      BY <1>1, <1>3, <2>2, HarmlessCleared
  <1>5. command(s, conf, r, type, reflect) = Plan(g, t, w)
    BY DEF command
  <1> HIDE DEF g, w, t
  <1> QED
    BY <1>3, <1>4, <1>5, PlanClears

\* The handlers of single commands queue what their checks cleared.
LEMMA CommandHandlers ==
    ASSUME ConfInv, NEW s, NEW r,
           r.op \in {"QuarantineDevice", "ReleaseDevice", "CollectDiagnostics", "LockDevice", "RestartDevice", "CollectFile"}
    PROVE  Clears(s, r, Handler(s, conf, r))
  <1> DEFINE h == Handler(s, conf, r)
  <1>1. CASE r.op = "QuarantineDevice"
    <2>1. h = command(s, conf, r, "QUARANTINE", TRUE)
      BY <1>1, Zenon DEF Handler, handleQuarantine, QuarantineDevice
    <2>2. "QUARANTINE" \in DOMAIN specs /\ r.op \in DOMAIN CommandOf /\ CommandOf[r.op] = "QUARANTINE"
      BY <1>1 DEF specs, CommandOf
    <2> QED
      BY <1>1, <2>1, <2>2, CommandClears
  <1>2. CASE r.op = "ReleaseDevice"
    <2>1. h = command(s, conf, r, "UNQUARANTINE", TRUE)
      BY <1>2, Zenon DEF Handler, handleRelease, ReleaseDevice
    <2>2. "UNQUARANTINE" \in DOMAIN specs /\ r.op \in DOMAIN CommandOf /\ CommandOf[r.op] = "UNQUARANTINE"
      BY <1>2 DEF specs, CommandOf
    <2> QED
      BY <1>2, <2>1, <2>2, CommandClears
  <1>3. CASE r.op = "CollectDiagnostics"
    <2>1. h = command(s, conf, r, "COLLECT_DIAGNOSTICS", FALSE)
      BY <1>3, Zenon DEF Handler, handleCollectDiagnostics, CollectDiagnostics
    <2>2. "COLLECT_DIAGNOSTICS" \in DOMAIN specs /\ r.op \in DOMAIN CommandOf /\ CommandOf[r.op] = "COLLECT_DIAGNOSTICS"
      BY <1>3 DEF specs, CommandOf
    <2> QED
      BY <1>3, <2>1, <2>2, CommandClears
  <1>4. CASE r.op = "LockDevice"
    <2>1. h = command(s, conf, r, "LOCK", FALSE)
      BY <1>4, Zenon DEF Handler, handleLockDevice, LockDevice
    <2>2. "LOCK" \in DOMAIN specs /\ r.op \in DOMAIN CommandOf /\ CommandOf[r.op] = "LOCK"
      BY <1>4 DEF specs, CommandOf
    <2> QED
      BY <1>4, <2>1, <2>2, CommandClears
  <1>5. CASE r.op = "RestartDevice"
    <2>1. h = command(s, conf, r, "RESTART", FALSE)
      BY <1>5, Zenon DEF Handler, handleRestartDevice, RestartDevice
    <2>2. "RESTART" \in DOMAIN specs /\ r.op \in DOMAIN CommandOf /\ CommandOf[r.op] = "RESTART"
      BY <1>5 DEF specs, CommandOf
    <2> QED
      BY <1>5, <2>1, <2>2, CommandClears
  <1>6. CASE r.op = "CollectFile"
    <2> DEFINE a == requireCmd(s, r.by, "COLLECT_FILE")
               b == If(r.arg # "", "invalid input")
               c == enforceDeviceTenant(s, r.by, r.on)
               d == guardCmdScope(conf, r.on, "COLLECT_FILE")
               g == <<a, b, c, d>>
               w == <<"enqueue", "audit">>
               t == AdminTenant(s, r.by)
    <2>1. h = Plan(g, t, w)
      BY <1>6, Zenon DEF Handler, handleCollectFile, CollectFile
    <2>2. w \in Seq(Calls) /\ \A j \in 1 .. Len(w) : w[j] \in {"enqueue", "audit"}
      <3>1. "enqueue" \in Calls /\ "audit" \in Calls
        BY DEF Calls
      <3> QED
        BY <3>1, Works
    <2>3. ASSUME \A i \in DOMAIN g : g[i] \in {"ok", "logged"}, NEW j \in 1 .. Len(w)
          PROVE  Cleared(r, w[j]) /\ RoleHeld(s, r, w[j])
      <3>1. requireCmd(s, r.by, "COLLECT_FILE") \in {"ok", "logged"} /\ guardCmdScope(conf, r.on, "COLLECT_FILE") \in {"ok", "logged"}
        <4> HIDE DEF a, b, c, d, w, t, h
        <4>1. a \in {"ok", "logged"} /\ d \in {"ok", "logged"}
          BY <2>3
        <4> QED
          BY <4>1 DEF a, d
      <3>2. "COLLECT_FILE" \in DOMAIN specs /\ r.op \in DOMAIN CommandOf /\ CommandOf[r.op] = "COLLECT_FILE" /\ "audit" \in Harmless
        BY <1>6 DEF specs, CommandOf, Harmless
      <3>3. Cleared(r, "enqueue") /\ RoleHeld(s, r, "enqueue")
        BY <1>6, <3>1, <3>2, CommandCleared
      <3> QED
        BY <2>2, <3>2, <3>3, HarmlessCleared
    <2> HIDE DEF g, w, t, h
    <2>4. Clears(s, r, Plan(g, t, w))
      BY <2>2, <2>3, PlanClears
    <2> QED
      BY <2>1, <2>4 DEF h
  <1> QED
    BY <1>1, <1>2, <1>3, <1>4, <1>5, <1>6

\* A plan of which one call needs its checks and the others are harmless.
LEMMA OnePlan ==
    ASSUME NEW s, NEW r, NEW g, NEW t, NEW a \in Calls, NEW b \in Harmless,
           (\A i \in DOMAIN g : g[i] \in {"ok", "logged"}) => Cleared(r, a) /\ RoleHeld(s, r, a)
    PROVE  Clears(s, r, Plan(g, t, <<a, b>>))
  <1>1. b \in Calls
    BY HarmlessCleared
  <1>2. <<a, b>> \in Seq(Calls) /\ \A j \in 1 .. Len(<<a, b>>) : <<a, b>>[j] \in {a, b}
    BY <1>1, Works
  <1>3. ASSUME \A i \in DOMAIN g : g[i] \in {"ok", "logged"}, NEW j \in 1 .. Len(<<a, b>>)
        PROVE  Cleared(r, <<a, b>>[j]) /\ RoleHeld(s, r, <<a, b>>[j])
    <2>1. <<a, b>>[j] \in {a, b}
      BY <1>2
    <2>2. Cleared(r, a) /\ RoleHeld(s, r, a) /\ Cleared(r, b) /\ RoleHeld(s, r, b)
      BY <1>3, HarmlessCleared
    <2> QED
      BY <2>1, <2>2
  <1> DEFINE w == <<a, b>>
  <1> HIDE DEF w
  <1>4. Clears(s, r, Plan(g, t, w))
    BY <1>2, <1>3, PlanClears DEF w
  <1> QED
    BY <1>4 DEF w

\* The three checks of the wipe operations clear the command.
LEMMA WipeCleared ==
    ASSUME ConfInv, NEW s, NEW r, r.op \in {"WipeDevice", "ApproveWipe"}, r.op = "WipeDevice" => ~ conf.dual,
           \A i \in DOMAIN wipeGuards(s, conf, r) : wipeGuards(s, conf, r)[i] \in {"ok", "logged"}
    PROVE  Cleared(r, "enqueue") /\ RoleHeld(s, r, "enqueue")
  <1> DEFINE a == requireCmd(s, r.by, "WIPE")
             b == enforceDeviceTenant(s, r.by, r.on)
             c == guardCmdScope(conf, r.on, "WIPE")
             g == <<a, b, c>>
  <1>1. g = wipeGuards(s, conf, r)
    BY DEF wipeGuards
  <1>2. a \in {"ok", "logged"} /\ c \in {"ok", "logged"}
    <2>1. \A i \in DOMAIN g : g[i] \in {"ok", "logged"}
      BY <1>1
    <2> HIDE DEF a, b, c
    <2> QED
      BY <2>1
  <1>3. "WIPE" \in DOMAIN specs /\ r.op \in DOMAIN CommandOf /\ CommandOf[r.op] = "WIPE"
    BY DEF specs, CommandOf
  <1> QED
    BY <1>2, <1>3, CommandCleared

\* What an approval starts with, and what it still has to do later on.
ApproveStarts ==
  {<<>>, <<"audit">>, <<"ConsumePendingWipe", "enqueue", "audit">>, <<"audit", "ConsumePendingWipe", "enqueue", "audit">>}
ApproveRuns == ApproveStarts \cup {<<"enqueue", "audit">>}

\* The plan of an approval is one of the four it can start with.
LEMMA ApproveShape ==
    ASSUME NEW s, NEW r, r.op = "ApproveWipe"
    PROVE  Handler(s, conf, r).run \in ApproveStarts
  <1> DEFINE w == <<"ConsumePendingWipe", "enqueue", "audit">>
             u == <<"audit">> \o w
             v == <<"audit", "ConsumePendingWipe", "enqueue", "audit">>
  <1>1. Handler(s, conf, r) = Plan(wipeGuards(s, conf, r), AdminTenant(s, r.by), w)
    BY Zenon DEF Handler, handleApproveWipe, ApproveWipe
  <1>2. "ConsumePendingWipe" \in Calls /\ "enqueue" \in Calls /\ "audit" \in Calls
    BY DEF Calls
  <1>3. /\ w \in Seq(Calls) /\ Len(w) = 3 /\ w[1] = "ConsumePendingWipe" /\ w[2] = "enqueue" /\ w[3] = "audit"
        /\ v \in Seq(Calls) /\ Len(v) = 4 /\ v[1] = "audit" /\ v[2] = "ConsumePendingWipe" /\ v[3] = "enqueue" /\ v[4] = "audit"
    BY <1>2, Works
  <1>4. u = v
    <2> DEFINE a == <<"audit">>
    <2>1. a \in Seq(Calls) /\ Len(a) = 1 /\ a[1] = "audit"
      BY <1>2, Works
    <2> HIDE DEF a, w, v
    <2>2. /\ a \o w \in Seq(Calls) /\ Len(a \o w) = 4
          /\ \A i \in 1 .. 4 : (a \o w)[i] = IF i <= 1 THEN a[i] ELSE w[i - 1]
      <3>1. /\ a \o w \in Seq(Calls) /\ Len(a \o w) = Len(a) + Len(w)
            /\ \A i \in 1 .. Len(a) + Len(w) : (a \o w)[i] = IF i <= Len(a) THEN a[i] ELSE w[i - Len(a)]
        BY <1>3, <2>1, ConcatProperties
      <3> QED
        BY <1>3, <2>1, <3>1
    <2>3. /\ (a \o w)[1] = "audit" /\ (a \o w)[2] = "ConsumePendingWipe"
          /\ (a \o w)[3] = "enqueue" /\ (a \o w)[4] = "audit"
      BY <1>3, <2>1, <2>2
    <2>4. \A i \in 1 .. 4 : i = 1 \/ i = 2 \/ i = 3 \/ i = 4
      OBVIOUS
    <2>5. \A i \in 1 .. 4 : (a \o w)[i] = v[i]
      BY <1>3, <2>3, <2>4
    <2>6. a \o w = v
      BY <1>3, <2>2, <2>5, SeqEqual
    <2> QED
      BY <2>6 DEF a
  <1>5. w \in ApproveStarts /\ <<>> \in ApproveStarts /\ <<"audit">> \in ApproveStarts /\ u \in ApproveStarts
    <2> HIDE DEF u
    <2> QED
      BY <1>4 DEF ApproveStarts
  <1> HIDE DEF w
  <1>6. ASSUME NEW g, NEW t PROVE Plan(g, t, w).run \in {<<>>, <<"audit">>, w, <<"audit">> \o w}
    <2>1. w \in Seq(Calls)
      BY <1>3
    <2> QED
      BY <2>1, PlanSteps
  <1>7. \A g, t : Plan(g, t, w).run \in ApproveStarts
    BY <1>5, <1>6
  <1> QED
    BY <1>1, <1>7

\* The wipe handlers queue a WIPE alone only without dual control.
LEMMA WipeHandlers ==
    ASSUME ConfInv, NEW s, NEW r, r.op \in WipeOps
    PROVE  Clears(s, r, Handler(s, conf, r))
  <1> DEFINE h == Handler(s, conf, r)
             g == wipeGuards(s, conf, r)
             t == AdminTenant(s, r.by)
  <1>0. /\ {"enqueue", "SavePendingWipe", "ConsumePendingWipe", "DeletePendingWipe", "audit"} \subseteq Calls
        /\ "audit" \in Harmless
    BY DEF Calls, Harmless
  <1>1. CASE r.op = "WipeDevice" /\ conf.dual
    <2>1. h = Plan(g, t, <<"SavePendingWipe", "audit">>)
      BY <1>1, Zenon DEF Handler, handleWipeDevice, RequestWipe
    <2>2. Cleared(r, "SavePendingWipe") /\ RoleHeld(s, r, "SavePendingWipe")
      BY <1>1 DEF Cleared, RoleHeld
    <2> QED
      BY <1>0, <2>1, <2>2, OnePlan
  <1>2. CASE r.op = "WipeDevice" /\ ~ conf.dual
    <2>1. h = Plan(g, t, <<"enqueue", "audit">>)
      BY <1>2, Zenon DEF Handler, handleWipeDevice, WipeDevice
    <2> QED
      BY <1>0, <1>2, <2>1, WipeCleared, OnePlan
  <1>3. CASE r.op = "ApproveWipe"
    <2> DEFINE w == <<"ConsumePendingWipe", "enqueue", "audit">>
    <2>1. h = Plan(g, t, w)
      BY <1>3, Zenon DEF Handler, handleApproveWipe, ApproveWipe
    <2>2. w \in Seq(Calls) /\ \A j \in 1 .. Len(w) : w[j] \in {"ConsumePendingWipe", "enqueue", "audit"}
      BY <1>0, Works
    <2>3. Cleared(r, "ConsumePendingWipe") /\ RoleHeld(s, r, "ConsumePendingWipe")
      BY <1>3 DEF Cleared, RoleHeld
    <2>4. ASSUME \A i \in DOMAIN g : g[i] \in {"ok", "logged"}, NEW j \in 1 .. Len(w)
          PROVE  Cleared(r, w[j]) /\ RoleHeld(s, r, w[j])
      <3>1. Cleared(r, "enqueue") /\ RoleHeld(s, r, "enqueue")
        BY <1>3, <2>4, WipeCleared
      <3> QED
        BY <1>0, <2>2, <2>3, <3>1, HarmlessCleared
    <2> HIDE DEF g, w, t, h
    <2>5. Clears(s, r, Plan(g, t, w))
      BY <2>2, <2>4, PlanClears
    <2> QED
      BY <2>1, <2>5 DEF h
  <1>4. CASE r.op = "CancelWipe"
    <2>1. Cleared(r, "DeletePendingWipe") /\ RoleHeld(s, r, "DeletePendingWipe")
      BY <1>4 DEF Cleared, RoleHeld
    <2>2. \A x, y : Clears(s, r, Plan(x, y, <<"DeletePendingWipe", "audit">>))
      BY <1>0, <2>1, OnePlan
    <2>3. h = CancelWipe(s, conf, r)
      BY <1>4, Zenon DEF Handler, handleCancelWipe
    <2> QED
      BY <2>2, <2>3 DEF CancelWipe
  <1> QED
    BY <1>1, <1>2, <1>3, <1>4 DEF WipeOps

\* What is barred from remote commands is barred from everything of high impact.
LEMMA BarredMore ==
    ASSUME NEW d, Barred(d, "remote_command")
    PROVE  Barred(d, "wipe")
  <1>1. ~ (Sc!ImpactOf("remote_command") >= Sc!HighImpact)
    <2>1. Sc!ImpactOf("remote_command") = Sc!Remote
      BY Zenon DEF Sc!ImpactOf
    <2> QED
      BY <2>1 DEF Sc!Remote, Sc!HighImpact
  <1> QED
    BY <1>1 DEF Barred

\* Erasing and revoking pass the scope guard first.
LEMMA DataHandlers ==
    ASSUME ConfInv, NEW s, NEW r, r.op \in {"EraseDevice", "RevokeDevice"}
    PROVE  Clears(s, r, Handler(s, conf, r))
  <1> DEFINE h == Handler(s, conf, r)
             t == AdminTenant(s, r.by)
             b == enforceDeviceTenant(s, r.by, r.on)
  <1>0. "EraseDeviceData" \in Calls /\ "RevokeDeviceCerts" \in Calls /\ "audit" \in Harmless
    BY DEF Calls, Harmless
  <1>1. CASE r.op = "EraseDevice"
    <2> DEFINE a == require(s, r.by, "ADMIN")
               c == guardScope(conf, r.on, "wipe")
               g == <<a, b, c>>
    <2>1. h = Plan(g, t, <<"EraseDeviceData", "audit">>)
      BY <1>1, Zenon DEF Handler, handleEraseDevice, EraseDevice
    <2>2. ASSUME \A i \in DOMAIN g : g[i] \in {"ok", "logged"}
          PROVE  Cleared(r, "EraseDeviceData") /\ RoleHeld(s, r, "EraseDeviceData")
      <3>1. c \in {"ok", "logged"}
        <4> HIDE DEF a, b, c
        <4> QED
          BY <2>2
      <3>2. ~ Barred(r.on, "wipe")
        BY <3>1, GuardBars
      <3> QED
        BY <1>1, <3>2 DEF Cleared, RoleHeld
    <2> HIDE DEF g, t, h
    <2>3. Clears(s, r, Plan(g, t, <<"EraseDeviceData", "audit">>))
      BY <1>0, <2>2, OnePlan
    <2> QED
      BY <2>1, <2>3 DEF h
  <1>2. CASE r.op = "RevokeDevice"
    <2> DEFINE a == require(s, r.by, "OPERATOR")
               c == guardScope(conf, r.on, "remote_command")
               g == <<a, b, c>>
    <2>1. h = Plan(g, t, <<"RevokeDeviceCerts", "audit">>)
      BY <1>2, Zenon DEF Handler, handleRevoke, RevokeDevice
    <2>2. ASSUME \A i \in DOMAIN g : g[i] \in {"ok", "logged"}
          PROVE  Cleared(r, "RevokeDeviceCerts") /\ RoleHeld(s, r, "RevokeDeviceCerts")
      <3>1. c \in {"ok", "logged"}
        <4> HIDE DEF a, b, c
        <4> QED
          BY <2>2
      <3>2. ~ Barred(r.on, "remote_command")
        BY <3>1, GuardBars
      <3> QED
        BY <1>2, <3>2 DEF Cleared, RoleHeld
    <2> HIDE DEF g, t, h
    <2>3. Clears(s, r, Plan(g, t, <<"RevokeDeviceCerts", "audit">>))
      BY <1>0, <2>2, OnePlan
    <2> QED
      BY <2>1, <2>3 DEF h
  <1> QED
    BY <1>1, <1>2

\* The handlers for administrators only touch administrators.
LEMMA AdminHandlers ==
    ASSUME NEW s, NEW r, r.op \in {"CreateAdmin", "SetAdminRole", "DeactivateAdmin"}
    PROVE  Clears(s, r, Handler(s, conf, r))
  <1> DEFINE h == Handler(s, conf, r)
  <1>0. /\ "CreateAdmin" \in Calls /\ "SetAdminRole" \in Calls /\ "DeactivateAdmin" \in Calls /\ "audit" \in Harmless
        /\ \A a \in {"CreateAdmin", "SetAdminRole", "DeactivateAdmin"} : Cleared(r, a) /\ RoleHeld(s, r, a)
    BY DEF Calls, Harmless, Cleared, RoleHeld, MFAOps
  <1>1. CASE r.op = "CreateAdmin"
    <2>1. \A g, t : Clears(s, r, Plan(g, t, <<"CreateAdmin", "audit">>))
      BY <1>0, OnePlan
    <2>2. h = CreateAdmin(s, conf, r)
      BY <1>1, Zenon DEF Handler, handleCreateAdmin
    <2> QED
      BY <2>1, <2>2 DEF CreateAdmin
  <1>2. CASE r.op = "SetAdminRole"
    <2>1. \A g, t : Clears(s, r, Plan(g, t, <<"SetAdminRole", "audit">>))
      BY <1>0, OnePlan
    <2>2. h = SetAdminRole(s, conf, r)
      BY <1>2, Zenon DEF Handler, handleSetAdminRole
    <2> QED
      BY <2>1, <2>2 DEF SetAdminRole
  <1>3. CASE r.op = "DeactivateAdmin"
    <2>1. \A g, t : Clears(s, r, Plan(g, t, <<"DeactivateAdmin", "audit">>))
      BY <1>0, OnePlan
    <2>2. h = DeactivateAdmin(s, conf, r)
      BY <1>3, Zenon DEF Handler, handleDeactivateAdmin
    <2> QED
      BY <2>1, <2>2 DEF DeactivateAdmin
  <1> QED
    BY <1>1, <1>2, <1>3

\* The handlers for codes only touch the caller's own codes.
LEMMA MFAHandlers ==
    ASSUME NEW s, NEW r, r.op \in MFAOps
    PROVE  Clears(s, r, Handler(s, conf, r))
  <1> DEFINE h == Handler(s, conf, r)
             mfa == Db!LookupMFA(s, r.by)
             U == {"ConsumeTOTPStep", "DisableMFA"} \cup Harmless
  <1>0. \A a \in U : a \in Calls /\ Cleared(r, a) /\ RoleHeld(s, r, a)
    <2>1. \A a \in {"ConsumeTOTPStep", "DisableMFA"} : a \in Calls /\ Cleared(r, a) /\ RoleHeld(s, r, a)
      BY DEF Calls, Cleared, RoleHeld, MFAOps
    <2> QED
      BY <2>1, HarmlessCleared
  <1>a. {"ConsumeTOTPStep", "DisableMFA", "SetPendingMFASecret", "ActivateMFA", "audit", "session"} \subseteq U
    BY DEF Harmless
  <1> HIDE DEF U
  <1>b. /\ <<>> \in Seq(Calls) /\ \A j \in 1 .. Len(<<>>) : <<>>[j] \in U
        /\ \A a \in U : <<a>> \in Seq(Calls) /\ \A j \in 1 .. Len(<<a>>) : <<a>>[j] \in U
        /\ \A a, b \in U : <<a, b>> \in Seq(Calls) /\ \A j \in 1 .. Len(<<a, b>>) : <<a, b>>[j] \in U
        /\ \A a, b, c \in U : <<a, b, c>> \in Seq(Calls) /\ \A j \in 1 .. Len(<<a, b, c>>) : <<a, b, c>>[j] \in U
    BY <1>0, Works
  <1> DEFINE Good(w) == w \in Seq(Calls) /\ \A j \in 1 .. Len(w) : w[j] \in U
  <1>c. /\ Good(<<>>) /\ Good(<<"audit">>) /\ Good(<<"session">>) /\ Good(<<"DisableMFA">>)
        /\ Good(<<"SetPendingMFASecret", "audit">>) /\ Good(<<"ConsumeTOTPStep", "session">>)
        /\ Good(<<"ConsumeTOTPStep", "SetPendingMFASecret", "audit">>)
        /\ Good(<<"ConsumeTOTPStep", "ActivateMFA", "audit">>) /\ Good(<<"ConsumeTOTPStep", "DisableMFA", "audit">>)
    BY <1>a, <1>b
  <1>d. \A x : Good(x.run) => Clears(s, r, x)
    BY <1>0 DEF Clears
  <1>e. ASSUME NEW g, NEW t, NEW w, Good(w) PROVE Clears(s, r, Plan(g, t, w))
    BY <1>0, <1>e, PlanClears
  <1> HIDE DEF Good
  <1>1. CASE r.op = "BeginMFAEnrollment"
    <2>1. h = BeginMFAEnrollment(s, conf, r)
      BY <1>1, Zenon DEF Handler
    <2>2. CASE ~mfa[2]
      <3>1. h = Plan(<<require(s, r.by, "VIEWER")>>, "", <<"SetPendingMFASecret", "audit">>)
        BY <2>1, <2>2, Zenon DEF BeginMFAEnrollment
      <3> QED
        BY <3>1, <1>c, <1>e
    <2>3. CASE mfa[2] /\ ~VerifyTOTPStep(mfa[1], r.code)
      <3>1. h = [err |-> "forbidden", t |-> "", run |-> <<"audit">>]
        BY <2>1, <2>3, Zenon DEF BeginMFAEnrollment
      <3> QED
        BY <3>1, <1>c, <1>d
    <2>4. CASE mfa[2] /\ VerifyTOTPStep(mfa[1], r.code)
      <3>1. h = Plan(<<require(s, r.by, "VIEWER")>>, "", <<"ConsumeTOTPStep", "SetPendingMFASecret", "audit">>)
        BY <2>1, <2>4, Zenon DEF BeginMFAEnrollment
      <3> QED
        BY <3>1, <1>c, <1>e
    <2> QED
      BY <2>2, <2>3, <2>4
  <1>2. CASE r.op = "ActivateMFA"
    <2>1. h = ActivateMFA(s, conf, r)
      BY <1>2, Zenon DEF Handler
    <2>2. \A g, t : Clears(s, r, Plan(g, t, <<"ConsumeTOTPStep", "ActivateMFA", "audit">>))
      BY <1>c, <1>e
    <2> QED
      BY <2>1, <2>2, Zenon DEF ActivateMFA
  <1>3. CASE r.op = "DisableMFA"
    <2>1. h = DisableMFA(s, conf, r)
      BY <1>3, Zenon DEF Handler
    <2>2. /\ \A g, t : Clears(s, r, Plan(g, t, <<"ConsumeTOTPStep", "DisableMFA", "audit">>))
          /\ \A g, t : Clears(s, r, Plan(g, t, <<"DisableMFA">>))
      BY <1>c, <1>e
    <2> QED
      BY <2>1, <2>2, Zenon DEF DisableMFA
  <1>4. CASE r.op = "Login"
    <2>1. h = Authenticate(s, conf, r)
      BY <1>4, Zenon DEF Handler
    <2> DEFINE Done(e, w) == [err |-> e, t |-> "", run |-> w]
    <2>2. \/ h = Done("", <<"ConsumeTOTPStep", "session">>) \/ h = Done("", <<"session">>)
          \/ h = Done("forbidden", <<>>)
      BY <2>1, Zenon DEF Authenticate
    <2>3. \A e, w : Good(w) => Clears(s, r, Done(e, w))
      BY <1>d
    <2> HIDE DEF Done, h
    <2>4. Clears(s, r, h)
      BY <2>2, <2>3, <1>c
    <2> QED
      BY <2>4 DEF h
  <1> QED
    BY <1>1, <1>2, <1>3, <1>4 DEF MFAOps

\* Whatever a handler goes on to do was cleared by its checks.
LEMMA HandlerClears ==
    ASSUME ConfInv, NEW s, NEW r, r.op \in MFAOps \cup WipeOps \cup OtherOps
    PROVE  Clears(s, r, Handler(s, conf, r))
  <1>1. CASE r.op \in MFAOps
    BY <1>1, MFAHandlers
  <1>2. CASE r.op \in WipeOps
    BY <1>2, WipeHandlers
  <1>3. CASE r.op \in OtherOps
    <2>1. CASE r.op \in {"QuarantineDevice", "ReleaseDevice", "CollectDiagnostics", "LockDevice", "RestartDevice", "CollectFile"}
      BY <2>1, CommandHandlers
    <2>2. CASE r.op \in {"EraseDevice", "RevokeDevice"}
      BY <2>2, DataHandlers
    <2>3. CASE r.op \in {"CreateAdmin", "SetAdminRole", "DeactivateAdmin"}
      BY <2>3, AdminHandlers
    <2>4. CASE r.op \in {"IssueEnrollmentToken", "RevokeEnrollmentToken", "SetDeviceTags", "AuthorizeExport", "AckEvent",
                         "UpdateEventCase", "CreatePolicy", "AssignPolicy", "AddPolicyRule"}
      BY <2>4, HarmlessHandlers
    <2> QED
      BY <1>3, <2>1, <2>2, <2>3, <2>4 DEF OtherOps
  <1> QED
    BY <1>1, <1>2, <1>3

-----------------------------------------------------------------------------
(* The invariant *)

IsSeq(q) == \E S : q \in Seq(S)

Tables ==
  {"tok", "dev", "cert", "ev", "ack", "inc", "wipe", "pol", "asg", "adm", "aud", "srch", "art", "cust", "cmd", "msp", "api"}

ReqFields == {"op", "by", "on", "arg", "arg2", "email", "code", "t", "run", "rest"}

\* What a slot holds: every call it still has to make was cleared.
Ready(q) ==
  \/ q = Idle
  \/ /\ DOMAIN q = ReqFields
     /\ q.op \in MFAOps \cup WipeOps \cup OtherOps
     /\ fam = "wipe" <=> q.op \in WipeOps
     /\ fam = "mfa" <=> q.op \in MFAOps
     /\ fam = "mfa" => q.code.step \in Nat
     /\ q.run \in Seq(Calls)
     /\ \A i \in 1 .. Len(q.run) : Cleared(q, q.run[i])
     /\ q.op = "ApproveWipe" => q.run \in ApproveRuns
ReqInv == DOMAIN req = Slots /\ \A p \in Slots : Ready(req[p])

StoreInv ==
  /\ DOMAIN db = Tables
  /\ IsSeq(db.cmd) /\ IsSeq(db.ev) /\ IsSeq(asked) /\ IsSeq(accepted)
  /\ \A f \in DOMAIN db.cert : {"dev", "revoked"} \subseteq DOMAIN db.cert[f]

\* What ScopeWall says, of every row.
ScopeInv ==
  /\ \A i \in DOMAIN db.cmd : specs[db.cmd[i].type].exempt \/ ~ Barred(db.cmd[i].dev, specs[db.cmd[i].type].scope)
  /\ \A f \in DOMAIN db.cert : Barred(db.cert[f].dev, "remote_command") => ~ db.cert[f].revoked
  /\ \A i \in DOMAIN Seed.ev : Barred(Seed.ev[i].dev, "wipe") => \E k \in DOMAIN db.ev : db.ev[k] = Seed.ev[i]

\* A request that took the pending wipe and has not queued the command yet.
Claimed(q) == q.op = "ApproveWipe" /\ q.run # <<>> /\ q.run[1] = "enqueue"

Wipes(d) == {i \in DOMAIN db.cmd : db.cmd[i].dev = d /\ db.cmd[i].type = "WIPE"}
Claims(d) == {p \in Slots : Claimed(req[p]) /\ req[p].on = d}
Asks(d) == {k \in DOMAIN asked : asked[k][1] = d}
AskedByAnother(d, a) == \E k \in DOMAIN asked : asked[k][1] = d /\ asked[k][2] # a

\* A wipe is pending, claimed or queued, and each was asked for by another administrator.
WipeInv ==
  /\ fam # "wipe" => \A i \in DOMAIN db.cmd : db.cmd[i].type # "WIPE"
  /\ fam = "wipe" /\ conf.dual =>
       /\ \A d \in DOMAIN db.wipe : \E k \in DOMAIN asked : asked[k] = <<d, db.wipe[d]>>
       /\ \A p \in Slots : Claimed(req[p]) => AskedByAnother(req[p].on, req[p].by)
       /\ \A i \in DOMAIN db.cmd : AskedByAnother(db.cmd[i].dev, db.cmd[i].by)
       /\ \A d \in DOMAIN db.dev :
            Cardinality(Wipes(d)) + Cardinality(Claims(d)) + (IF d \in DOMAIN db.wipe THEN 1 ELSE 0) <= Cardinality(Asks(d))

\* The rows of the administrators count the steps.
HasSteps(s) == \A a \in DOMAIN s.adm : "step" \in DOMAIN s.adm[a] /\ s.adm[a].step \in Nat

\* A code that was accepted is not later than the last step its owner used up.
CodeInv ==
  /\ fam # "mfa" => accepted = <<>>
  /\ fam = "mfa" =>
       /\ HasSteps(db)
       /\ \A i \in DOMAIN accepted : /\ accepted[i][1] \in DOMAIN db.adm
                                     /\ accepted[i][2] \in Nat
                                     /\ accepted[i][2] <= db.adm[accepted[i][1]].step
  /\ CodeAcceptedOnce

AdminInv == ConfInv /\ ReqInv /\ StoreInv /\ ScopeInv /\ WipeInv /\ CodeInv

-----------------------------------------------------------------------------
(* Requests *)

EventOps == {"AckEvent", "UpdateEventCase"}

\* The request r of the family: its fields, and an operation of the family.
Asked(r) ==
  /\ DOMAIN r = {"op", "by", "on", "arg", "arg2", "email", "code"}
  /\ r.op \in MFAOps \cup WipeOps \cup OtherOps
  /\ fam = "wipe" <=> r.op \in WipeOps
  /\ fam = "mfa" <=> r.op \in MFAOps
  /\ fam = "event" <=> r.op \in EventOps
  /\ fam = "mfa" => r.code.step \in Nat

\* The requests of a family ask for its operations.
LEMMA RequestFacts ==
    ASSUME fam \in Families, NEW r \in Requests(fam) \cup Bulk(fam)
    PROVE  Asked(r)
  <1> DEFINE F == DOMAIN r = {"op", "by", "on", "arg", "arg2", "email", "code"}
  <1>1. CASE r \in Bulk(fam)
    <2>1. fam = "bulk" /\ r \in From(BulkOps, {"oper", "boss"}, {""}, {"p1"})
      BY <1>1 DEF Bulk
    <2>2. F /\ r.op \in BulkOps
      BY <2>1 DEF From
    <2> QED
      BY <2>1, <2>2 DEF Asked, BulkOps, MFAOps, WipeOps, EventOps, OtherOps
  <1>2. CASE fam = "token" /\ r \in Requests(fam)
    <2>1. r \in    From({"IssueEnrollmentToken"}, Callers \cup {"look"}, {""}, {"", "t1", "t2"})
              \cup From({"RevokeEnrollmentToken"}, Callers, DOMAIN db.tok, {""})
      BY <1>2, Zenon DEF Requests
    <2>2. F /\ r.op \in {"IssueEnrollmentToken", "RevokeEnrollmentToken"}
      <3>1. CASE r \in From({"IssueEnrollmentToken"}, Callers \cup {"look"}, {""}, {"", "t1", "t2"})
        BY <3>1 DEF From
      <3>2. CASE r \in From({"RevokeEnrollmentToken"}, Callers, DOMAIN db.tok, {""})
        BY <3>2 DEF From
      <3> QED
        BY <2>1, <3>1, <3>2
    <2> QED
      BY <1>2, <2>2 DEF Asked, MFAOps, WipeOps, EventOps, OtherOps
  <1>3. CASE fam = "device" /\ r \in Requests(fam)
    <2> DEFINE ops == {"QuarantineDevice", "ReleaseDevice", "LockDevice", "RestartDevice", "CollectDiagnostics",
                       "RevokeDevice", "EraseDevice"}
    <2>1. r \in    From(ops, {"boss"}, {"d1", "d2"}, {""})
              \cup From({"QuarantineDevice", "EraseDevice", "AuthorizeExport"}, {"oper"}, {"d1"}, {""})
              \cup From({"CollectFile"}, {"boss"}, {"d1", "d2"}, {"path"})
              \cup From({"SetDeviceTags"}, {"oper"}, {"d1", "d2"}, {"tags"})
      BY <1>3, Zenon DEF Requests
    <2>2. F /\ r.op \in ops \cup {"AuthorizeExport", "CollectFile", "SetDeviceTags"}
      <3>1. CASE r \in From(ops, {"boss"}, {"d1", "d2"}, {""})
        BY <3>1 DEF From
      <3>2. CASE r \in From({"QuarantineDevice", "EraseDevice", "AuthorizeExport"}, {"oper"}, {"d1"}, {""})
        BY <3>2 DEF From
      <3>3. CASE r \in From({"CollectFile"}, {"boss"}, {"d1", "d2"}, {"path"})
        BY <3>3 DEF From
      <3>4. CASE r \in From({"SetDeviceTags"}, {"oper"}, {"d1", "d2"}, {"tags"})
        BY <3>4 DEF From
      <3> QED
        BY <2>1, <3>1, <3>2, <3>3, <3>4
    <2> QED
      BY <1>3, <2>2 DEF Asked, MFAOps, WipeOps, EventOps, OtherOps
  <1>4. CASE fam = "wipe" /\ r \in Requests(fam)
    <2>1. r \in    From({"WipeDevice", "ApproveWipe", "CancelWipe"}, {"root", "root2", "boss"}, {"d1"}, {""})
              \cup From({"WipeDevice"}, {"boss"}, {"d2"}, {""})
      BY <1>4, Zenon DEF Requests
    <2>2. F /\ r.op \in WipeOps
      <3>1. CASE r \in From({"WipeDevice", "ApproveWipe", "CancelWipe"}, {"root", "root2", "boss"}, {"d1"}, {""})
        BY <3>1 DEF From, WipeOps
      <3>2. CASE r \in From({"WipeDevice"}, {"boss"}, {"d2"}, {""})
        BY <3>2 DEF From, WipeOps
      <3> QED
        BY <2>1, <3>1, <3>2
    <2> QED
      BY <1>4, <2>2 DEF Asked, MFAOps, WipeOps, EventOps
  <1>5. CASE fam = "policy" /\ r \in Requests(fam)
    <2>1. r \in    From({"CreatePolicy"}, {"root", "boss"}, {""}, {"", "t1", "t2", "Not A Tenant"})
              \cup From({"AssignPolicy"}, {"root", "boss"}, {"d1", "d2"}, DOMAIN db.pol)
              \cup From({"AddPolicyRule"}, {"root", "boss"}, DOMAIN db.pol, {"APP_BLOCK"})
      BY <1>5, Zenon DEF Requests
    <2>2. F /\ r.op \in {"CreatePolicy", "AssignPolicy", "AddPolicyRule"}
      <3>1. CASE r \in From({"CreatePolicy"}, {"root", "boss"}, {""}, {"", "t1", "t2", "Not A Tenant"})
        BY <3>1 DEF From
      <3>2. CASE r \in From({"AssignPolicy"}, {"root", "boss"}, {"d1", "d2"}, DOMAIN db.pol)
        BY <3>2 DEF From
      <3>3. CASE r \in From({"AddPolicyRule"}, {"root", "boss"}, DOMAIN db.pol, {"APP_BLOCK"})
        BY <3>3 DEF From
      <3> QED
        BY <2>1, <3>1, <3>2, <3>3
    <2> QED
      BY <1>5, <2>2 DEF Asked, MFAOps, WipeOps, EventOps, OtherOps
  <1>6. CASE fam = "admin" /\ r \in Requests(fam)
    <2> DEFINE made == [op : {"CreateAdmin"}, by : {"root", "boss"}, on : {""}, arg : {"", "t1", "t2"}, arg2 : {"ADMIN"},
                        email : {"e"}, code : {NoCode}]
    <2>1. r \in    From({"SetAdminRole"}, {"root", "boss", "rival"}, {"root", "boss", "oper", "rival"}, {"VIEWER", "ADMIN", "OWNER"})
              \cup From({"DeactivateAdmin"}, {"root", "boss", "root2"}, {"root", "boss", "oper", "root2"}, {""})
              \cup made
      BY <1>6, Zenon DEF Requests
    <2>2. r \in made => F /\ r.op = "CreateAdmin"
      OBVIOUS
    <2> HIDE DEF made
    <2>3. F /\ r.op \in {"SetAdminRole", "DeactivateAdmin", "CreateAdmin"}
      <3>1. CASE r \in From({"SetAdminRole"}, {"root", "boss", "rival"}, {"root", "boss", "oper", "rival"}, {"VIEWER", "ADMIN", "OWNER"})
        BY <3>1 DEF From
      <3>2. CASE r \in From({"DeactivateAdmin"}, {"root", "boss", "root2"}, {"root", "boss", "oper", "root2"}, {""})
        BY <3>2 DEF From
      <3>3. CASE r \in made
        BY <2>2, <3>3
      <3> QED
        BY <2>1, <3>1, <3>2, <3>3
    <2> QED
      BY <1>6, <2>3 DEF Asked, MFAOps, WipeOps, EventOps, OtherOps
  <1>7. CASE fam = "event" /\ r \in Requests(fam)
    <2>1. r \in From({"AckEvent"}, Callers, {4, 5}, {"RESOLVED", "ACKNOWLEDGED"}) \cup From({"UpdateEventCase"}, Callers, {4, 5}, {"who"})
      BY <1>7, Zenon DEF Requests
    <2>2. F /\ r.op \in {"AckEvent", "UpdateEventCase"}
      <3>1. CASE r \in From({"AckEvent"}, Callers, {4, 5}, {"RESOLVED", "ACKNOWLEDGED"})
        BY <3>1 DEF From
      <3>2. CASE r \in From({"UpdateEventCase"}, Callers, {4, 5}, {"who"})
        BY <3>2 DEF From
      <3> QED
        BY <2>1, <3>1, <3>2
    <2> QED
      BY <1>7, <2>2 DEF Asked, MFAOps, WipeOps, EventOps, OtherOps
  <1>8. CASE fam = "mfa" /\ r \in Requests(fam)
    <2> DEFINE steps == {1, 2}
               codes == [secret : {"S0", db.adm["boss"].pending}, step : steps]
               ops == MFAOps
               names == {"S" \o ToString(left)}
    <2>1. r \in [op : ops, by : {"boss"}, on : {""}, arg : names, arg2 : {""}, email : {""}, code : codes]
      BY <1>8, Zenon DEF Requests, MFAOps
    <2>2. \A c \in codes : c.step \in Nat
      OBVIOUS
    <2> HIDE DEF codes, ops, names
    <2>3. F /\ r.op \in ops /\ r.code \in codes
      BY <2>1
    <2> QED
      BY <1>8, <2>2, <2>3 DEF Asked, ops, MFAOps, WipeOps, EventOps
  <1>9. CASE fam = "bulk" /\ r \in Requests(fam)
    <2>1. r \in    From({"SetDeviceTags"}, {"oper"}, {"d1"}, {"tags"}) \cup From({"SetAdminRole"}, {"boss"}, {"oper"}, {"VIEWER"})
              \cup From({"DeactivateAdmin"}, {"root"}, {"oper"}, {""})
      BY <1>9, Zenon DEF Requests
    <2>2. F /\ r.op \in {"SetDeviceTags", "SetAdminRole", "DeactivateAdmin"}
      <3>1. CASE r \in From({"SetDeviceTags"}, {"oper"}, {"d1"}, {"tags"})
        BY <3>1 DEF From
      <3>2. CASE r \in From({"SetAdminRole"}, {"boss"}, {"oper"}, {"VIEWER"})
        BY <3>2 DEF From
      <3>3. CASE r \in From({"DeactivateAdmin"}, {"root"}, {"oper"}, {""})
        BY <3>3 DEF From
      <3> QED
        BY <2>1, <3>1, <3>2, <3>3
    <2> QED
      BY <1>9, <2>2 DEF Asked, MFAOps, WipeOps, EventOps, OtherOps
  <1> QED
    BY <1>1, <1>2, <1>3, <1>4, <1>5, <1>6, <1>7, <1>8, <1>9 DEF Families

\* What a slot holds when it starts on r.
LEMMA StartedFields ==
    ASSUME NEW r, DOMAIN r = {"op", "by", "on", "arg", "arg2", "email", "code"}, NEW plan, NEW rest
    PROVE  LET q == Started(r, plan, rest)
           IN  /\ DOMAIN q = ReqFields
               /\ q.op = r.op /\ q.by = r.by /\ q.on = r.on /\ q.code = r.code /\ q.t = plan.t
               /\ q.run = plan.run /\ q.rest = rest
  <1>1. DOMAIN Started(r, plan, rest) = DOMAIN r \cup {"t", "run", "rest"}
    BY Zenon DEF Started
  <1>2. Started(r, plan, rest).run = plan.run /\ Started(r, plan, rest).rest = rest /\ Started(r, plan, rest).t = plan.t
    BY Zenon DEF Started
  <1>3. {"op", "by", "on", "code"} \subseteq DOMAIN r
    OBVIOUS
  <1>4. /\ Started(r, plan, rest).op = r.op /\ Started(r, plan, rest).by = r.by
        /\ Started(r, plan, rest).on = r.on /\ Started(r, plan, rest).code = r.code
    BY <1>3, Zenon DEF Started
  <1> QED
    BY <1>1, <1>2, <1>4 DEF ReqFields

-----------------------------------------------------------------------------
(* What the store calls change *)

\* z is s but for the tables no rule of this module is about.
Frame(s, z) ==
  /\ DOMAIN z = Tables /\ DOMAIN z.dev = DOMAIN s.dev
  /\ z.cmd = s.cmd /\ z.wipe = s.wipe /\ z.cert = s.cert /\ z.ev = s.ev

\* The administrators and the steps they used up.
SameSteps(s, z) ==
  /\ DOMAIN z.adm = DOMAIN s.adm
  /\ \A a \in DOMAIN s.adm : "step" \in DOMAIN s.adm[a] => "step" \in DOMAIN z.adm[a] /\ z.adm[a].step = s.adm[a].step

AdminCalls == {"CreateAdmin", "SetAdminRole", "DeactivateAdmin"}

\* Triage writes the row of its event and nothing else.
LEMMA AckRow ==
    ASSUME NEW s, DOMAIN s = Tables, NEW id, NEW by, NEW status, NEW assignee
    PROVE  LET x == Db!UpsertAck(s, id, by, status, assignee) IN Frame(s, x.s) /\ SameSteps(s, x.s)
  <1> DEFINE tn == Db!ackTenant(s, id)
             row == IF id \in DOMAIN s.ack
                      THEN [s.ack[id] EXCEPT !.tenant = IF tn = "" THEN @ ELSE tn, !.by = by]
                      ELSE [tenant |-> Db!Canonical(tn), status |-> "", assignee |-> "", by |-> by]
             a == Db!Put(s.ack, id, [row EXCEPT !.status = IF status = "keep" THEN @ ELSE status,
                                                !.assignee = IF assignee = "keep" THEN @ ELSE assignee])
  <1>1. Db!UpsertAck(s, id, by, status, assignee) = Db!Ret([s EXCEPT !.ack = a], "ok")
    BY Zenon DEF Db!UpsertAck
  <1> HIDE DEF a
  <1>2. Db!UpsertAck(s, id, by, status, assignee).s = [s EXCEPT !.ack = a]
    BY <1>1 DEF Db!Ret
  <1>3. Frame(s, [s EXCEPT !.ack = a]) /\ SameSteps(s, [s EXCEPT !.ack = a])
    BY DEF Frame, SameSteps, Tables
  <1> QED
    BY <1>2, <1>3

\* The calls outside the rules leave commands, wipes, certificates and events alone.
LEMMA FrameCalls ==
    ASSUME NEW s, DOMAIN s = Tables, NEW q, NEW id, NEW step \in Harmless \cup AdminCalls
    PROVE  LET z == Exec(s, q, step, id).s IN Frame(s, z) /\ (step \notin AdminCalls => SameSteps(s, z))
  <1> DEFINE x == Exec(s, q, step, id)
  <1>0. Frame(s, s) /\ SameSteps(s, s)
    BY DEF Frame, SameSteps
  <1>1. CASE step = "SaveEnrollmentToken"
    <2>1. x = Db!SaveEnrollmentToken(s, id, q.by, q.t)
      BY <1>1, Zenon DEF Exec
    <2>2. Frame(s, x.s)
      BY <2>1 DEF Db!SaveEnrollmentToken, Db!Ret, Frame, Tables
    <2>3. SameSteps(s, x.s)
      BY <2>1 DEF Db!SaveEnrollmentToken, Db!Ret, SameSteps, Tables
    <2> QED
      BY <2>2, <2>3
  <1>2. CASE step = "RevokeEnrollmentToken"
    <2>1. x = Db!RevokeEnrollmentToken(s, q.on, q.t)
      BY <1>2, Zenon DEF Exec
    <2>2. Frame(s, x.s)
      BY <2>1 DEF Db!RevokeEnrollmentToken, Db!Ret, Frame, Tables
    <2>3. SameSteps(s, x.s)
      BY <2>1 DEF Db!RevokeEnrollmentToken, Db!Ret, SameSteps, Tables
    <2> QED
      BY <2>2, <2>3
  <1>3. CASE step = "SetDeviceTags"
    <2>1. x = Db!SetDeviceTags(s, q.on, normalizeTags(TagsAsked), q.t)
      BY <1>3, Zenon DEF Exec
    <2>2. Frame(s, x.s)
      BY <2>1 DEF Db!SetDeviceTags, Db!Ret, Frame, Tables
    <2>3. SameSteps(s, x.s)
      BY <2>1 DEF Db!SetDeviceTags, Db!Ret, SameSteps, Tables
    <2> QED
      BY <2>2, <2>3
  <1>4. CASE step = "reflect"
    <2>1. x = Db!SetDeviceStatus(s, q.on, Reflected[CommandOf[q.op]])
      BY <1>4, Zenon DEF Exec
    <2>2. Frame(s, x.s)
      BY <2>1 DEF Db!SetDeviceStatus, Db!Ret, Frame, Tables
    <2>3. SameSteps(s, x.s)
      BY <2>1 DEF Db!SetDeviceStatus, Db!Ret, SameSteps, Tables
    <2> QED
      BY <2>2, <2>3
  <1>5. CASE step = "SetEventAck"
    <2>1. x = Db!SetEventAck(s, q.on, q.by, q.arg)
      BY <1>5, Zenon DEF Exec
    <2>2. x = Db!UpsertAck(s, q.on, q.by, q.arg, "keep")
      BY <2>1, Zenon DEF Db!SetEventAck
    <2>3. Frame(s, x.s) /\ SameSteps(s, x.s)
      <3> HIDE DEF x
      <3> QED
        BY <2>2, AckRow
    <2> QED
      BY <2>3
  <1>6. CASE step = "SetEventCase"
    <2>1. x = Db!SetEventCase(s, q.on, q.by, q.arg)
      BY <1>6, Zenon DEF Exec
    <2>2. x = Db!UpsertAck(s, q.on, q.by, "keep", q.arg)
      BY <2>1, Zenon DEF Db!SetEventCase
    <2>3. Frame(s, x.s) /\ SameSteps(s, x.s)
      <3> HIDE DEF x
      <3> QED
        BY <2>2, AckRow
    <2> QED
      BY <2>3
  <1>7. CASE step = "CreatePolicy"
    <2>1. x = Db!CreatePolicy(s, id, q.t)
      BY <1>7, Zenon DEF Exec
    <2>2. Frame(s, x.s)
      BY <2>1 DEF Db!CreatePolicy, Db!Ret, Frame, Tables
    <2>3. SameSteps(s, x.s)
      BY <2>1 DEF Db!CreatePolicy, Db!Ret, SameSteps, Tables
    <2> QED
      BY <2>2, <2>3
  <1>8. CASE step = "AssignPolicy"
    <2>1. x = Db!AssignPolicy(s, q.on, q.arg)
      BY <1>8, Zenon DEF Exec
    <2>2. Frame(s, x.s)
      BY <2>1 DEF Db!AssignPolicy, Db!Ret, Frame, Tables
    <2>3. SameSteps(s, x.s)
      BY <2>1 DEF Db!AssignPolicy, Db!Ret, SameSteps, Tables
    <2> QED
      BY <2>2, <2>3
  <1>9. CASE step = "AddPolicyRule"
    <2>1. x = Db!AddPolicyRule(s, q.on, q.arg, {})
      BY <1>9, Zenon DEF Exec
    <2>2. Frame(s, x.s)
      BY <2>1 DEF Db!AddPolicyRule, Db!Ret, Frame, Tables
    <2>3. SameSteps(s, x.s)
      BY <2>1 DEF Db!AddPolicyRule, Db!Ret, SameSteps, Tables
    <2> QED
      BY <2>2, <2>3
  <1>10. CASE step = "BumpPolicyVersion"
    <2>1. x = Db!BumpPolicyVersion(s, q.on)
      BY <1>10, Zenon DEF Exec
    <2>2. Frame(s, x.s)
      BY <2>1 DEF Db!BumpPolicyVersion, Db!Ret, Frame, Tables
    <2>3. SameSteps(s, x.s)
      BY <2>1 DEF Db!BumpPolicyVersion, Db!Ret, SameSteps, Tables
    <2> QED
      BY <2>2, <2>3
  <1>11. CASE step = "CreateAdmin"
    <2>1. x = Db!CreateAdmin(s, id, q.email, q.arg2, q.t)
      BY <1>11, Zenon DEF Exec
    <2>2. Frame(s, x.s)
      <3>1. x = Db!Ret(s, "error") \/ \E v : x = Db!Ret([s EXCEPT !.adm = v], id)
        BY <2>1, Zenon DEF Db!CreateAdmin
      <3> HIDE DEF x
      <3> QED
        BY <3>1 DEF Db!Ret, Frame, Tables
    <2> QED
      BY <1>11, <2>2 DEF AdminCalls
  <1>12. CASE step = "SetAdminRole"
    <2>1. x = Db!SetAdminRole(s, q.on, q.arg, q.t)
      BY <1>12, Zenon DEF Exec
    <2>2. Frame(s, x.s)
      BY <2>1 DEF Db!SetAdminRole, Db!Ret, Frame, Tables
    <2> QED
      BY <1>12, <2>2 DEF AdminCalls
  <1>13. CASE step = "DeactivateAdmin"
    <2>1. x = Db!DeactivateAdmin(s, q.on, q.t)
      BY <1>13, Zenon DEF Exec
    <2>2. Frame(s, x.s)
      BY <2>1 DEF Db!DeactivateAdmin, Db!Ret, Frame, Tables
    <2> QED
      BY <1>13, <2>2 DEF AdminCalls
  <1>14. CASE step = "SetPendingMFASecret"
    <2>1. x = Db!SetPendingMFASecret(s, q.by, q.arg)
      BY <1>14, Zenon DEF Exec
    <2>2. Frame(s, x.s)
      BY <2>1 DEF Db!SetPendingMFASecret, Db!Ret, Frame, Tables
    <2>3. SameSteps(s, x.s)
      BY <2>1 DEF Db!SetPendingMFASecret, Db!Ret, SameSteps, Tables
    <2> QED
      BY <2>2, <2>3
  <1>15. CASE step = "ActivateMFA"
    <2>1. x = Db!ActivateMFA(s, q.by)
      BY <1>15, Zenon DEF Exec
    <2> DEFINE a == q.by
               v == s.adm[a].pending
               y == [s EXCEPT !.adm[a].secret = v]
               z == [y EXCEPT !.adm[a].pending = ""]
               w == [z EXCEPT !.adm[a].enrolled = TRUE]
    <2>2. x.s = s \/ (a \in DOMAIN s.adm /\ x.s = w)
      <3>1. x = Db!Ret(s, "ok") \/ (a \in DOMAIN s.adm /\ x = Db!Ret(w, "ok"))
        BY <2>1, Zenon DEF Db!ActivateMFA
      <3> HIDE DEF x, w, a
      <3> QED
        BY <3>1 DEF Db!Ret
    <2> HIDE DEF a, v, x
    <2>3. Frame(s, y) /\ SameSteps(s, y)
      BY DEF Frame, SameSteps, Tables
    <2> HIDE DEF y
    <2>4. Frame(y, z) /\ SameSteps(y, z)
      BY <2>3 DEF Frame, SameSteps, Tables
    <2> HIDE DEF z
    <2>5. Frame(z, w) /\ SameSteps(z, w)
      BY <2>4 DEF Frame, SameSteps, Tables
    <2> HIDE DEF w
    <2>6. Frame(s, w) /\ SameSteps(s, w)
      BY <2>3, <2>4, <2>5 DEF Frame, SameSteps
    <2> QED
      BY <1>0, <2>2, <2>6 DEF x
  <1>16. CASE step = "audit"
    <2>1. x = Db!WriteAudit(s, q.by, q.op)
      BY <1>16, Zenon DEF Exec
    <2>2. \E v : x = Db!Ret([s EXCEPT !.aud = v], "ok")
      BY <2>1, Zenon DEF Db!WriteAudit
    <2> HIDE DEF x
    <2>3. Frame(s, x.s)
      BY <2>2 DEF Db!Ret, Frame, Tables
    <2>4. SameSteps(s, x.s)
      BY <2>2 DEF Db!Ret, SameSteps, Tables
    <2> QED
      BY <2>3, <2>4 DEF x
  <1>17. CASE step \in {"publish", "publish policy", "session"}
    <2>1. x = Db!Ret(s, "ok")
      BY <1>17, Zenon DEF Exec
    <2>2. x.s = s
      BY <2>1 DEF Db!Ret
    <2> QED
      BY <1>0, <2>2
  <1> QED
    BY <1>1, <1>2, <1>3, <1>4, <1>5, <1>6, <1>7, <1>8, <1>9, <1>10, <1>11, <1>12, <1>13, <1>14, <1>15, <1>16, <1>17 DEF Harmless, AdminCalls

\* A revocation concerns the certificates of its device.
CertsKept(s, z, d) ==
  /\ DOMAIN z.cert = DOMAIN s.cert
  /\ \A f \in DOMAIN z.cert : /\ {"dev", "revoked"} \subseteq DOMAIN z.cert[f]
                              /\ z.cert[f].dev = s.cert[f].dev
                              /\ z.cert[f].dev # d /\ ~ s.cert[f].revoked => ~ z.cert[f].revoked

\* RevokeDeviceCerts revokes the certificates of d and changes nothing else.
LEMMA RevokeCalls ==
    ASSUME NEW s, DOMAIN s = Tables, \A f \in DOMAIN s.cert : {"dev", "revoked"} \subseteq DOMAIN s.cert[f], NEW d
    PROVE  LET z == Db!RevokeDeviceCerts(s, d).s
           IN  /\ DOMAIN z = Tables /\ z.dev = s.dev /\ z.adm = s.adm /\ z.cmd = s.cmd /\ z.wipe = s.wipe /\ z.ev = s.ev
               /\ CertsKept(s, z, d)
  <1> DEFINE c == [fp \in DOMAIN s.cert |-> [s.cert[fp] EXCEPT !.revoked = @ \/ s.cert[fp].dev = d]]
             z == [s EXCEPT !.cert = c]
  <1>1. Db!RevokeDeviceCerts(s, d) = Db!Ret(z, "ok")
    BY Zenon DEF Db!RevokeDeviceCerts
  <1>2. Db!RevokeDeviceCerts(s, d).s = z
    <2> HIDE DEF z
    <2> QED
      BY <1>1 DEF Db!Ret
  <1>3. \A f \in DOMAIN s.cert : DOMAIN c[f] = DOMAIN s.cert[f] /\ c[f].dev = s.cert[f].dev
    OBVIOUS
  <1>4. ASSUME NEW f \in DOMAIN s.cert, s.cert[f].dev # d, ~ s.cert[f].revoked PROVE ~ c[f].revoked
    <2>1. c[f] = [s.cert[f] EXCEPT !.revoked = s.cert[f].revoked \/ s.cert[f].dev = d]
      OBVIOUS
    <2>2. "revoked" \in DOMAIN s.cert[f]
      OBVIOUS
    <2>3. c[f].revoked = (s.cert[f].revoked \/ s.cert[f].dev = d)
      BY <2>1, <2>2, Zenon
    <2> QED
      BY <1>4, <2>3, Zenon
  <1> HIDE DEF c
  <1>5. DOMAIN z = Tables /\ z.dev = s.dev /\ z.adm = s.adm /\ z.cmd = s.cmd /\ z.wipe = s.wipe /\ z.ev = s.ev /\ z.cert = c
    BY DEF Tables
  <1>6. DOMAIN c = DOMAIN s.cert
    BY DEF c
  <1> HIDE DEF z
  <1>7. CertsKept(s, z, d)
    BY <1>3, <1>4, <1>5, <1>6 DEF CertsKept
  <1> QED
    BY <1>2, <1>5, <1>7

\* EraseDeviceData deletes the rows of d and revokes its certificates.
LEMMA EraseCalls ==
    ASSUME NEW s, DOMAIN s = Tables, \A f \in DOMAIN s.cert : {"dev", "revoked"} \subseteq DOMAIN s.cert[f], NEW d
    PROVE  LET z == Db!EraseDeviceData(s, d).s
           IN  /\ DOMAIN z = Tables /\ z.dev = s.dev /\ z.adm = s.adm /\ z.wipe = s.wipe
               /\ z.ev = Db!Without(s.ev, d) /\ z.cmd = Db!Without(s.cmd, d) /\ CertsKept(s, z, d)
  <1> DEFINE c == Db!RevokeDeviceCerts(s, d).s.cert
             z == [s EXCEPT !.ev = Db!Without(@, d), !.cmd = Db!Without(@, d), !.art = Db!Without(@, d), !.cert = c]
  <1>1. \E v : Db!EraseDeviceData(s, d) = Db!Ret(z, v)
    BY Zenon DEF Db!EraseDeviceData
  <1>2. Db!EraseDeviceData(s, d).s = z
    <2> HIDE DEF z
    <2> QED
      BY <1>1 DEF Db!Ret
  <1>3. CertsKept(s, Db!RevokeDeviceCerts(s, d).s, d)
    BY RevokeCalls
  <1> HIDE DEF c
  <1>4. /\ DOMAIN z = Tables /\ z.dev = s.dev /\ z.adm = s.adm /\ z.wipe = s.wipe /\ z.cert = c
        /\ z.ev = Db!Without(s.ev, d) /\ z.cmd = Db!Without(s.cmd, d)
    BY DEF Tables
  <1> HIDE DEF z
  <1>5. CertsKept(s, z, d)
    BY <1>3, <1>4 DEF CertsKept, c
  <1> QED
    BY <1>2, <1>4, <1>5

\* The command a request queues.
Queued(q) == [dev |-> q.on, type |-> CommandOf[q.op], by |-> q.by]

\* EnqueueCommand adds the command of the request at the end.
LEMMA EnqueueCalls ==
    ASSUME NEW s, DOMAIN s = Tables, NEW q, NEW id
    PROVE  LET x == Exec(s, q, "enqueue", id)
               z == x.s
           IN  /\ DOMAIN z = Tables /\ z.dev = s.dev /\ z.adm = s.adm /\ z.wipe = s.wipe /\ z.cert = s.cert /\ z.ev = s.ev
               /\ z.cmd = Append(s.cmd, Queued(q)) /\ x.r = "ok"
  <1> DEFINE type == IF q.op = "WipeDevice" THEN "WIPE" ELSE CommandOf[q.op]
             z == [s EXCEPT !.cmd = Append(s.cmd, Queued(q))]
  <1>1. Exec(s, q, "enqueue", id) = Db!EnqueueCommand(s, q.on, type, q.by)
    BY Zenon DEF Exec
  <1>2. type = CommandOf[q.op]
    BY DEF CommandOf
  <1>3. Db!EnqueueCommand(s, q.on, CommandOf[q.op], q.by) = Db!Ret(z, "ok")
    BY DEF Db!EnqueueCommand, Queued
  <1> HIDE DEF type, z
  <1>4. Exec(s, q, "enqueue", id).s = z /\ Exec(s, q, "enqueue", id).r = "ok"
    BY <1>1, <1>2, <1>3 DEF Db!Ret
  <1>5. DOMAIN z = Tables /\ z.dev = s.dev /\ z.adm = s.adm /\ z.wipe = s.wipe /\ z.cert = s.cert /\ z.ev = s.ev
    BY DEF z, Tables
  <1>6. z.cmd = Append(s.cmd, Queued(q))
    BY DEF z, Tables
  <1> QED
    BY <1>4, <1>5, <1>6

\* The table of pending wipes changes alone.
OnlyWipe(s, z) ==
  /\ DOMAIN z = Tables /\ z.dev = s.dev /\ z.adm = s.adm /\ z.cmd = s.cmd /\ z.cert = s.cert /\ z.ev = s.ev

\* SavePendingWipe records the last administrator who asked.
LEMMA SaveWipeCalls ==
    ASSUME NEW s, DOMAIN s = Tables, NEW d, NEW a
    PROVE  LET x == Db!SavePendingWipe(s, d, a)
           IN  /\ OnlyWipe(s, x.s) /\ DOMAIN x.s.wipe = DOMAIN s.wipe \cup {d} /\ x.r = "ok"
               /\ \A e \in DOMAIN x.s.wipe : x.s.wipe[e] = IF e = d THEN a ELSE s.wipe[e]
  <1> DEFINE v == Db!Put(s.wipe, d, a)
             z == [s EXCEPT !.wipe = v]
  <1>1. Db!SavePendingWipe(s, d, a) = Db!Ret(z, "ok")
    BY DEF Db!SavePendingWipe
  <1>2. DOMAIN v = DOMAIN s.wipe \cup {d} /\ \A e \in DOMAIN v : v[e] = IF e = d THEN a ELSE s.wipe[e]
    BY DEF Db!Put
  <1> HIDE DEF v
  <1>3. OnlyWipe(s, z) /\ z.wipe = v
    BY DEF OnlyWipe, Tables
  <1> HIDE DEF z
  <1>4. Db!SavePendingWipe(s, d, a).s = z /\ Db!SavePendingWipe(s, d, a).r = "ok"
    BY <1>1 DEF Db!Ret
  <1> QED
    BY <1>2, <1>3, <1>4

\* DeletePendingWipe removes the request of d alone.
LEMMA DropWipeCalls ==
    ASSUME NEW s, DOMAIN s = Tables, NEW d
    PROVE  LET x == Db!DeletePendingWipe(s, d)
           IN  /\ OnlyWipe(s, x.s) /\ DOMAIN x.s.wipe = DOMAIN s.wipe \ {d} /\ x.r = "ok"
               /\ \A e \in DOMAIN x.s.wipe : x.s.wipe[e] = s.wipe[e]
  <1> DEFINE v == Db!Restrict(s.wipe, DOMAIN s.wipe \ {d})
             z == [s EXCEPT !.wipe = v]
  <1>1. Db!DeletePendingWipe(s, d) = Db!Ret(z, "ok")
    BY DEF Db!DeletePendingWipe
  <1>2. DOMAIN v = DOMAIN s.wipe \ {d} /\ \A e \in DOMAIN v : v[e] = s.wipe[e]
    BY DEF Db!Restrict
  <1> HIDE DEF v
  <1>3. OnlyWipe(s, z) /\ z.wipe = v
    BY DEF OnlyWipe, Tables
  <1> HIDE DEF z
  <1>4. Db!DeletePendingWipe(s, d).s = z /\ Db!DeletePendingWipe(s, d).r = "ok"
    BY <1>1 DEF Db!Ret
  <1> QED
    BY <1>2, <1>3, <1>4

\* A claim succeeds on another administrator's request and removes it; otherwise nothing changes.
LEMMA ClaimCalls ==
    ASSUME NEW s, DOMAIN s = Tables, NEW q, NEW id
    PROVE  LET x == Exec(s, q, "ConsumePendingWipe", id)
           IN  \/ x.s = s /\ x.r = "forbidden"
               \/ /\ q.on \in DOMAIN s.wipe /\ s.wipe[q.on] # q.by /\ x.r = "ok"
                  /\ x.s = Db!DeletePendingWipe(s, q.on).s
  <1> DEFINE y == Db!ConsumePendingWipe(s, q.on, q.by)
             x == Exec(s, q, "ConsumePendingWipe", id)
  <1>1. x = Db!Ret(y.s, IF y.r[2] THEN "ok" ELSE "forbidden")
    BY Zenon DEF Exec
  <1>2. CASE q.on \notin DOMAIN s.wipe
    <2>1. y = Db!Ret(s, <<"", FALSE>>)
      BY <1>2, Zenon DEF Db!ConsumePendingWipe
    <2> HIDE DEF y, x
    <2>2. y.s = s /\ ~ y.r[2]
      BY <2>1 DEF Db!Ret
    <2>3. x = Db!Ret(s, "forbidden")
      BY <1>1, <2>2, Zenon
    <2> QED
      BY <2>3 DEF Db!Ret, x
  <1>3. CASE q.on \in DOMAIN s.wipe /\ s.wipe[q.on] = q.by
    <2>1. y = Db!Ret(s, <<q.by, FALSE>>)
      BY <1>3, Zenon DEF Db!ConsumePendingWipe
    <2> HIDE DEF y, x
    <2>2. y.s = s /\ ~ y.r[2]
      BY <2>1 DEF Db!Ret
    <2>3. x = Db!Ret(s, "forbidden")
      BY <1>1, <2>2, Zenon
    <2> QED
      BY <2>3 DEF Db!Ret, x
  <1>4. CASE q.on \in DOMAIN s.wipe /\ s.wipe[q.on] # q.by
    <2>1. y = Db!Ret(Db!DeletePendingWipe(s, q.on).s, <<s.wipe[q.on], TRUE>>)
      BY <1>4, Zenon DEF Db!ConsumePendingWipe
    <2> DEFINE w == Db!DeletePendingWipe(s, q.on).s
    <2> HIDE DEF y, x, w
    <2>2. y.s = w /\ y.r[2]
      BY <2>1 DEF Db!Ret, w
    <2>3. x = Db!Ret(w, "ok")
      BY <1>1, <2>2, Zenon
    <2>4. x.s = w /\ x.r = "ok"
      BY <2>3 DEF Db!Ret
    <2> QED
      BY <1>4, <2>4 DEF x, w
  <1> QED
    BY <1>2, <1>3, <1>4

\* A code is used up when it is later than the last one.
LEMMA CodeCalls ==
    ASSUME NEW s, DOMAIN s = Tables, HasSteps(s), NEW q, NEW id
    PROVE  LET x == Exec(s, q, "ConsumeTOTPStep", id)
           IN  \/ x.s = s /\ x.r = "forbidden"
               \/ /\ q.by \in DOMAIN s.adm /\ q.code.step > s.adm[q.by].step /\ x.r = "ok"
                  /\ Frame(s, x.s) /\ DOMAIN x.s.adm = DOMAIN s.adm
                  /\ \A a \in DOMAIN s.adm : /\ "step" \in DOMAIN x.s.adm[a]
                                             /\ x.s.adm[a].step = IF a = q.by THEN q.code.step ELSE s.adm[a].step
  <1> DEFINE y == Db!ConsumeTOTPStep(s, q.by, q.code.step)
             x == Exec(s, q, "ConsumeTOTPStep", id)
             z == [s EXCEPT !.adm[q.by].step = q.code.step]
  <1>1. x = Db!Ret(y.s, IF y.r THEN "ok" ELSE "forbidden")
    BY Zenon DEF Exec
  <1>2. CASE q.by \in DOMAIN s.adm /\ q.code.step > s.adm[q.by].step
    <2>1. y = Db!Ret(z, TRUE)
      BY <1>2, Zenon DEF Db!ConsumeTOTPStep
    <2>2. /\ Frame(s, z) /\ DOMAIN z.adm = DOMAIN s.adm
          /\ \A a \in DOMAIN s.adm : /\ "step" \in DOMAIN z.adm[a]
                                     /\ z.adm[a].step = IF a = q.by THEN q.code.step ELSE s.adm[a].step
      BY DEF Frame, HasSteps, Tables
    <2> HIDE DEF y, x, z
    <2>3. y.s = z /\ y.r
      BY <2>1 DEF Db!Ret
    <2>4. x = Db!Ret(z, "ok")
      BY <1>1, <2>3, Zenon
    <2>5. x.s = z /\ x.r = "ok"
      BY <2>4 DEF Db!Ret
    <2> QED
      BY <1>2, <2>2, <2>5 DEF x
  <1>3. CASE ~ (q.by \in DOMAIN s.adm /\ q.code.step > s.adm[q.by].step)
    <2>1. y = Db!Ret(s, FALSE)
      BY <1>3, Zenon DEF Db!ConsumeTOTPStep
    <2> HIDE DEF y, x
    <2>2. y.s = s /\ ~ y.r
      BY <2>1 DEF Db!Ret
    <2>3. x = Db!Ret(s, "forbidden")
      BY <1>1, <2>2, Zenon
    <2>4. x.s = s /\ x.r = "forbidden"
      BY <2>3 DEF Db!Ret
    <2> QED
      BY <2>4 DEF x
  <1> QED
    BY <1>2, <1>3

\* MFA is switched off: the step starts again, and no one else's changes.
LEMMA DisableCalls ==
    ASSUME NEW s, DOMAIN s = Tables, HasSteps(s), NEW q, NEW id
    PROVE  LET z == Exec(s, q, "DisableMFA", id).s IN Frame(s, z) /\ HasSteps(z)
  <1> DEFINE x == Exec(s, q, "DisableMFA", id)
             a == q.by
             z1 == [s EXCEPT !.adm[a].secret = ""]
             z2 == [z1 EXCEPT !.adm[a].pending = ""]
             z3 == [z2 EXCEPT !.adm[a].enrolled = FALSE]
             z4 == [z3 EXCEPT !.adm[a].step = 0]
  <1>1. x = Db!DisableMFA(s, a)
    BY Zenon DEF Exec
  <1>2. x = Db!Ret(s, "ok") \/ x = Db!Ret(z4, "ok")
    BY <1>1, Zenon DEF Db!DisableMFA
  <1> HIDE DEF x, a
  <1>3. Frame(s, z1) /\ HasSteps(z1)
    BY DEF Frame, HasSteps, Tables
  <1> HIDE DEF z1
  <1>4. Frame(z1, z2) /\ HasSteps(z2)
    BY <1>3 DEF Frame, HasSteps, Tables
  <1> HIDE DEF z2
  <1>5. Frame(z2, z3) /\ HasSteps(z3)
    BY <1>4 DEF Frame, HasSteps, Tables
  <1> HIDE DEF z3
  <1>6. Frame(z3, z4) /\ HasSteps(z4)
    BY <1>5 DEF Frame, HasSteps, Tables
  <1> HIDE DEF z4
  <1>7. x.s = s \/ x.s = z4
    BY <1>2 DEF Db!Ret
  <1>8. Frame(s, x.s) /\ HasSteps(x.s)
    BY <1>3, <1>4, <1>5, <1>6, <1>7 DEF Frame
  <1> QED
    BY <1>8 DEF x

-----------------------------------------------------------------------------
(* Sequences that grow and shrink *)

\* Append keeps every element in its place and adds one.
LEMMA Grows ==
    ASSUME NEW q, IsSeq(q), NEW e
    PROVE  LET w == Append(q, e)
           IN  /\ IsSeq(w) /\ Len(q) \in Nat /\ DOMAIN q = 1 .. Len(q) /\ DOMAIN w = DOMAIN q \cup {Len(q) + 1}
               /\ Len(q) + 1 \notin DOMAIN q /\ w[Len(q) + 1] = e /\ \A i \in DOMAIN q : w[i] = q[i]
  <1> DEFINE w == Append(q, e)
  <1>1. PICK S : q \in Seq(S)
    BY DEF IsSeq
  <1> DEFINE T == S \cup {e}
  <1>2. q \in Seq(T)
    <2>1. Len(q) \in Nat /\ q \in [1 .. Len(q) -> T]
      BY <1>1
    <2> HIDE DEF T
    <2> QED
      BY <2>1
  <1>3. e \in T
    OBVIOUS
  <1> HIDE DEF T
  <1>4. /\ w \in Seq(T) /\ Len(w) = Len(q) + 1 /\ DOMAIN w = 1 .. Len(w) /\ w[Len(q) + 1] = e
        /\ \A i \in 1 .. Len(q) : w[i] = q[i]
    BY <1>2, <1>3, AppendProperties
  <1>5. Len(q) \in Nat /\ DOMAIN q = 1 .. Len(q)
    BY <1>1
  <1>6. IsSeq(w)
    BY <1>4 DEF IsSeq
  <1> QED
    BY <1>4, <1>5, <1>6

\* What is left of a run after its first call.
LEMMA Rests ==
    ASSUME NEW w \in Seq(Calls), w # <<>>
    PROVE  /\ Head(w) = w[1] /\ w[1] \in Calls /\ 1 \in 1 .. Len(w)
           /\ Tail(w) \in Seq(Calls) /\ \A i \in 1 .. Len(Tail(w)) : i + 1 \in 1 .. Len(w) /\ Tail(w)[i] = w[i + 1]
  <1>1. Len(w) \in Nat /\ Len(w) > 0
    BY EmptySeq
  <1>2. Tail(w) \in Seq(Calls) /\ Len(Tail(w)) = Len(w) - 1 /\ \A i \in 1 .. Len(Tail(w)) : Tail(w)[i] = w[i + 1]
    BY HeadTailProperties
  <1> QED
    BY <1>1, <1>2

\* An approval goes from the claim to the command, and queues it once.
LEMMA ApproveRests ==
    ASSUME NEW w \in ApproveRuns, w # <<>>
    PROVE  /\ w[1] \in {"audit", "enqueue", "ConsumePendingWipe"}
           /\ w[1] = "enqueue" => Tail(w) = <<"audit">>
           /\ w[1] = "ConsumePendingWipe" => Tail(w) = <<"enqueue", "audit">>
           /\ w[1] = "audit" => Tail(w) \in {<<>>, <<"ConsumePendingWipe", "enqueue", "audit">>}
           /\ Tail(w) \in ApproveRuns
  <1>1. CASE w = <<"audit">>
    <2>1. Tail(w) = <<>> /\ w[1] = "audit"
      BY <1>1
    <2> QED
      BY <2>1 DEF ApproveRuns, ApproveStarts
  <1>2. CASE w = <<"enqueue", "audit">>
    <2>1. Tail(w) = <<"audit">> /\ w[1] = "enqueue"
      BY <1>2
    <2> QED
      BY <2>1 DEF ApproveRuns, ApproveStarts
  <1>3. CASE w = <<"ConsumePendingWipe", "enqueue", "audit">>
    <2>1. Tail(w) = <<"enqueue", "audit">> /\ w[1] = "ConsumePendingWipe"
      BY <1>3
    <2> QED
      BY <2>1 DEF ApproveRuns, ApproveStarts
  <1>4. CASE w = <<"audit", "ConsumePendingWipe", "enqueue", "audit">>
    <2>1. Tail(w) = <<"ConsumePendingWipe", "enqueue", "audit">> /\ w[1] = "audit"
      BY <1>4
    <2> QED
      BY <2>1 DEF ApproveRuns, ApproveStarts
  <1> QED
    BY <1>1, <1>2, <1>3, <1>4 DEF ApproveRuns, ApproveStarts

-----------------------------------------------------------------------------
(* The requests stay ready *)

\* An idle slot has no work.
LEMMA IdleFields == Idle.op = "" /\ Idle.run = <<>> /\ Idle.rest = <<>>
  BY Zenon DEF Idle

\* The answer to a request, or the request with what is left of its run.
LEMMA ReadyRests ==
    ASSUME NEW q, Ready(q), q.run # <<>>, NEW w \in {<<>>, Tail(q.run)}
    PROVE  /\ Ready(Answered([q EXCEPT !.run = w]))
           /\ DOMAIN q = ReqFields /\ q.run \in Seq(Calls) /\ q.run[1] \in Calls /\ Head(q.run) = q.run[1] /\ Cleared(q, q.run[1])
  <1>0. q # Idle
    BY IdleFields
  <1>1. /\ DOMAIN q = ReqFields
        /\ q.op \in MFAOps \cup WipeOps \cup OtherOps
        /\ fam = "wipe" <=> q.op \in WipeOps
        /\ fam = "mfa" <=> q.op \in MFAOps
        /\ fam = "mfa" => q.code.step \in Nat
        /\ q.run \in Seq(Calls)
        /\ \A i \in 1 .. Len(q.run) : Cleared(q, q.run[i])
        /\ q.op = "ApproveWipe" => q.run \in ApproveRuns
    BY <1>0 DEF Ready
  <1>2. /\ Head(q.run) = q.run[1] /\ q.run[1] \in Calls /\ 1 \in 1 .. Len(q.run)
        /\ Tail(q.run) \in Seq(Calls)
        /\ \A i \in 1 .. Len(Tail(q.run)) : i + 1 \in 1 .. Len(q.run) /\ Tail(q.run)[i] = q.run[i + 1]
    BY <1>1, Rests
  <1> DEFINE z == [q EXCEPT !.run = w]
  <1>3. w \in Seq(Calls) /\ \A i \in 1 .. Len(w) : Cleared(q, w[i])
    <2>1. CASE w = <<>>
      BY <2>1
    <2>2. CASE w = Tail(q.run)
      BY <1>1, <1>2, <2>2
    <2> QED
      BY <2>1, <2>2
  <1>4. q.op = "ApproveWipe" => w \in ApproveRuns
    <2>1. <<>> \in ApproveRuns
      BY DEF ApproveRuns, ApproveStarts
    <2> QED
      BY <1>1, <2>1, ApproveRests
  <1>5. DOMAIN z = ReqFields /\ z.op = q.op /\ z.on = q.on /\ z.code = q.code /\ z.run = w
    BY <1>1 DEF ReqFields
  <1> HIDE DEF z
  <1>6. \A i \in 1 .. Len(w) : Cleared(z, w[i])
    BY <1>3, <1>5 DEF Cleared
  <1>7. Ready(z)
    BY <1>1, <1>3, <1>4, <1>5, <1>6 DEF Ready
  <1>8. Ready(Answered(z))
    BY <1>7 DEF Answered, Ready
  <1> QED
    BY <1>1, <1>2, <1>8 DEF z

\* An approval never starts with the command.
LEMMA StartsUnclaimed ==
    ASSUME NEW q, q.op = "ApproveWipe" => q.run \in ApproveStarts
    PROVE  ~ Claimed(q)
  <1>1. \A w \in ApproveStarts : w # <<>> => w[1] # "enqueue"
    BY DEF ApproveStarts
  <1> QED
    BY <1>1 DEF Claimed

\* A cleared plan makes a ready slot that claims nothing.
LEMMA StartReady ==
    ASSUME NEW s, NEW r, Asked(r), NEW plan, Clears(s, r, plan), r.op = "ApproveWipe" => plan.run \in ApproveStarts, NEW rest
    PROVE  LET q == Started(r, plan, rest)
           IN  Ready(q) /\ ~ Claimed(q) /\ q.op = r.op /\ q.by = r.by /\ q.run = plan.run
  <1> DEFINE q == Started(r, plan, rest)
  <1>1. DOMAIN q = ReqFields /\ q.op = r.op /\ q.by = r.by /\ q.on = r.on /\ q.code = r.code /\ q.run = plan.run
    BY StartedFields DEF Asked
  <1> HIDE DEF q
  <1>2. q.run \in Seq(Calls) /\ \A i \in 1 .. Len(q.run) : Cleared(q, q.run[i])
    BY <1>1 DEF Clears, Cleared
  <1>3. Ready(q)
    BY <1>1, <1>2 DEF Ready, Asked, ApproveRuns
  <1>4. ~ Claimed(q)
    BY <1>1, StartsUnclaimed
  <1> QED
    BY <1>1, <1>3, <1>4 DEF q

\* A request of the family starts with the work its handler gives it.
LEMMA AdmitReady ==
    ASSUME ConfInv, NEW r \in Requests(fam)
    PROVE  LET plan == Handler(db, conf, r)
               q == Started(r, plan, <<>>)
           IN  Ready(q) /\ ~ Claimed(q) /\ q.op = r.op /\ q.by = r.by /\ q.run = plan.run /\ Clears(db, r, plan)
  <1> DEFINE plan == Handler(db, conf, r)
  <1>1. Asked(r)
    BY RequestFacts DEF ConfInv
  <1>2. Clears(db, r, plan)
    BY <1>1, HandlerClears DEF Asked
  <1>3. r.op = "ApproveWipe" => plan.run \in ApproveStarts
    BY ApproveShape
  <1> DEFINE none == <<>>
             q == Started(r, plan, none)
  <1> HIDE DEF plan, none
  <1>4. Ready(q) /\ ~ Claimed(q) /\ q.op = r.op /\ q.by = r.by /\ q.run = plan.run
    BY <1>1, <1>2, <1>3, StartReady
  <1> HIDE DEF q
  <1> QED
    BY <1>2, <1>4 DEF q, plan, none

\* A bulk request starts with its devices and no work.
LEMMA BulkReady ==
    ASSUME ConfInv, NEW r \in Bulk(fam), NEW rest
    PROVE  LET q == Started(r, [t |-> "", run |-> <<>>], rest) IN Ready(q) /\ ~ Claimed(q) /\ q.run = <<>>
  <1> DEFINE plan == [t |-> "", run |-> <<>>]
  <1>1. Asked(r)
    BY RequestFacts DEF ConfInv
  <1>2. plan.run = <<>>
    BY Zenon
  <1> HIDE DEF plan
  <1>3. Clears(db, r, plan) /\ plan.run \in ApproveStarts
    BY <1>2 DEF Clears, ApproveStarts
  <1>4. LET q == Started(r, plan, rest) IN Ready(q) /\ ~ Claimed(q) /\ q.run = <<>>
    BY <1>1, <1>2, <1>3, StartReady
  <1> QED
    BY <1>4 DEF plan

\* A bulk request at its next device.
LEMMA NextReady ==
    ASSUME ConfInv, NEW q, Ready(q), q.run = <<>>, q.rest # <<>>
    PROVE  LET r == [q EXCEPT !.on = Head(q.rest)]
               plan == Handler(db, conf, r)
               z == Answered([r EXCEPT !.run = plan.run, !.t = plan.t, !.rest = Tail(@)])
           IN  /\ Ready(z) /\ ~ Claimed(z) /\ Clears(db, r, plan) /\ r.op = q.op /\ r.by = q.by
               /\ z.run # <<>> => z.op = q.op /\ z.by = q.by /\ z.run = plan.run
  <1> DEFINE r == [q EXCEPT !.on = Head(q.rest)]
             plan == Handler(db, conf, r)
             w == [r EXCEPT !.run = plan.run, !.t = plan.t, !.rest = Tail(@)]
  <1>1. /\ DOMAIN q = ReqFields
        /\ q.op \in MFAOps \cup WipeOps \cup OtherOps
        /\ fam = "wipe" <=> q.op \in WipeOps
        /\ fam = "mfa" <=> q.op \in MFAOps
        /\ fam = "mfa" => q.code.step \in Nat
    BY IdleFields DEF Ready
  <1>2. DOMAIN r = ReqFields /\ r.op = q.op /\ r.by = q.by /\ r.code = q.code
    BY <1>1 DEF ReqFields
  <1> HIDE DEF r
  <1>3. Clears(db, r, plan)
    BY <1>1, <1>2, HandlerClears
  <1>4. r.op = "ApproveWipe" => plan.run \in ApproveStarts
    BY ApproveShape
  <1> HIDE DEF plan
  <1>5. DOMAIN w = ReqFields /\ w.op = r.op /\ w.by = r.by /\ w.on = r.on /\ w.code = r.code /\ w.run = plan.run
    BY <1>2 DEF ReqFields
  <1> HIDE DEF w
  <1>6. w.run \in Seq(Calls) /\ \A i \in 1 .. Len(w.run) : Cleared(w, w.run[i])
    BY <1>3, <1>5 DEF Clears, Cleared
  <1>7. Ready(w)
    BY <1>1, <1>2, <1>4, <1>5, <1>6 DEF Ready, ApproveRuns
  <1>8. ~ Claimed(w)
    BY <1>4, <1>5, StartsUnclaimed
  <1>9. Answered(w) = Idle \/ Answered(w) = w
    BY DEF Answered
  <1>10. Ready(Idle) /\ ~ Claimed(Idle) /\ Idle.run = <<>>
    BY IdleFields DEF Ready, Claimed
  <1>11. Ready(Answered(w)) /\ ~ Claimed(Answered(w))
    BY <1>7, <1>8, <1>9, <1>10
  <1>12. Answered(w).run # <<>> => Answered(w).op = q.op /\ Answered(w).by = q.by /\ Answered(w).run = plan.run
    BY <1>2, <1>5, <1>9, <1>10
  <1> QED
    BY <1>2, <1>3, <1>11, <1>12 DEF r, plan, w

\* Every step leaves the family and the settings; one slot changes.
LEMMA StepFrame ==
    ASSUME ConfInv, ReqInv, NEW p \in Slots, Admit(p) \/ NextDevice(p) \/ Step(p) \/ Fail(p)
    PROVE  /\ fam' = fam /\ conf' = conf
           /\ DOMAIN req' = Slots /\ Ready(req'[p])
           /\ \A o \in Slots : o # p => req'[o] = req[o]
           /\ ~ Step(p) => ~ Claimed(req'[p]) /\ UNCHANGED <<db, asked, accepted>>
  <1>0. Ready(req[p]) /\ DOMAIN req = Slots
    BY DEF ReqInv
  <1>1. CASE Admit(p)
    <2>1. UNCHANGED <<fam, conf, db, asked, accepted>>
      BY <1>1 DEF Admit
    <2>2. PICK z : req' = [req EXCEPT ![p] = z] /\ Ready(z) /\ ~ Claimed(z)
      <3>1. CASE \E r \in Requests(fam) : req' = [req EXCEPT ![p] = Started(r, Handler(db, conf, r), <<>>)]
        BY <3>1, AdmitReady
      <3>2. CASE \E r \in Bulk(fam) : \E rest \in handleBulkAction(db, r.by, "x") :
                    req' = [req EXCEPT ![p] = Started(r, [t |-> "", run |-> <<>>], rest)]
        BY <3>2, BulkReady
      <3> QED
        BY <1>1, <3>1, <3>2, Zenon DEF Admit
    <2> QED
      BY <1>0, <2>1, <2>2
  <1>2. CASE NextDevice(p)
    <2>1. UNCHANGED <<fam, conf, db, asked, accepted>>
      BY <1>2 DEF NextDevice
    <2>2. PICK z : req' = [req EXCEPT ![p] = z] /\ Ready(z) /\ ~ Claimed(z)
      <3>1. req[p].run = <<>> /\ req[p].rest # <<>>
        BY <1>2 DEF NextDevice
      <3>2. LET r == [req[p] EXCEPT !.on = Head(req[p].rest)]
                plan == Handler(db, conf, r)
                z == Answered([r EXCEPT !.run = plan.run, !.t = plan.t, !.rest = Tail(@)])
            IN  Ready(z) /\ ~ Claimed(z)
        BY <1>0, <3>1, NextReady
      <3> QED
        BY <1>2, <3>2, Zenon DEF NextDevice
    <2> QED
      BY <1>0, <2>1, <2>2
  <1>3. CASE Step(p)
    <2>1. UNCHANGED <<fam, conf>>
      BY <1>3 DEF Step
    <2>2. PICK z : req' = [req EXCEPT ![p] = z] /\ Ready(z)
      <3>1. PICK w \in {<<>>, Tail(req[p].run)} : req' = [req EXCEPT ![p] = Answered([req[p] EXCEPT !.run = w])]
        BY <1>3, Zenon DEF Step
      <3>2. req[p].run # <<>>
        BY <1>3 DEF Step
      <3>3. Ready(Answered([req[p] EXCEPT !.run = w]))
        BY <1>0, <3>2, ReadyRests
      <3> QED
        BY <3>1, <3>3
    <2> QED
      BY <1>0, <1>3, <2>1, <2>2
  <1>4. CASE Fail(p)
    <2>1. UNCHANGED <<fam, conf, db, asked, accepted>>
      BY <1>4 DEF Fail
    <2>2. req[p].run # <<>>
      BY <1>4 DEF Fail
    <2>3. PICK w \in {<<>>, Tail(req[p].run)} :
               /\ req' = [req EXCEPT ![p] = Answered([req[p] EXCEPT !.run = w])]
               /\ w = IF Head(req[p].run) \in {"audit", "reflect"} THEN Tail(req[p].run) ELSE <<>>
      BY <1>4, Zenon DEF Fail
    <2> DEFINE y == [req[p] EXCEPT !.run = w]
               z == Answered(y)
    <2>4. Ready(z) /\ DOMAIN req[p] = ReqFields /\ req[p].run \in Seq(Calls) /\ Head(req[p].run) = req[p].run[1]
      BY <1>0, <2>2, ReadyRests
    <2>5. y.op = req[p].op /\ y.run = w
      BY <2>4 DEF ReqFields
    <2>6. ~ Claimed(y)
      <3>1. CASE req[p].op = "ApproveWipe"
        <4>1. req[p].run \in ApproveRuns
          BY <1>0, <2>2, <3>1, IdleFields DEF Ready
        <4>2. w \in ApproveStarts
          <5>1. <<>> \in ApproveStarts /\ <<"ConsumePendingWipe", "enqueue", "audit">> \in ApproveStarts
            BY DEF ApproveStarts
          <5>2. CASE req[p].run[1] = "audit"
            BY <2>2, <2>3, <2>4, <4>1, <5>1, <5>2, ApproveRests
          <5>3. CASE req[p].run[1] # "audit"
            <6>1. req[p].run[1] # "reflect"
              BY <2>2, <4>1, ApproveRests
            <6> QED
              BY <2>3, <2>4, <5>1, <5>3, <6>1
          <5> QED
            BY <5>2, <5>3
        <4> HIDE DEF y
        <4> QED
          BY <2>5, <4>2, StartsUnclaimed
      <3>2. CASE req[p].op # "ApproveWipe"
        BY <2>5, <3>2 DEF Claimed
      <3> QED
        BY <3>1, <3>2
    <2>7. ~ Claimed(z)
      <3>1. ~ Claimed(Idle)
        BY IdleFields DEF Claimed
      <3> HIDE DEF y
      <3> QED
        BY <2>6, <3>1 DEF Answered
    <2> HIDE DEF z
    <2> QED
      BY <1>0, <2>1, <2>3, <2>4, <2>7 DEF z
  <1> QED
    BY <1>1, <1>2, <1>3, <1>4

\* A slot stays ready when the family and the settings stay.
LEMMA ReqStep ==
    ASSUME ConfInv, ReqInv, [Next]_vars
    PROVE  ReqInv' /\ ConfInv'
  <1>1. fam' = fam /\ conf' = conf /\ DOMAIN req' = Slots /\ \A o \in Slots : Ready(req'[o])
    <2>1. CASE UNCHANGED vars
      BY <2>1 DEF vars, ReqInv
    <2>2. CASE Next
      <3>1. PICK p \in Slots : Admit(p) \/ NextDevice(p) \/ Step(p) \/ Fail(p)
        BY <2>2 DEF Next
      <3>2. \A o \in Slots : o # p => Ready(req[o])
        BY DEF ReqInv
      <3> QED
        BY <3>1, <3>2, StepFrame
    <2> QED
      BY <2>1, <2>2
  <1>2. ReqInv'
    <2>1. ASSUME NEW q, NEW step PROVE Cleared(q, step) => Cleared(q, step)'
      BY <1>1 DEF Cleared, Barred
    <2>2. ASSUME NEW o \in Slots PROVE Ready(req[o])'
      <3>1. Ready(req'[o])
        BY <1>1, <2>2
      <3>2. CASE req'[o] = Idle
        BY <3>2 DEF Ready
      <3>3. CASE req'[o] # Idle
        <4>1. \A i \in 1 .. Len(req'[o].run) : Cleared(req[o], req[o].run[i])'
          BY <2>1, <3>1, <3>3 DEF Ready
        <4> QED
          BY <1>1, <3>1, <3>3, <4>1 DEF Ready
      <3> QED
        BY <3>2, <3>3
    <2> QED
      BY <1>1, <2>2 DEF ReqInv
  <1>3. ConfInv'
    BY <1>1 DEF ConfInv
  <1> QED
    BY <1>2, <1>3

-----------------------------------------------------------------------------
(* What a step changes *)

\* A step of p makes the first call of its run.
LEMMA StepParts ==
    ASSUME ReqInv, NEW p \in Slots, Step(p)
    PROVE  LET q == req[p]
               step == q.run[1]
               x == Exec(db, q, step, NewId)
           IN  /\ q.run # <<>> /\ step \in Calls /\ Cleared(q, step) /\ Ready(q) /\ DOMAIN q = ReqFields
               /\ fam = "wipe" <=> q.op \in WipeOps
               /\ fam = "mfa" <=> q.op \in MFAOps
               /\ fam = "mfa" => q.code.step \in Nat
               /\ q.op = "ApproveWipe" => q.run \in ApproveRuns
               /\ fam' = fam /\ conf' = conf /\ db' = x.s
               /\ step = "SavePendingWipe" => asked' = Append(asked, <<q.on, q.by>>)
               /\ step # "SavePendingWipe" => asked' = asked
               /\ step = "ConsumeTOTPStep" /\ x.r = "ok" => accepted' = Append(accepted, <<q.by, q.code.step>>)
               /\ step = "DisableMFA" => accepted' = <<>>
               /\ ~ (step = "ConsumeTOTPStep" /\ x.r = "ok") /\ step # "DisableMFA" => accepted' = accepted
               /\ req'[p] = Answered([q EXCEPT !.run = IF x.r \in Refused THEN <<>> ELSE Tail(q.run)])
  <1> DEFINE q == req[p]
             step == q.run[1]
             x == Exec(db, q, step, NewId)
  <1>1. q.run # <<>> /\ Ready(q)
    BY DEF Step, ReqInv
  <1>2. DOMAIN q = ReqFields /\ q.run \in Seq(Calls) /\ step \in Calls /\ Head(q.run) = step /\ Cleared(q, step)
    BY <1>1, ReadyRests
  <1>3. /\ fam = "wipe" <=> q.op \in WipeOps
        /\ fam = "mfa" <=> q.op \in MFAOps
        /\ fam = "mfa" => q.code.step \in Nat
        /\ q.op = "ApproveWipe" => q.run \in ApproveRuns
    BY <1>1, IdleFields DEF Ready
  <1>4. x = Exec(db, req[p], Head(req[p].run), NewId)
    BY <1>2
  <1>5. /\ db' = x.s
        /\ req' = [req EXCEPT ![p] = Answered([q EXCEPT !.run = IF x.r \in Refused THEN <<>> ELSE Tail(q.run)])]
        /\ asked' = IF Head(q.run) = "SavePendingWipe" THEN Append(asked, <<q.on, q.by>>) ELSE asked
    BY <1>4, Zenon DEF Step
  <1>6. /\ Head(q.run) = "ConsumeTOTPStep" /\ x.r = "ok" => accepted' = Append(accepted, <<q.by, q.code.step>>)
        /\ Head(q.run) = "DisableMFA" => accepted' = <<>>
        /\ ~ (Head(q.run) = "ConsumeTOTPStep" /\ x.r = "ok") /\ Head(q.run) # "DisableMFA" => accepted' = accepted
    <2>1. accepted' = CASE Head(q.run) = "ConsumeTOTPStep" /\ x.r = "ok" -> Append(accepted, <<q.by, q.code.step>>)
                        [] Head(q.run) = "DisableMFA" -> <<>>
                        [] OTHER -> accepted
      BY <1>4, Zenon DEF Step
    <2> HIDE DEF x
    <2> QED
      BY <2>1, Zenon
  <1>7. fam' = fam /\ conf' = conf
    BY DEF Step
  <1>8. req'[p] = Answered([q EXCEPT !.run = IF x.r \in Refused THEN <<>> ELSE Tail(q.run)])
    <2>1. p \in DOMAIN req
      BY DEF ReqInv
    <2> HIDE DEF x
    <2> QED
      BY <1>5, <2>1, Zenon
  <1> HIDE DEF x, step, q
  <1>9. step = "SavePendingWipe" => asked' = Append(asked, <<q.on, q.by>>)
    BY <1>2, <1>5
  <1>10. step # "SavePendingWipe" => asked' = asked
    BY <1>2, <1>5
  <1>11. /\ step = "ConsumeTOTPStep" /\ x.r = "ok" => accepted' = Append(accepted, <<q.by, q.code.step>>)
         /\ step = "DisableMFA" => accepted' = <<>>
         /\ ~ (step = "ConsumeTOTPStep" /\ x.r = "ok") /\ step # "DisableMFA" => accepted' = accepted
    BY <1>2, <1>6
  <1> QED
    BY <1>1, <1>2, <1>3, <1>5, <1>7, <1>8, <1>9, <1>10, <1>11 DEF q, step, x

\* Which tables the call of a step changes.
LEMMA Effects ==
    ASSUME ReqInv, StoreInv, CodeInv, NEW p \in Slots, Step(p)
    PROVE  LET q == req[p]
               step == q.run[1]
           IN  /\ DOMAIN db' = Tables /\ DOMAIN db'.dev = DOMAIN db.dev
               /\ step = "enqueue" => db'.cmd = Append(db.cmd, Queued(q))
               /\ step = "EraseDeviceData" => db'.cmd = Db!Without(db.cmd, q.on) /\ db'.ev = Db!Without(db.ev, q.on)
               /\ step \notin {"enqueue", "EraseDeviceData"} => db'.cmd = db.cmd
               /\ step # "EraseDeviceData" => db'.ev = db.ev
               /\ step \in {"RevokeDeviceCerts", "EraseDeviceData"} => CertsKept(db, db', q.on)
               /\ step \notin {"RevokeDeviceCerts", "EraseDeviceData"} => db'.cert = db.cert
               /\ step \notin {"SavePendingWipe", "ConsumePendingWipe", "DeletePendingWipe"} => db'.wipe = db.wipe
               /\ fam = "mfa" /\ step \notin {"ConsumeTOTPStep", "DisableMFA"} => SameSteps(db, db')
  <1> DEFINE q == req[p]
             step == q.run[1]
             id == NewId
             x == Exec(db, q, step, id)
  <1>1. /\ step \in Calls /\ Cleared(q, step) /\ db' = x.s
        /\ fam = "wipe" <=> q.op \in WipeOps
        /\ fam = "mfa" <=> q.op \in MFAOps
    BY StepParts
  <1>2. DOMAIN db = Tables /\ \A f \in DOMAIN db.cert : {"dev", "revoked"} \subseteq DOMAIN db.cert[f]
    BY DEF StoreInv
  <1>3. fam = "mfa" => HasSteps(db)
    BY DEF CodeInv
  <1> HIDE DEF q, id
  <1>4. CASE step \in Harmless \cup AdminCalls
    <2>1. Frame(db, db') /\ (step \notin AdminCalls => SameSteps(db, db'))
      BY <1>1, <1>2, <1>4, FrameCalls
    <2>2. fam = "mfa" => step \notin AdminCalls
      BY <1>1 DEF Cleared, AdminCalls
    <2>3. step \notin {"enqueue", "EraseDeviceData", "RevokeDeviceCerts", "SavePendingWipe", "ConsumePendingWipe", "DeletePendingWipe"}
      BY <1>4 DEF Harmless, AdminCalls
    <2> HIDE DEF step, x
    <2> QED
      BY <2>1, <2>2, <2>3 DEF Frame, step, q
  <1>5. ASSUME db'.adm = db.adm PROVE SameSteps(db, db')
    BY <1>5 DEF SameSteps
  <1>6. CASE step = "enqueue"
    <2>1. x = Exec(db, q, "enqueue", id)
      BY <1>6
    <2> HIDE DEF x, step
    <2>2. /\ DOMAIN db' = Tables /\ db'.dev = db.dev /\ db'.adm = db.adm /\ db'.wipe = db.wipe /\ db'.cert = db.cert /\ db'.ev = db.ev
          /\ db'.cmd = Append(db.cmd, Queued(q))
      BY <1>1, <1>2, <2>1, EnqueueCalls
    <2> QED
      BY <1>5, <1>6, <2>2 DEF step, q
  <1>7. CASE step = "EraseDeviceData"
    <2>1. x = Db!EraseDeviceData(db, q.on)
      BY <1>7, Zenon DEF Exec
    <2> HIDE DEF x, step
    <2>2. /\ DOMAIN db' = Tables /\ db'.dev = db.dev /\ db'.adm = db.adm /\ db'.wipe = db.wipe
          /\ db'.ev = Db!Without(db.ev, q.on) /\ db'.cmd = Db!Without(db.cmd, q.on) /\ CertsKept(db, db', q.on)
      BY <1>1, <1>2, <2>1, EraseCalls
    <2> QED
      BY <1>5, <1>7, <2>2 DEF step, q
  <1>8. CASE step = "RevokeDeviceCerts"
    <2>1. x = Db!RevokeDeviceCerts(db, q.on)
      BY <1>8, Zenon DEF Exec
    <2> HIDE DEF x, step
    <2>2. /\ DOMAIN db' = Tables /\ db'.dev = db.dev /\ db'.adm = db.adm /\ db'.cmd = db.cmd /\ db'.wipe = db.wipe /\ db'.ev = db.ev
          /\ CertsKept(db, db', q.on)
      BY <1>1, <1>2, <2>1, RevokeCalls
    <2> QED
      BY <1>5, <1>8, <2>2 DEF step, q
  <1>9. CASE step \in {"SavePendingWipe", "ConsumePendingWipe", "DeletePendingWipe"}
    <2>1. OnlyWipe(db, db')
      <3>1. CASE step = "SavePendingWipe"
        <4>1. x = Db!SavePendingWipe(db, q.on, q.by)
          BY <3>1, Zenon DEF Exec
        <4> QED
          BY <1>1, <1>2, <4>1, SaveWipeCalls
      <3>2. CASE step = "DeletePendingWipe"
        <4>1. x = Db!DeletePendingWipe(db, q.on)
          BY <3>2, Zenon DEF Exec
        <4> QED
          BY <1>1, <1>2, <4>1, DropWipeCalls
      <3>3. CASE step = "ConsumePendingWipe"
        <4>1. x = Exec(db, q, "ConsumePendingWipe", id)
          BY <3>3
        <4>2. x.s = db \/ x.s = Db!DeletePendingWipe(db, q.on).s
          BY <1>2, <4>1, ClaimCalls
        <4>3. OnlyWipe(db, db)
          BY <1>2 DEF OnlyWipe
        <4> QED
          BY <1>1, <1>2, <4>2, <4>3, DropWipeCalls
      <3> QED
        BY <1>9, <3>1, <3>2, <3>3
    <2> HIDE DEF step, x
    <2> QED
      BY <1>5, <1>9, <2>1 DEF OnlyWipe, step, q
  <1>10. CASE step = "ConsumeTOTPStep"
    <2>1. HasSteps(db)
      BY <1>1, <1>3, <1>10 DEF Cleared
    <2>2. x = Exec(db, q, "ConsumeTOTPStep", id)
      BY <1>10
    <2>3. Frame(db, db)
      BY <1>2 DEF Frame
    <2>4. Frame(db, db')
      BY <1>1, <1>2, <2>1, <2>2, <2>3, CodeCalls
    <2> HIDE DEF step, x
    <2> QED
      BY <1>10, <2>4 DEF Frame, step, q
  <1>11. CASE step = "DisableMFA"
    <2>1. HasSteps(db)
      BY <1>1, <1>3, <1>11 DEF Cleared
    <2>2. x = Exec(db, q, "DisableMFA", id)
      BY <1>11
    <2>3. Frame(db, db')
      BY <1>1, <1>2, <2>1, <2>2, DisableCalls
    <2> HIDE DEF step, x
    <2> QED
      BY <1>11, <2>3 DEF Frame, step, q
  <1> QED
    BY <1>1, <1>4, <1>6, <1>7, <1>8, <1>9, <1>10, <1>11 DEF Calls, Harmless, AdminCalls

\* Deletion, of any sequence of rows.
LEMMA WithoutAny ==
    ASSUME NEW q, IsSeq(q), NEW d
    PROVE  LET w == Db!Without(q, d)
           IN  /\ IsSeq(w)
               /\ \A j \in DOMAIN w : \E i \in DOMAIN q : w[j] = q[i]
               /\ \A i \in DOMAIN q : q[i].dev # d => \E j \in DOMAIN w : w[j] = q[i]
  <1> DEFINE w == Db!Without(q, d)
  <1>1. PICK S : q \in Seq(S)
    BY DEF IsSeq
  <1>2. /\ w \in Seq(S)
        /\ \A j \in 1 .. Len(w) : \E i \in 1 .. Len(q) : w[j] = q[i]
        /\ \A i \in 1 .. Len(q) : q[i].dev # d => \E j \in 1 .. Len(w) : w[j] = q[i]
    BY <1>1, WithoutRows
  <1> HIDE DEF w
  <1>3. DOMAIN q = 1 .. Len(q) /\ DOMAIN w = 1 .. Len(w)
    BY <1>1, <1>2
  <1>4. IsSeq(w)
    BY <1>2 DEF IsSeq
  <1> QED
    BY <1>2, <1>3, <1>4 DEF w

\* A store call leaves tables of the same shape.
LEMMA StoreStep ==
    ASSUME ReqInv, StoreInv, CodeInv, NEW p \in Slots, Step(p)
    PROVE  StoreInv'
  <1> DEFINE q == req[p]
             step == q.run[1]
  <1>1. /\ DOMAIN db' = Tables
        /\ step = "enqueue" => db'.cmd = Append(db.cmd, Queued(q))
        /\ step = "EraseDeviceData" => db'.cmd = Db!Without(db.cmd, q.on) /\ db'.ev = Db!Without(db.ev, q.on)
        /\ step \notin {"enqueue", "EraseDeviceData"} => db'.cmd = db.cmd
        /\ step # "EraseDeviceData" => db'.ev = db.ev
        /\ step \in {"RevokeDeviceCerts", "EraseDeviceData"} => CertsKept(db, db', q.on)
        /\ step \notin {"RevokeDeviceCerts", "EraseDeviceData"} => db'.cert = db.cert
    BY Effects
  <1>2. \/ asked' = Append(asked, <<q.on, q.by>>) \/ asked' = asked
    BY StepParts
  <1>3. \/ accepted' = Append(accepted, <<q.by, q.code.step>>) \/ accepted' = <<>> \/ accepted' = accepted
    BY StepParts
  <1> HIDE DEF q, step
  <1>4. IsSeq(db'.cmd)
    <2>1. IsSeq(db.cmd)
      BY DEF StoreInv
    <2>2. IsSeq(Append(db.cmd, Queued(q))) /\ IsSeq(Db!Without(db.cmd, q.on))
      BY <2>1, Grows, WithoutAny
    <2> QED
      BY <1>1, <2>1, <2>2
  <1>5. IsSeq(db'.ev)
    <2>1. IsSeq(db.ev)
      BY DEF StoreInv
    <2>2. IsSeq(Db!Without(db.ev, q.on))
      BY <2>1, WithoutAny
    <2> QED
      BY <1>1, <2>1, <2>2
  <1>6. IsSeq(asked')
    <2>1. IsSeq(asked)
      BY DEF StoreInv
    <2>2. IsSeq(Append(asked, <<q.on, q.by>>))
      BY <2>1, Grows
    <2> QED
      BY <1>2, <2>1, <2>2
  <1>7. IsSeq(accepted')
    <2>1. IsSeq(accepted)
      BY DEF StoreInv
    <2>2. <<>> \in Seq({})
      OBVIOUS
    <2>3. IsSeq(<<>>)
      BY <2>2 DEF IsSeq
    <2>4. IsSeq(Append(accepted, <<q.by, q.code.step>>))
      BY <2>1, Grows
    <2> QED
      BY <1>3, <2>1, <2>3, <2>4
  <1>8. \A f \in DOMAIN db'.cert : {"dev", "revoked"} \subseteq DOMAIN db'.cert[f]
    BY <1>1 DEF CertsKept, StoreInv
  <1>9. IsSeq(db.cmd)' /\ IsSeq(db.ev)' /\ IsSeq(asked)' /\ IsSeq(accepted)'
    BY <1>4, <1>5, <1>6, <1>7
  <1> QED
    BY <1>1, <1>8, <1>9 DEF StoreInv

\* No store call reaches a device the scope policy bars.
LEMMA ScopeStep ==
    ASSUME ReqInv, StoreInv, CodeInv, ScopeInv, NEW p \in Slots, Step(p)
    PROVE  ScopeInv'
  <1> DEFINE q == req[p]
             step == q.run[1]
  <1>0. conf' = conf /\ Cleared(q, step)
    BY StepParts
  <1>1. /\ step = "enqueue" => db'.cmd = Append(db.cmd, Queued(q))
        /\ step = "EraseDeviceData" => db'.cmd = Db!Without(db.cmd, q.on) /\ db'.ev = Db!Without(db.ev, q.on)
        /\ step \notin {"enqueue", "EraseDeviceData"} => db'.cmd = db.cmd
        /\ step # "EraseDeviceData" => db'.ev = db.ev
        /\ step \in {"RevokeDeviceCerts", "EraseDeviceData"} => CertsKept(db, db', q.on)
        /\ step \notin {"RevokeDeviceCerts", "EraseDeviceData"} => db'.cert = db.cert
    BY Effects
  <1> HIDE DEF q, step
  <1>2. \A d, act : Barred(d, act)' <=> Barred(d, act)
    BY <1>0 DEF Barred
  <1> DEFINE Fair(row) == specs[row.type].exempt \/ ~ Barred(row.dev, specs[row.type].scope)
  <1>3. \A i \in DOMAIN db'.cmd : Fair(db'.cmd[i])
    <2>1. IsSeq(db.cmd) /\ \A i \in DOMAIN db.cmd : Fair(db.cmd[i])
      BY DEF StoreInv, ScopeInv
    <2>2. CASE step = "enqueue"
      <3>1. Queued(q).type = CommandOf[q.op] /\ Queued(q).dev = q.on
        BY DEF Queued
      <3>2. specs[CommandOf[q.op]].exempt \/ ~ Barred(q.on, specs[CommandOf[q.op]].scope)
        BY <1>0, <2>2 DEF Cleared
      <3>3. Fair(Queued(q))
        BY <3>1, <3>2
      <3> HIDE DEF Fair
      <3>4. /\ DOMAIN db'.cmd = DOMAIN db.cmd \cup {Len(db.cmd) + 1} /\ db'.cmd[Len(db.cmd) + 1] = Queued(q)
            /\ \A i \in DOMAIN db.cmd : db'.cmd[i] = db.cmd[i]
        BY <1>1, <2>1, <2>2, Grows
      <3> QED
        BY <2>1, <3>3, <3>4
    <2>3. CASE step = "EraseDeviceData"
      <3> HIDE DEF Fair
      <3>1. \A j \in DOMAIN db'.cmd : \E i \in DOMAIN db.cmd : db'.cmd[j] = db.cmd[i]
        BY <1>1, <2>1, <2>3, WithoutAny
      <3> QED
        BY <2>1, <3>1
    <2>4. CASE step \notin {"enqueue", "EraseDeviceData"}
      <3> HIDE DEF Fair
      <3> QED
        BY <1>1, <2>1, <2>4
    <2> QED
      BY <2>2, <2>3, <2>4
  <1>4. \A f \in DOMAIN db'.cert : Barred(db'.cert[f].dev, "remote_command") => ~ db'.cert[f].revoked
    <2>1. \A f \in DOMAIN db.cert : Barred(db.cert[f].dev, "remote_command") => ~ db.cert[f].revoked
      BY DEF ScopeInv
    <2>2. CASE step \in {"RevokeDeviceCerts", "EraseDeviceData"}
      <3>1. ~ Barred(q.on, "remote_command")
        BY <1>0, <2>2, BarredMore DEF Cleared
      <3> QED
        BY <1>1, <2>1, <2>2, <3>1 DEF CertsKept
    <2>3. CASE step \notin {"RevokeDeviceCerts", "EraseDeviceData"}
      BY <1>1, <2>1, <2>3
    <2> QED
      BY <2>2, <2>3
  <1>5. \A i \in DOMAIN Seed.ev : Barred(Seed.ev[i].dev, "wipe") => \E k \in DOMAIN db'.ev : db'.ev[k] = Seed.ev[i]
    <2>1. IsSeq(db.ev) /\ \A i \in DOMAIN Seed.ev : Barred(Seed.ev[i].dev, "wipe") => \E k \in DOMAIN db.ev : db.ev[k] = Seed.ev[i]
      BY DEF StoreInv, ScopeInv
    <2>2. CASE step = "EraseDeviceData"
      <3>1. ~ Barred(q.on, "wipe")
        BY <1>0, <2>2 DEF Cleared
      <3>2. \A k \in DOMAIN db.ev : db.ev[k].dev # q.on => \E j \in DOMAIN db'.ev : db'.ev[j] = db.ev[k]
        BY <1>1, <2>1, <2>2, WithoutAny
      <3> QED
        BY <2>1, <3>1, <3>2
    <2>3. CASE step # "EraseDeviceData"
      BY <1>1, <2>1, <2>3
    <2> QED
      BY <2>2, <2>3
  <1>6. \A i \in DOMAIN db'.cmd : specs[db'.cmd[i].type].exempt \/ ~ Barred(db'.cmd[i].dev, specs[db'.cmd[i].type].scope)
    BY <1>3
  <1> QED
    BY <1>2, <1>4, <1>5, <1>6 DEF ScopeInv

\* A code is later than every one that was accepted before.
LEMMA CodeStep ==
    ASSUME ReqInv, StoreInv, CodeInv, NEW p \in Slots, Step(p)
    PROVE  CodeInv'
  <1> DEFINE q == req[p]
             step == q.run[1]
             x == Exec(db, q, step, NewId)
  <1>1. /\ Cleared(q, step) /\ fam' = fam /\ db' = x.s
        /\ fam = "mfa" <=> q.op \in MFAOps
        /\ fam = "mfa" => q.code.step \in Nat
        /\ step = "ConsumeTOTPStep" /\ x.r = "ok" => accepted' = Append(accepted, <<q.by, q.code.step>>)
        /\ step = "DisableMFA" => accepted' = <<>>
        /\ ~ (step = "ConsumeTOTPStep" /\ x.r = "ok") /\ step # "DisableMFA" => accepted' = accepted
    BY StepParts
  <1>2. fam = "mfa" /\ step \notin {"ConsumeTOTPStep", "DisableMFA"} => SameSteps(db, db')
    BY Effects
  <1>3. DOMAIN db = Tables /\ IsSeq(accepted)
    BY DEF StoreInv
  <1>4. CASE fam # "mfa"
    <2>1. step \notin {"ConsumeTOTPStep", "DisableMFA"}
      BY <1>1, <1>4 DEF Cleared
    <2>2. accepted' = accepted
      BY <1>1, <2>1
    <2> QED
      BY <1>1, <1>4, <2>2 DEF CodeInv, CodeAcceptedOnce
  <1>5. CASE fam = "mfa"
    <2>1. /\ HasSteps(db)
          /\ \A i \in DOMAIN accepted : /\ accepted[i][1] \in DOMAIN db.adm
                                        /\ accepted[i][2] \in Nat
                                        /\ accepted[i][2] <= db.adm[accepted[i][1]].step
          /\ \A i, j \in DOMAIN accepted : accepted[i] = accepted[j] => i = j
      BY <1>5 DEF CodeInv, CodeAcceptedOnce
    <2> DEFINE Later == /\ HasSteps(db')
                        /\ \A i \in DOMAIN accepted' : /\ accepted'[i][1] \in DOMAIN db'.adm
                                                       /\ accepted'[i][2] \in Nat
                                                       /\ accepted'[i][2] <= db'.adm[accepted'[i][1]].step
               Once == \A i, j \in DOMAIN accepted' : accepted'[i] = accepted'[j] => i = j
    <2>2. CASE step = "DisableMFA"
      <3>1. x = Exec(db, q, "DisableMFA", NewId)
        BY <2>2
      <3> HIDE DEF x, step, q
      <3>2. HasSteps(db')
        BY <1>1, <1>3, <2>1, <3>1, DisableCalls
      <3>3. accepted' = <<>>
        BY <1>1, <2>2
      <3>4. Later /\ Once
        BY <3>2, <3>3
      <3> QED
        BY <1>1, <1>5, <3>4 DEF CodeInv, CodeAcceptedOnce, HasSteps
    <2>3. CASE step = "ConsumeTOTPStep" /\ x.r = "ok"
      <3>1. x = Exec(db, q, "ConsumeTOTPStep", NewId)
        BY <2>3
      <3> HIDE DEF x, step, q
      <3>2. /\ q.by \in DOMAIN db.adm /\ q.code.step > db.adm[q.by].step /\ DOMAIN db'.adm = DOMAIN db.adm
            /\ \A a \in DOMAIN db.adm : /\ "step" \in DOMAIN db'.adm[a]
                                        /\ db'.adm[a].step = IF a = q.by THEN q.code.step ELSE db.adm[a].step
        <4>1. x.r # "forbidden"
          BY <2>3
        <4> QED
          BY <1>1, <1>3, <2>1, <3>1, <4>1, CodeCalls
      <3> DEFINE b == q.by
                 c == q.code.step
                 n == Len(accepted) + 1
      <3>3. /\ DOMAIN accepted' = DOMAIN accepted \cup {n} /\ n \notin DOMAIN accepted /\ accepted'[n] = <<b, c>>
            /\ \A i \in DOMAIN accepted : accepted'[i] = accepted[i]
        BY <1>1, <1>3, <2>3, Grows
      <3>4. c \in Nat
        BY <1>1, <1>5
      <3> HIDE DEF b, c, n
      <3>5. HasSteps(db')
        BY <2>1, <3>2, <3>4 DEF HasSteps, c
      <3>6. \A a \in DOMAIN db.adm : db.adm[a].step \in Nat /\ db'.adm[a].step \in Nat /\ db.adm[a].step <= db'.adm[a].step
        BY <2>1, <3>2, <3>4 DEF HasSteps, c
      <3>7. ASSUME NEW i \in DOMAIN accepted'
            PROVE  accepted'[i][1] \in DOMAIN db'.adm /\ accepted'[i][2] \in Nat /\ accepted'[i][2] <= db'.adm[accepted'[i][1]].step
        <4>1. CASE i = n
          <5>1. accepted'[i][1] = b /\ accepted'[i][2] = c
            BY <3>3, <4>1
          <5>2. b \in DOMAIN db'.adm /\ db'.adm[b].step = c
            BY <3>2 DEF b, c
          <5> QED
            BY <3>4, <5>1, <5>2
        <4>2. CASE i # n
          <5>1. i \in DOMAIN accepted /\ accepted'[i] = accepted[i]
            BY <3>3, <4>2
          <5>2. accepted[i][1] \in DOMAIN db.adm /\ accepted[i][2] \in Nat /\ accepted[i][2] <= db.adm[accepted[i][1]].step
            BY <2>1, <5>1
          <5> QED
            BY <3>2, <3>6, <5>1, <5>2
        <4> QED
          BY <4>1, <4>2
      <3>8. \A i \in DOMAIN accepted : accepted[i] # <<b, c>>
        <4> SUFFICES ASSUME NEW i \in DOMAIN accepted, accepted[i] = <<b, c>> PROVE FALSE
          OBVIOUS
        <4>1. accepted[i][1] = b /\ accepted[i][2] = c
          OBVIOUS
        <4>2. c <= db.adm[b].step /\ c > db.adm[b].step /\ db.adm[b].step \in Nat
          <5>1. b \in DOMAIN db.adm /\ c > db.adm[b].step
            BY <3>2 DEF b, c
          <5> QED
            BY <2>1, <3>6, <4>1, <5>1
        <4> QED
          BY <3>4, <4>2
      <3>9. Once
        BY <2>1, <3>3, <3>8
      <3>10. Later
        BY <3>5, <3>7
      <3> QED
        BY <1>1, <1>5, <3>9, <3>10 DEF CodeInv, CodeAcceptedOnce, HasSteps
    <2>4. CASE step # "DisableMFA" /\ ~ (step = "ConsumeTOTPStep" /\ x.r = "ok")
      <3>1. accepted' = accepted
        BY <1>1, <2>4
      <3>2. SameSteps(db, db')
        <4>1. CASE step = "ConsumeTOTPStep"
          <5>1. x = Exec(db, q, "ConsumeTOTPStep", NewId)
            BY <4>1
          <5> HIDE DEF x, step, q
          <5>2. x.s = db
            BY <1>3, <2>1, <2>4, <4>1, <5>1, CodeCalls
          <5> QED
            BY <1>1, <5>2 DEF SameSteps
        <4>2. CASE step # "ConsumeTOTPStep"
          <5> HIDE DEF x, step, q
          <5> QED
            BY <1>2, <1>5, <2>4, <4>2
        <4> QED
          BY <4>1, <4>2
      <3> HIDE DEF x, step, q
      <3>3. Later
        BY <2>1, <3>1, <3>2 DEF SameSteps, HasSteps
      <3>4. Once
        BY <2>1, <3>1
      <3> QED
        BY <1>1, <1>5, <3>3, <3>4 DEF CodeInv, CodeAcceptedOnce, HasSteps
    <2> HIDE DEF x, step, q
    <2> QED
      BY <2>2, <2>3, <2>4
  <1> QED
    BY <1>4, <1>5

-----------------------------------------------------------------------------
(* Wipes by two persons *)

\* The administrator of p asks: one more request is stored, and it is pending.
WipeAsked(p) ==
  /\ asked' = Append(asked, <<req[p].on, req[p].by>>) /\ db'.cmd = db.cmd
  /\ DOMAIN db'.wipe = DOMAIN db.wipe \cup {req[p].on}
  /\ \A e \in DOMAIN db'.wipe : db'.wipe[e] = IF e = req[p].on THEN req[p].by ELSE db.wipe[e]
  /\ ~ Claimed(req'[p])

\* The administrator of p, another one, takes the pending request.
WipeTaken(p) ==
  /\ asked' = asked /\ db'.cmd = db.cmd
  /\ req[p].on \in DOMAIN db.wipe /\ db.wipe[req[p].on] # req[p].by
  /\ DOMAIN db'.wipe = DOMAIN db.wipe \ {req[p].on}
  /\ \A e \in DOMAIN db'.wipe : db'.wipe[e] = db.wipe[e]
  /\ ~ Claimed(req[p]) /\ req'[p].on = req[p].on /\ req'[p].by = req[p].by

\* What was taken is queued.
WipeQueued(p) ==
  /\ asked' = asked /\ db'.cmd = Append(db.cmd, [dev |-> req[p].on, type |-> "WIPE", by |-> req[p].by]) /\ db'.wipe = db.wipe
  /\ Claimed(req[p]) /\ ~ Claimed(req'[p])

\* Anything else leaves the commands, and takes requests away at most.
WipeLeft(p) ==
  /\ asked' = asked /\ db'.cmd = db.cmd
  /\ \A e \in DOMAIN db'.wipe : e \in DOMAIN db.wipe /\ db'.wipe[e] = db.wipe[e]
  /\ ~ Claimed(req'[p])

\* A request that made a call holds a claim when the command is what is left.
LEMMA ClaimLeft ==
    ASSUME NEW q, DOMAIN q = ReqFields, NEW w
    PROVE  LET z == Answered([q EXCEPT !.run = w])
           IN  /\ Claimed(z) => q.op = "ApproveWipe" /\ w # <<>> /\ w[1] = "enqueue"
               /\ w # <<>> => z.on = q.on /\ z.by = q.by
  <1> DEFINE y == [q EXCEPT !.run = w]
  <1>1. y.op = q.op /\ y.run = w /\ y.on = q.on /\ y.by = q.by
    BY DEF ReqFields
  <1> HIDE DEF y
  <1>2. Answered(y) = Idle \/ Answered(y) = y
    BY DEF Answered
  <1>3. ~ Claimed(Idle)
    BY IdleFields DEF Claimed
  <1>4. Claimed(Answered(y)) => q.op = "ApproveWipe" /\ w # <<>> /\ w[1] = "enqueue"
    BY <1>1, <1>2, <1>3 DEF Claimed
  <1>5. w # <<>> => Answered(y) = y
    BY <1>1 DEF Answered
  <1> QED
    BY <1>1, <1>4, <1>5 DEF y

\* Under dual control these are all the ways in which a step treats wipes.
LEMMA WipeMoves ==
    ASSUME ConfInv, ReqInv, StoreInv, CodeInv, fam = "wipe", conf.dual,
           NEW p \in Slots, Admit(p) \/ NextDevice(p) \/ Step(p) \/ Fail(p)
    PROVE  WipeAsked(p) \/ WipeTaken(p) \/ WipeQueued(p) \/ WipeLeft(p)
  <1>1. CASE ~ Step(p)
    <2>1. ~ Claimed(req'[p]) /\ db' = db /\ asked' = asked
      BY <1>1, StepFrame
    <2> QED
      BY <2>1 DEF WipeLeft
  <1>2. CASE Step(p)
    <2> DEFINE q == req[p]
               step == q.run[1]
               id == NewId
               x == Exec(db, q, step, id)
               w == IF x.r \in Refused THEN <<>> ELSE Tail(q.run)
    <2>1. /\ q.run # <<>> /\ step \in Calls /\ Cleared(q, step) /\ DOMAIN q = ReqFields
          /\ q.op \in WipeOps
          /\ q.op = "ApproveWipe" => q.run \in ApproveRuns
          /\ db' = x.s
          /\ step = "SavePendingWipe" => asked' = Append(asked, <<q.on, q.by>>)
          /\ step # "SavePendingWipe" => asked' = asked
          /\ req'[p] = Answered([q EXCEPT !.run = w])
      BY <1>2, StepParts
    <2>2. /\ step \notin {"enqueue", "EraseDeviceData"} => db'.cmd = db.cmd
          /\ step \notin {"SavePendingWipe", "ConsumePendingWipe", "DeletePendingWipe"} => db'.wipe = db.wipe
      BY <1>2, Effects
    <2>3. DOMAIN db = Tables
      BY DEF StoreInv
    <2>4. w \in {<<>>, Tail(q.run)} /\ (x.r \in Refused => w = <<>>) /\ (x.r \notin Refused => w = Tail(q.run))
      OBVIOUS
    <2> HIDE DEF w, x, id
    <2>5. /\ Claimed(req'[p]) => q.op = "ApproveWipe" /\ w # <<>> /\ w[1] = "enqueue"
          /\ w # <<>> => req'[p].on = q.on /\ req'[p].by = q.by
      <3> DEFINE z == Answered([q EXCEPT !.run = w])
      <3>1. DOMAIN q = ReqFields /\ req'[p] = z
        BY <2>1
      <3>2. /\ Claimed(z) => q.op = "ApproveWipe" /\ w # <<>> /\ w[1] = "enqueue"
            /\ w # <<>> => z.on = q.on /\ z.by = q.by
        <4> HIDE DEF q
        <4> QED
          BY <3>1, ClaimLeft
      <3> HIDE DEF z
      <3> QED
        BY <3>1, <3>2
    <2> HIDE DEF q
    <2>6. ~ Claimed(req'[p]) \/ step = "ConsumePendingWipe"
      <3> SUFFICES ASSUME Claimed(req'[p]), step # "ConsumePendingWipe" PROVE FALSE
        OBVIOUS
      <3>1. q.op = "ApproveWipe" /\ w # <<>> /\ w[1] = "enqueue" /\ w = Tail(q.run)
        BY <2>4, <2>5
      <3>2. w \in {<<>>, <<"audit">>, <<"ConsumePendingWipe", "enqueue", "audit">>}
        BY <2>1, <3>1, ApproveRests
      <3>3. <<"audit">>[1] # "enqueue" /\ <<"ConsumePendingWipe", "enqueue", "audit">>[1] # "enqueue"
        OBVIOUS
      <3> QED
        BY <3>1, <3>2, <3>3
    <2>7. CASE step = "SavePendingWipe"
      <3>1. x = Db!SavePendingWipe(db, q.on, q.by)
        BY <2>7, Zenon DEF Exec, x
      <3> HIDE DEF step
      <3>2. /\ DOMAIN db'.wipe = DOMAIN db.wipe \cup {q.on}
            /\ \A e \in DOMAIN db'.wipe : db'.wipe[e] = IF e = q.on THEN q.by ELSE db.wipe[e]
        BY <2>1, <2>3, <3>1, SaveWipeCalls
      <3> QED
        BY <2>1, <2>2, <2>6, <2>7, <3>2 DEF WipeAsked, q
    <2>8. CASE step = "DeletePendingWipe"
      <3>1. x = Db!DeletePendingWipe(db, q.on)
        BY <2>8, Zenon DEF Exec, x
      <3> HIDE DEF step
      <3>2. \A e \in DOMAIN db'.wipe : e \in DOMAIN db.wipe /\ db'.wipe[e] = db.wipe[e]
        BY <2>1, <2>3, <3>1, DropWipeCalls
      <3> QED
        BY <2>1, <2>2, <2>6, <2>8, <3>2 DEF WipeLeft
    <2>9. CASE step = "ConsumePendingWipe"
      <3>1. x = Exec(db, q, "ConsumePendingWipe", id)
        BY <2>9 DEF x
      <3>2. q.op = "ApproveWipe" /\ q.run \in ApproveRuns /\ Tail(q.run) = <<"enqueue", "audit">>
        <4>1. q.op = "ApproveWipe"
          BY <2>1, <2>9 DEF Cleared
        <4> QED
          BY <2>1, <2>9, <4>1, ApproveRests
      <3> HIDE DEF step
      <3>3. CASE x.s = db /\ x.r = "forbidden"
        <4>1. w = <<>>
          BY <2>4, <3>3 DEF Refused
        <4> QED
          BY <2>1, <2>5, <2>9, <3>3, <4>1 DEF WipeLeft
      <3>4. CASE q.on \in DOMAIN db.wipe /\ db.wipe[q.on] # q.by /\ x.r = "ok" /\ x.s = Db!DeletePendingWipe(db, q.on).s
        <4>1. w # <<>>
          BY <2>4, <3>2, <3>4 DEF Refused
        <4>2. DOMAIN db'.wipe = DOMAIN db.wipe \ {q.on} /\ \A e \in DOMAIN db'.wipe : db'.wipe[e] = db.wipe[e]
          BY <2>1, <2>3, <3>4, DropWipeCalls
        <4>3. ~ Claimed(q)
          BY <2>9 DEF Claimed, step
        <4> QED
          BY <2>1, <2>2, <2>5, <2>9, <3>4, <4>1, <4>2, <4>3 DEF WipeTaken, q
      <3> QED
        BY <2>3, <3>1, <3>3, <3>4, ClaimCalls
    <2>10. CASE step = "enqueue"
      <3>1. x = Exec(db, q, "enqueue", id)
        BY <2>10 DEF x
      <3>2. q.op = "ApproveWipe"
        <4>1. q.op \in DOMAIN CommandOf /\ q.op # "WipeDevice"
          BY <2>1, <2>10 DEF Cleared
        <4>2. "CancelWipe" \notin DOMAIN CommandOf
          BY DEF CommandOf
        <4> QED
          BY <2>1, <4>1, <4>2 DEF WipeOps
      <3>3. Claimed(q)
        BY <2>1, <2>10, <3>2 DEF Claimed
      <3>4. Queued(q) = [dev |-> q.on, type |-> "WIPE", by |-> q.by]
        <4>1. CommandOf["ApproveWipe"] = "WIPE"
          BY DEF CommandOf
        <4> QED
          BY <3>2, <4>1 DEF Queued
      <3> HIDE DEF step
      <3>5. db'.cmd = Append(db.cmd, Queued(q)) /\ db'.wipe = db.wipe
        BY <2>1, <2>3, <3>1, EnqueueCalls
      <3> QED
        BY <2>1, <2>6, <2>10, <3>3, <3>4, <3>5 DEF WipeQueued, q
    <2>11. CASE step \notin {"SavePendingWipe", "DeletePendingWipe", "ConsumePendingWipe", "enqueue"}
      <3>1. step # "EraseDeviceData"
        BY <2>1 DEF Cleared, WipeOps
      <3> HIDE DEF step
      <3> QED
        BY <2>1, <2>2, <2>6, <2>11, <3>1 DEF WipeLeft
    <2> QED
      BY <2>7, <2>8, <2>9, <2>10, <2>11
  <1> QED
    BY <1>1, <1>2

\* The sets that are counted are finite.
LEMMA WipeSetsFinite ==
    ASSUME StoreInv, NEW d
    PROVE  IsFiniteSet(Wipes(d)) /\ IsFiniteSet(Claims(d)) /\ IsFiniteSet(Asks(d))
  <1>1. \A q : IsSeq(q) => IsFiniteSet(DOMAIN q)
    <2> SUFFICES ASSUME NEW q, IsSeq(q) PROVE IsFiniteSet(DOMAIN q)
      OBVIOUS
    <2>1. PICK S : q \in Seq(S)
      BY DEF IsSeq
    <2>2. DOMAIN q = 1 .. Len(q) /\ Len(q) \in Nat
      BY <2>1
    <2> QED
      BY <2>2, FS_Interval
  <1>2. IsFiniteSet(DOMAIN db.cmd) /\ IsFiniteSet(DOMAIN asked) /\ IsFiniteSet(Slots)
    BY <1>1, PlaneAssumption DEF StoreInv
  <1>3. Wipes(d) \subseteq DOMAIN db.cmd /\ Claims(d) \subseteq Slots /\ Asks(d) \subseteq DOMAIN asked
    BY DEF Wipes, Claims, Asks
  <1> QED
    BY <1>2, <1>3, FS_Subset

\* One more element counts one more at most, one less counts one less.
LEMMA Counts ==
    ASSUME NEW S, IsFiniteSet(S), NEW T, NEW x
    PROVE  /\ Cardinality(S) \in Nat
           /\ T \subseteq S => IsFiniteSet(T) /\ Cardinality(T) \in Nat /\ Cardinality(T) <= Cardinality(S)
           /\ T \subseteq S \cup {x} => IsFiniteSet(T) /\ Cardinality(T) \in Nat /\ Cardinality(T) <= Cardinality(S) + 1
           /\ T = S \cup {x} /\ x \notin S => Cardinality(T) = Cardinality(S) + 1
           /\ x \in S /\ T \subseteq S \ {x} => IsFiniteSet(T) /\ Cardinality(T) \in Nat /\ Cardinality(T) + 1 <= Cardinality(S)
  <1>1. Cardinality(S) \in Nat
    BY FS_CardinalityType
  <1>2. ASSUME T \subseteq S PROVE IsFiniteSet(T) /\ Cardinality(T) \in Nat /\ Cardinality(T) <= Cardinality(S)
    BY <1>2, FS_Subset, FS_CardinalityType
  <1>3. /\ IsFiniteSet(S \cup {x}) /\ Cardinality(S \cup {x}) \in Nat /\ Cardinality(S \cup {x}) <= Cardinality(S) + 1
        /\ x \notin S => Cardinality(S \cup {x}) = Cardinality(S) + 1
    <2>1. x \in S => S \cup {x} = S
      OBVIOUS
    <2>2. /\ IsFiniteSet(S \cup {x})
          /\ Cardinality(S \cup {x}) = IF x \in S THEN Cardinality(S) ELSE Cardinality(S) + 1
      BY FS_AddElement
    <2> QED
      BY <1>1, <2>2
  <1>4. ASSUME T \subseteq S \cup {x} PROVE IsFiniteSet(T) /\ Cardinality(T) \in Nat /\ Cardinality(T) <= Cardinality(S) + 1
    <2>1. IsFiniteSet(T) /\ Cardinality(T) <= Cardinality(S \cup {x}) /\ Cardinality(T) \in Nat
      BY <1>3, <1>4, FS_Subset, FS_CardinalityType
    <2> QED
      BY <1>1, <1>3, <2>1
  <1>5. ASSUME x \in S, T \subseteq S \ {x} PROVE IsFiniteSet(T) /\ Cardinality(T) \in Nat /\ Cardinality(T) + 1 <= Cardinality(S)
    <2>1. IsFiniteSet(S \ {x}) /\ Cardinality(S \ {x}) = Cardinality(S) - 1
      BY <1>5, FS_RemoveElement
    <2>2. IsFiniteSet(T) /\ Cardinality(T) <= Cardinality(S \ {x}) /\ Cardinality(T) \in Nat
      BY <1>5, <2>1, FS_Subset, FS_CardinalityType
    <2> QED
      BY <1>1, <2>1, <2>2
  <1> QED
    BY <1>1, <1>2, <1>3, <1>4, <1>5

\* The count of a device in one number.
Spent(d) == Cardinality(Wipes(d)) + Cardinality(Claims(d)) + (IF d \in DOMAIN db.wipe THEN 1 ELSE 0)

\* A wipe moves from pending to claimed to queued and is never counted twice.
LEMMA WipeCount ==
    ASSUME ReqInv, StoreInv, NEW p \in Slots, WipeAsked(p) \/ WipeTaken(p) \/ WipeQueued(p) \/ WipeLeft(p),
           \A o \in Slots : o # p => req'[o] = req[o],
           NEW d, Spent(d) <= Cardinality(Asks(d))
    PROVE  Spent(d)' <= Cardinality(Asks(d))'
  <1> DEFINE W == Wipes(d)
             C == Claims(d)
             A == Asks(d)
             X == Wipes(d)'
             D == Claims(d)'
             B == Asks(d)'
             n == IF d \in DOMAIN db.wipe THEN 1 ELSE 0
             m == IF d \in DOMAIN db'.wipe THEN 1 ELSE 0
  <1>1. IsFiniteSet(W) /\ IsFiniteSet(C) /\ IsFiniteSet(A)
    BY WipeSetsFinite
  <1>2. IsSeq(db.cmd) /\ IsSeq(asked)
    BY DEF StoreInv
  <1>3. Cardinality(W) + Cardinality(C) + n <= Cardinality(A)
    BY DEF Spent
  <1> SUFFICES Cardinality(X) + Cardinality(D) + m <= Cardinality(B)
    BY DEF Spent
  <1>4. ~ Claimed(req'[p]) => D \subseteq C /\ p \notin D
    BY DEF Claims
  <1>5. D \subseteq C \cup {p}
    BY DEF Claims
  <1>6. db'.cmd = db.cmd => X = W
    BY DEF Wipes
  <1>7. asked' = asked => B = A
    BY DEF Asks
  <1>8. n \in {0, 1} /\ m \in {0, 1}
    OBVIOUS
  <1>9. CASE WipeAsked(p)
    <2> DEFINE k == Len(asked) + 1
    <2>1. /\ DOMAIN asked' = DOMAIN asked \cup {k} /\ k \notin DOMAIN asked /\ asked'[k] = <<req[p].on, req[p].by>>
          /\ \A i \in DOMAIN asked : asked'[i] = asked[i]
      BY <1>2, <1>9, Grows DEF WipeAsked
    <2> HIDE DEF k
    <2>2. CASE req[p].on = d
      <3>1. B = A \cup {k} /\ k \notin A
        BY <2>1, <2>2 DEF Asks
      <3>2. X = W /\ D \subseteq C
        BY <1>4, <1>6, <1>9 DEF WipeAsked
      <3> HIDE DEF W, C, A, X, D, B, n, m
      <3>3. Cardinality(B) = Cardinality(A) + 1 /\ Cardinality(A) \in Nat
        BY <1>1, <3>1, Counts
      <3>4. Cardinality(X) = Cardinality(W) /\ Cardinality(W) \in Nat
        BY <1>1, <3>2, Counts
      <3>5. Cardinality(D) <= Cardinality(C) /\ Cardinality(D) \in Nat /\ Cardinality(C) \in Nat
        BY <1>1, <3>2, Counts
      <3> QED
        BY <1>3, <1>8, <3>3, <3>4, <3>5
    <2>3. CASE req[p].on # d
      <3>1. A \subseteq B /\ B \subseteq A
        BY <2>1, <2>3 DEF Asks
      <3>2. X = W /\ D \subseteq C
        BY <1>4, <1>6, <1>9 DEF WipeAsked
      <3>3. m = n
        BY <1>9, <2>3 DEF WipeAsked
      <3> HIDE DEF W, C, A, X, D, B, n, m
      <3>4. B = A
        BY <3>1
      <3>5. Cardinality(A) \in Nat /\ Cardinality(W) \in Nat
        BY <1>1, Counts
      <3>6. Cardinality(D) <= Cardinality(C) /\ Cardinality(D) \in Nat /\ Cardinality(C) \in Nat
        BY <1>1, <3>2, Counts
      <3> QED
        BY <1>3, <1>8, <3>2, <3>3, <3>4, <3>5, <3>6
    <2> QED
      BY <2>2, <2>3
  <1>10. CASE WipeTaken(p)
    <2>1. X = W /\ B = A
      BY <1>6, <1>7, <1>10 DEF WipeTaken
    <2>2. CASE req[p].on = d
      <3>1. n = 1 /\ m = 0
        BY <1>10, <2>2 DEF WipeTaken
      <3> HIDE DEF W, C, A, X, D, B, n, m
      <3>2. Cardinality(D) <= Cardinality(C) + 1 /\ Cardinality(D) \in Nat /\ Cardinality(C) \in Nat
        BY <1>1, <1>5, Counts
      <3>3. Cardinality(A) \in Nat /\ Cardinality(W) \in Nat
        BY <1>1, Counts
      <3> QED
        BY <1>3, <2>1, <3>1, <3>2, <3>3
    <2>3. CASE req[p].on # d
      <3>1. m = n
        BY <1>10, <2>3 DEF WipeTaken
      <3>2. D \subseteq C
        BY <1>10, <2>3 DEF WipeTaken, Claims
      <3> HIDE DEF W, C, A, X, D, B, n, m
      <3>3. Cardinality(D) <= Cardinality(C) /\ Cardinality(D) \in Nat /\ Cardinality(C) \in Nat
        BY <1>1, <3>2, Counts
      <3>4. Cardinality(A) \in Nat /\ Cardinality(W) \in Nat
        BY <1>1, Counts
      <3> QED
        BY <1>3, <1>8, <2>1, <3>1, <3>3, <3>4
    <2> QED
      BY <2>2, <2>3
  <1>11. CASE WipeQueued(p)
    <2> DEFINE k == Len(db.cmd) + 1
               row == [dev |-> req[p].on, type |-> "WIPE", by |-> req[p].by]
    <2>1. row.dev = req[p].on
      OBVIOUS
    <2> HIDE DEF row
    <2>2. /\ DOMAIN db'.cmd = DOMAIN db.cmd \cup {k} /\ k \notin DOMAIN db.cmd /\ db'.cmd[k] = row
          /\ \A i \in DOMAIN db.cmd : db'.cmd[i] = db.cmd[i]
      BY <1>2, <1>11, Grows DEF WipeQueued, row
    <2>3. B = A /\ m = n
      BY <1>7, <1>11 DEF WipeQueued
    <2> HIDE DEF k
    <2>4. CASE req[p].on = d
      <3>1. X \subseteq W \cup {k}
        BY <2>2 DEF Wipes
      <3>2. p \in C
        BY <1>11, <2>4 DEF WipeQueued, Claims
      <3>3. D \subseteq C \ {p}
        BY <1>4, <1>11 DEF WipeQueued
      <3> HIDE DEF W, C, A, X, D, B, n, m
      <3>4. Cardinality(X) <= Cardinality(W) + 1 /\ Cardinality(X) \in Nat /\ Cardinality(W) \in Nat
        BY <1>1, <3>1, Counts
      <3>5. Cardinality(D) + 1 <= Cardinality(C) /\ Cardinality(D) \in Nat /\ Cardinality(C) \in Nat
        BY <1>1, <3>2, <3>3, Counts
      <3>6. Cardinality(A) \in Nat
        BY <1>1, Counts
      <3> QED
        BY <1>3, <1>8, <2>3, <3>4, <3>5, <3>6
    <2>5. CASE req[p].on # d
      <3>1. X \subseteq W
        BY <2>1, <2>2, <2>5 DEF Wipes
      <3>2. D \subseteq C
        BY <1>4, <1>11 DEF WipeQueued
      <3> HIDE DEF W, C, A, X, D, B, n, m
      <3>3. Cardinality(X) <= Cardinality(W) /\ Cardinality(X) \in Nat /\ Cardinality(W) \in Nat
        BY <1>1, <3>1, Counts
      <3>4. Cardinality(D) <= Cardinality(C) /\ Cardinality(D) \in Nat /\ Cardinality(C) \in Nat
        BY <1>1, <3>2, Counts
      <3>5. Cardinality(A) \in Nat
        BY <1>1, Counts
      <3> QED
        BY <1>3, <1>8, <2>3, <3>3, <3>4, <3>5
    <2> QED
      BY <2>4, <2>5
  <1>12. CASE WipeLeft(p)
    <2>1. X = W /\ B = A /\ D \subseteq C
      BY <1>4, <1>6, <1>7, <1>12 DEF WipeLeft
    <2>2. m <= n
      BY <1>12 DEF WipeLeft
    <2> HIDE DEF W, C, A, X, D, B, n, m
    <2>3. Cardinality(D) <= Cardinality(C) /\ Cardinality(D) \in Nat /\ Cardinality(C) \in Nat
      BY <1>1, <2>1, Counts
    <2>4. Cardinality(A) \in Nat /\ Cardinality(W) \in Nat
      BY <1>1, Counts
    <2> QED
      BY <1>3, <1>8, <2>1, <2>2, <2>3, <2>4
  <1> QED
    BY <1>9, <1>10, <1>11, <1>12

\* What was asked for stays asked for.
LEMMA AskedStays ==
    ASSUME IsSeq(asked), NEW e, asked' = asked \/ asked' = Append(asked, e)
    PROVE  \A k \in DOMAIN asked : k \in DOMAIN asked' /\ asked'[k] = asked[k]
  <1>1. CASE asked' = asked
    BY <1>1
  <1>2. CASE asked' = Append(asked, e)
    BY <1>2, Grows
  <1> QED
    BY <1>1, <1>2

\* Outside the wipe operations no command is a wipe.
LEMMA OtherStep ==
    ASSUME ReqInv, StoreInv, CodeInv, fam # "wipe", \A i \in DOMAIN db.cmd : db.cmd[i].type # "WIPE",
           NEW p \in Slots, Step(p)
    PROVE  \A i \in DOMAIN db'.cmd : db'.cmd[i].type # "WIPE"
  <1> DEFINE q == req[p]
             step == q.run[1]
  <1>1. Cleared(q, step) /\ q.op \notin WipeOps
    BY StepParts
  <1>2. /\ step = "enqueue" => db'.cmd = Append(db.cmd, Queued(q))
        /\ step = "EraseDeviceData" => db'.cmd = Db!Without(db.cmd, q.on)
        /\ step \notin {"enqueue", "EraseDeviceData"} => db'.cmd = db.cmd
    BY Effects
  <1> HIDE DEF q, step
  <1>3. IsSeq(db.cmd)
    BY DEF StoreInv
  <1>4. CASE step = "enqueue"
    <2>1. q.op \in DOMAIN CommandOf
      BY <1>1, <1>4 DEF Cleared
    <2>2. \A o \in DOMAIN CommandOf : o \notin WipeOps => CommandOf[o] # "WIPE"
      BY DEF CommandOf, WipeOps
    <2>3. Queued(q).type # "WIPE"
      BY <1>1, <2>1, <2>2 DEF Queued
    <2>4. /\ DOMAIN db'.cmd = DOMAIN db.cmd \cup {Len(db.cmd) + 1} /\ db'.cmd[Len(db.cmd) + 1] = Queued(q)
          /\ \A i \in DOMAIN db.cmd : db'.cmd[i] = db.cmd[i]
      BY <1>2, <1>3, <1>4, Grows
    <2> QED
      BY <2>3, <2>4
  <1>5. CASE step = "EraseDeviceData"
    <2>1. \A j \in DOMAIN db'.cmd : \E i \in DOMAIN db.cmd : db'.cmd[j] = db.cmd[i]
      BY <1>2, <1>3, <1>5, WithoutAny
    <2> QED
      BY <2>1
  <1>6. CASE step \notin {"enqueue", "EraseDeviceData"}
    BY <1>2, <1>6
  <1> QED
    BY <1>4, <1>5, <1>6

\* WipeInv goes on from any action of p.
LEMMA WipeStep ==
    ASSUME ConfInv, ReqInv, StoreInv, CodeInv, WipeInv,
           NEW p \in Slots, Admit(p) \/ NextDevice(p) \/ Step(p) \/ Fail(p)
    PROVE  WipeInv'
  <1>1. /\ fam' = fam /\ conf' = conf
        /\ \A o \in Slots : o # p => req'[o] = req[o]
        /\ ~ Step(p) => db' = db
    BY StepFrame
  <1>2. CASE fam # "wipe"
    <2>1. \A i \in DOMAIN db.cmd : db.cmd[i].type # "WIPE"
      BY <1>2 DEF WipeInv
    <2>2. \A i \in DOMAIN db'.cmd : db'.cmd[i].type # "WIPE"
      BY <1>1, <1>2, <2>1, OtherStep
    <2> QED
      BY <1>1, <1>2, <2>2 DEF WipeInv
  <1>3. CASE fam = "wipe" /\ ~ conf.dual
    BY <1>1, <1>3 DEF WipeInv
  <1>4. CASE fam = "wipe" /\ conf.dual
    <2>1. /\ \A d \in DOMAIN db.wipe : \E k \in DOMAIN asked : asked[k] = <<d, db.wipe[d]>>
          /\ \A o \in Slots : Claimed(req[o]) => AskedByAnother(req[o].on, req[o].by)
          /\ \A i \in DOMAIN db.cmd : AskedByAnother(db.cmd[i].dev, db.cmd[i].by)
          /\ \A d \in DOMAIN db.dev : Spent(d) <= Cardinality(Asks(d))
      BY <1>4 DEF WipeInv, Spent
    <2>2. WipeAsked(p) \/ WipeTaken(p) \/ WipeQueued(p) \/ WipeLeft(p)
      BY <1>4, WipeMoves
    <2>3. IsSeq(db.cmd) /\ IsSeq(asked)
      BY DEF StoreInv
    <2>4. \A k \in DOMAIN asked : k \in DOMAIN asked' /\ asked'[k] = asked[k]
      BY <2>2, <2>3, AskedStays DEF WipeAsked, WipeTaken, WipeQueued, WipeLeft
    <2> DEFINE StillAsked(d, a) == \E k \in DOMAIN asked' : asked'[k][1] = d /\ asked'[k][2] # a
    <2>5. \A d, a : AskedByAnother(d, a) => StillAsked(d, a)
      BY <2>4 DEF AskedByAnother
    <2>6. \A d \in DOMAIN db'.wipe : \E k \in DOMAIN asked' : asked'[k] = <<d, db'.wipe[d]>>
      <3>1. CASE WipeAsked(p)
        <4>1. /\ Len(asked) + 1 \in DOMAIN asked' /\ asked'[Len(asked) + 1] = <<req[p].on, req[p].by>>
          BY <2>3, <3>1, Grows DEF WipeAsked
        <4> QED
          BY <2>1, <2>4, <3>1, <4>1 DEF WipeAsked
      <3>2. CASE WipeTaken(p)
        BY <2>1, <3>2 DEF WipeTaken
      <3>3. CASE WipeQueued(p)
        BY <2>1, <3>3 DEF WipeQueued
      <3>4. CASE WipeLeft(p)
        BY <2>1, <3>4 DEF WipeLeft
      <3> QED
        BY <2>2, <3>1, <3>2, <3>3, <3>4
    <2>7. ASSUME NEW o \in Slots, Claimed(req'[o]) PROVE StillAsked(req'[o].on, req'[o].by)
      <3>1. CASE o # p
        <4>1. AskedByAnother(req[o].on, req[o].by)
          BY <1>1, <2>1, <2>7, <3>1
        <4> HIDE DEF StillAsked
        <4> QED
          BY <1>1, <2>5, <3>1, <4>1
      <3>2. CASE o = p
        <4>1. WipeTaken(p)
          BY <2>2, <2>7, <3>2 DEF WipeAsked, WipeQueued, WipeLeft
        <4>2. PICK k \in DOMAIN asked : asked[k] = <<req[p].on, db.wipe[req[p].on]>>
          BY <2>1, <4>1 DEF WipeTaken
        <4>3. asked[k][1] = req[p].on /\ asked[k][2] # req[p].by
          BY <4>1, <4>2 DEF WipeTaken
        <4>4. asked'[k][1] = req[p].on /\ asked'[k][2] # req[p].by /\ k \in DOMAIN asked'
          BY <2>4, <4>3
        <4>5. req'[o].on = req[p].on /\ req'[o].by = req[p].by
          BY <3>2, <4>1 DEF WipeTaken
        <4> QED
          BY <4>4, <4>5
      <3> QED
        BY <3>1, <3>2
    <2>8. ASSUME NEW i \in DOMAIN db'.cmd PROVE StillAsked(db'.cmd[i].dev, db'.cmd[i].by)
      <3>1. CASE WipeQueued(p)
        <4> DEFINE row == [dev |-> req[p].on, type |-> "WIPE", by |-> req[p].by]
        <4>1. row.dev = req[p].on /\ row.by = req[p].by
          OBVIOUS
        <4> HIDE DEF row
        <4>2. /\ DOMAIN db'.cmd = DOMAIN db.cmd \cup {Len(db.cmd) + 1} /\ db'.cmd[Len(db.cmd) + 1] = row
              /\ \A j \in DOMAIN db.cmd : db'.cmd[j] = db.cmd[j]
          BY <2>3, <3>1, Grows DEF WipeQueued, row
        <4>3. AskedByAnother(req[p].on, req[p].by)
          BY <2>1, <3>1 DEF WipeQueued
        <4>4. AskedByAnother(db'.cmd[i].dev, db'.cmd[i].by)
          BY <2>1, <2>8, <4>1, <4>2, <4>3
        <4> HIDE DEF StillAsked
        <4> QED
          BY <2>5, <4>4
      <3>2. CASE ~ WipeQueued(p)
        <4>1. db'.cmd = db.cmd
          BY <2>2, <3>2 DEF WipeAsked, WipeTaken, WipeLeft
        <4>2. AskedByAnother(db.cmd[i].dev, db.cmd[i].by)
          BY <2>1, <2>8, <4>1
        <4> HIDE DEF StillAsked
        <4> QED
          BY <2>5, <4>1, <4>2
      <3> QED
        BY <3>1, <3>2
    <2>9. DOMAIN db'.dev = DOMAIN db.dev
      BY <1>1, Effects
    <2>10. \A d \in DOMAIN db'.dev : Spent(d)' <= Cardinality(Asks(d))'
      BY <1>1, <2>1, <2>2, <2>9, WipeCount
    <2>11. /\ \A d \in DOMAIN db'.wipe : \E k \in DOMAIN asked' : asked'[k] = <<d, db'.wipe[d]>>
           /\ \A o \in Slots : Claimed(req[o])' => AskedByAnother(req[o].on, req[o].by)'
           /\ \A i \in DOMAIN db'.cmd : AskedByAnother(db.cmd[i].dev, db.cmd[i].by)'
           /\ \A d \in DOMAIN db'.dev : Spent(d)' <= Cardinality(Asks(d))'
      <3> HIDE DEF StillAsked
      <3>2. \A o \in Slots : Claimed(req'[o]) <=> Claimed(req[o])'
        BY DEF Claimed
      <3>3. \A o \in Slots : StillAsked(req'[o].on, req'[o].by) <=> AskedByAnother(req[o].on, req[o].by)'
        BY DEF StillAsked, AskedByAnother
      <3>4. \A i \in DOMAIN db'.cmd : StillAsked(db'.cmd[i].dev, db'.cmd[i].by) <=> AskedByAnother(db.cmd[i].dev, db.cmd[i].by)'
        BY DEF StillAsked, AskedByAnother
      <3> QED
        BY <2>6, <2>7, <2>8, <2>10, <3>2, <3>3, <3>4
    <2> QED
      BY <1>1, <1>4, <2>11 DEF WipeInv, Spent
  <1> QED
    BY <1>2, <1>3, <1>4

-----------------------------------------------------------------------------
(* The invariant holds *)

\* What the deployment starts from.
LEMMA SeedFacts ==
    /\ DOMAIN Seed = Tables /\ Seed.cmd = <<>> /\ Seed.wipe = <<>> /\ IsSeq(Seed.ev)
    /\ \A f \in DOMAIN Seed.cert : {"dev", "revoked"} \subseteq DOMAIN Seed.cert[f] /\ ~ Seed.cert[f].revoked
    /\ HasSteps(Seed)
  <1> DEFINE adm == [a \in DOMAIN Admins |-> AdminRow(a)]
             dev == [d1 |-> Device("t1"), d2 |-> Device("t2"), d3 |-> Device("t1")]
             c1 == [dev |-> "d1", revoked |-> FALSE]
             c2 == [dev |-> "d2", revoked |-> FALSE]
             cert == [f1 |-> c1, f2 |-> c2]
             tok == [k2 |-> [by |-> "rival", tenant |-> "t2", used |-> FALSE, expired |-> FALSE]]
             pol == [p0 |-> [tenant |-> "", version |-> 0, updated |-> 1, rules |-> <<>>],
                     p1 |-> [tenant |-> "t1", version |-> 0, updated |-> 2, rules |-> <<>>],
                     p2 |-> [tenant |-> "t2", version |-> 0, updated |-> 3, rules |-> <<>>]]
             asg == {<<"d1", "p0">>, <<"d2", "p0">>}
             e1 == Event(1, "d2", "t2", "software", "HIGH")
             e2 == Event(2, "d1", "t1", "compliance", "LOW")
             e3 == Event(3, "d2", "t2", "compliance", "LOW")
             e4 == Event(4, "d1", "t1", "security", "HIGH")
             e5 == Event(5, "d2", "t2", "security", "HIGH")
             ev == <<e1, e2, e3, e4, e5>>
             inc == <<[id |-> "i2", dev |-> "d2", tenant |-> "t2", count |-> 1], [id |-> "i1", dev |-> "d1", tenant |-> "t1", count |-> 1]>>
             art == <<[id |-> "a1", dev |-> "d1", old |-> FALSE], [id |-> "a2", dev |-> "d2", old |-> FALSE]>>
             srch == <<[id |-> "q2", by |-> "rival"]>>
  <1>1. Seed = [Db!EmptyStore EXCEPT !.adm = adm, !.dev = dev, !.cert = cert, !.tok = tok, !.pol = pol, !.asg = asg, !.ev = ev,
                                     !.inc = inc, !.art = art, !.srch = srch]
    BY DEF Seed
  <1>2. IsSeq(ev)
    <2> DEFINE S == {e1, e2, e3, e4, e5}
    <2> HIDE DEF e1, e2, e3, e4, e5
    <2>1. ev \in Seq(S)
      OBVIOUS
    <2> HIDE DEF S
    <2> QED
      BY <2>1 DEF IsSeq
  <1>3. \A a \in DOMAIN Admins : "step" \in DOMAIN AdminRow(a) /\ AdminRow(a).step = 0
    <2> SUFFICES ASSUME NEW a \in DOMAIN Admins PROVE "step" \in DOMAIN AdminRow(a) /\ AdminRow(a).step = 0
      OBVIOUS
    <2> DEFINE Row(o, t, x, n) == [email |-> a, role |-> o, tenant |-> t, active |-> TRUE, secret |-> x, pending |-> "",
                                   enrolled |-> n, step |-> 0]
               secret == IF a = "boss" THEN "S0" ELSE ""
               enrolled == a = "boss"
    <2>1. AdminRow(a) = Row(Admins[a][1], Admins[a][2], secret, enrolled)
      BY Zenon DEF AdminRow
    <2>2. ASSUME NEW o, NEW t, NEW x, NEW n PROVE Row(o, t, x, n).step = 0 /\ "step" \in DOMAIN Row(o, t, x, n)
      OBVIOUS
    <2> HIDE DEF Row, secret, enrolled
    <2>3. Row(Admins[a][1], Admins[a][2], secret, enrolled).step = 0
      BY <2>2
    <2>4. "step" \in DOMAIN Row(Admins[a][1], Admins[a][2], secret, enrolled)
      BY <2>2
    <2> QED
      BY <2>1, <2>3, <2>4
  <1>4. DOMAIN adm = DOMAIN Admins /\ \A a \in DOMAIN adm : "step" \in DOMAIN adm[a] /\ adm[a].step = 0
    BY <1>3
  <1>5. DOMAIN cert = {"f1", "f2"} /\ cert["f1"] = c1 /\ cert["f2"] = c2
    OBVIOUS
  <1>6. {"dev", "revoked"} \subseteq DOMAIN c1 /\ {"dev", "revoked"} \subseteq DOMAIN c2 /\ ~ c1.revoked /\ ~ c2.revoked
    OBVIOUS
  <1> HIDE DEF adm, dev, cert, tok, pol, asg, ev, inc, art, srch, c1, c2
  <1>7. \A f \in DOMAIN cert : {"dev", "revoked"} \subseteq DOMAIN cert[f] /\ ~ cert[f].revoked
    BY <1>5, <1>6
  <1>8. DOMAIN Seed = Tables /\ Seed.cmd = <<>> /\ Seed.wipe = <<>> /\ Seed.ev = ev /\ Seed.cert = cert /\ Seed.adm = adm
    BY <1>1 DEF Db!EmptyStore, Db!Empty, Tables
  <1> QED
    BY <1>2, <1>4, <1>7, <1>8 DEF HasSteps

\* The deployment starts in the invariant.
LEMMA AdminInit ==
    ASSUME Init
    PROVE  AdminInv
  <1> DEFINE none == <<>>
  <1>1. /\ fam \in Families /\ conf \in SettingsOf(fam) /\ db = Seed /\ asked = none /\ accepted = none
        /\ DOMAIN req = Slots /\ \A p \in Slots : req[p] = Idle
    BY DEF Init
  <1>2. ConfInv
    BY <1>1 DEF ConfInv
  <1>3. ReqInv
    BY <1>1 DEF ReqInv, Ready
  <1>4. none \in Seq({}) /\ DOMAIN none = {}
    OBVIOUS
  <1>5. IsSeq(none)
    BY <1>4 DEF IsSeq
  <1>6. db.cmd = none /\ db.wipe = none
    BY <1>1, SeedFacts
  <1> HIDE DEF none
  <1>7. StoreInv
    BY <1>1, <1>5, <1>6, SeedFacts DEF StoreInv
  <1>8. ScopeInv
    BY <1>1, <1>4, <1>6, SeedFacts DEF ScopeInv
  <1>9. WipeInv
    <2>1. \A p \in Slots : ~ Claimed(req[p])
      BY <1>1, IdleFields DEF Claimed
    <2>2. ASSUME NEW d PROVE Wipes(d) = {} /\ Claims(d) = {} /\ Asks(d) = {}
      BY <1>1, <1>4, <1>6, <2>1 DEF Wipes, Claims, Asks
    <2>3. \A d : Cardinality(Wipes(d)) + Cardinality(Claims(d)) + (IF d \in DOMAIN db.wipe THEN 1 ELSE 0) <= Cardinality(Asks(d))
      <3> SUFFICES ASSUME NEW d
                   PROVE  Cardinality(Wipes(d)) + Cardinality(Claims(d)) + (IF d \in DOMAIN db.wipe THEN 1 ELSE 0) <= Cardinality(Asks(d))
        OBVIOUS
      <3>1. Cardinality(Wipes(d)) = 0 /\ Cardinality(Claims(d)) = 0 /\ Cardinality(Asks(d)) = 0
        BY <2>2, FS_EmptySet
      <3>2. d \notin DOMAIN db.wipe
        BY <1>4, <1>6
      <3> QED
        BY <3>1, <3>2
    <2> QED
      BY <1>4, <1>6, <2>1, <2>3 DEF WipeInv
  <1>10. CodeInv
    BY <1>1, <1>4, SeedFacts DEF CodeInv, CodeAcceptedOnce, none
  <1> QED
    BY <1>2, <1>3, <1>7, <1>8, <1>9, <1>10 DEF AdminInv

\* Every step, and none, keeps the invariant.
LEMMA AdminStep ==
    ASSUME AdminInv, [Next]_vars
    PROVE  AdminInv'
  <1>1. ReqInv' /\ ConfInv'
    BY ReqStep DEF AdminInv
  <1>2. CASE \E p \in Slots : Step(p)
    <2>1. PICK p \in Slots : Step(p)
      BY <1>2
    <2> QED
      BY <1>1, <2>1, StoreStep, ScopeStep, CodeStep, WipeStep DEF AdminInv
  <1>3. CASE Next /\ ~ \E p \in Slots : Step(p)
    <2>1. PICK p \in Slots : Admit(p) \/ NextDevice(p) \/ Fail(p)
      BY <1>3 DEF Next
    <2>2. fam' = fam /\ conf' = conf /\ db' = db /\ asked' = asked /\ accepted' = accepted
      BY <1>3, <2>1, StepFrame DEF AdminInv
    <2>3. WipeInv'
      BY <2>1, WipeStep DEF AdminInv
    <2>4. StoreInv' /\ ScopeInv' /\ CodeInv'
      BY <2>2 DEF AdminInv, StoreInv, ScopeInv, Barred, CodeInv, CodeAcceptedOnce, HasSteps
    <2> QED
      BY <1>1, <2>3, <2>4 DEF AdminInv
  <1>4. CASE UNCHANGED vars
    <2>1. fam' = fam /\ conf' = conf /\ db' = db /\ req' = req /\ asked' = asked /\ accepted' = accepted
      BY <1>4 DEF vars
    <2>2. StoreInv' /\ ScopeInv' /\ CodeInv'
      BY <2>1 DEF AdminInv, StoreInv, ScopeInv, Barred, CodeInv, CodeAcceptedOnce, HasSteps
    <2>3. \A d : Wipes(d)' = Wipes(d) /\ Claims(d)' = Claims(d) /\ Asks(d)' = Asks(d)
      BY <2>1 DEF Wipes, Claims, Asks, Claimed
    <2>4. WipeInv'
      BY <2>1, <2>3 DEF AdminInv, WipeInv, Claimed, AskedByAnother
    <2> QED
      BY <1>1, <2>2, <2>4 DEF AdminInv
  <1> QED
    BY <1>2, <1>3, <1>4

\* The invariant says of every queued command that it was allowed.
LEMMA AdminRules ==
    ASSUME AdminInv
    PROVE  CommandsRuled
  <1>1. TwoPersons
    <2> SUFFICES ASSUME conf.dual, NEW d \in DOMAIN db.dev
                 PROVE  /\ Cardinality(Wipes(d)) <= Cardinality(Asks(d))
                        /\ \A i \in Wipes(d) : \E k \in Asks(d) : asked[k][2] # db.cmd[i].by
      BY DEF TwoPersons, Wipes, Asks
    <2>1. IsFiniteSet(Wipes(d)) /\ IsFiniteSet(Claims(d)) /\ IsFiniteSet(Asks(d))
      BY WipeSetsFinite DEF AdminInv
    <2>2. Cardinality(Wipes(d)) \in Nat /\ Cardinality(Claims(d)) \in Nat /\ Cardinality(Asks(d)) \in Nat
      BY <2>1, FS_CardinalityType
    <2>3. CASE fam # "wipe"
      <3>1. Wipes(d) = {}
        BY <2>3 DEF AdminInv, WipeInv, Wipes
      <3> QED
        BY <2>2, <3>1, FS_EmptySet
    <2>4. CASE fam = "wipe"
      <3>1. Cardinality(Wipes(d)) + Cardinality(Claims(d)) + (IF d \in DOMAIN db.wipe THEN 1 ELSE 0) <= Cardinality(Asks(d))
        BY <2>4 DEF AdminInv, WipeInv
      <3>2. ASSUME NEW i \in Wipes(d) PROVE \E k \in Asks(d) : asked[k][2] # db.cmd[i].by
        BY <2>4, <3>2 DEF AdminInv, WipeInv, Wipes, Asks, AskedByAnother
      <3>3. Cardinality(Wipes(d)) <= Cardinality(Asks(d))
        BY <2>2, <3>1
      <3> QED
        BY <3>2, <3>3
    <2> QED
      BY <2>3, <2>4
  <1>2. ScopeWall
    BY DEF AdminInv, ScopeInv, ScopeWall
  <1>3. CodeAcceptedOnce
    BY DEF AdminInv, CodeInv
  <1> QED
    BY <1>1, <1>2, <1>3 DEF CommandsRuled

\* However the requests of the administrators interleave and whichever store calls fail: under dual
\* control every queued WIPE was asked for by another administrator than the one who released it and no
\* request releases two; a device the scope policy bars keeps its certificates, its data and its peace;
\* no one-time code is accepted twice (RequestWipe, ApproveWipe and ConsumePendingWipe; guardScope;
\* ConsumeTOTPStep).
THEOREM CommandsAreRuled == Spec => []CommandsRuled
  <1>1. Init => AdminInv
    BY AdminInit
  <1>2. AdminInv /\ [Next]_vars => AdminInv'
    BY AdminStep
  <1>3. AdminInv => CommandsRuled
    BY AdminRules
  <1> QED
    BY <1>1, <1>2, <1>3, PTL DEF Spec

-----------------------------------------------------------------------------
(* Bulk requests *)

\* A run that starts with a command was cleared by the role its administrator has now.
LEMMA StartsWithRole ==
    ASSUME NEW s, NEW r, NEW plan, Clears(s, r, plan), plan.run # <<>>, plan.run[1] = "enqueue"
    PROVE  rank(Db!AdminRole(s, r.by)) >= rank(specs[CommandOf[r.op]].min)
  <1>1. plan.run \in Seq(Calls)
    BY DEF Clears
  <1>2. 1 \in 1 .. Len(plan.run)
    BY <1>1, Rests
  <1> QED
    BY <1>2 DEF Clears, RoleHeld

\* A slot that had no call left and now starts with a command asked for the role.
LEMMA RoleAtStart ==
    ASSUME ConfInv, ReqInv, Next, NEW p \in Slots, req[p].run = <<>>, req'[p].run # <<>>, req'[p].run[1] = "enqueue"
    PROVE  rank(Db!AdminRole(db, req'[p].by)) >= rank(specs[CommandOf[req'[p].op]].min)
  <1> DEFINE Held(q) == rank(Db!AdminRole(db, q.by)) >= rank(specs[CommandOf[q.op]].min)
  <1> SUFFICES Held(req'[p])
    OBVIOUS
  <1>1. PICK o \in Slots : Admit(o) \/ NextDevice(o) \/ Step(o) \/ Fail(o)
    BY DEF Next
  <1>2. o = p
    <2>1. o # p => req'[p] = req[p]
      BY <1>1, StepFrame
    <2> QED
      BY <2>1
  <1>3. p \in DOMAIN req /\ Ready(req[p])
    BY DEF ReqInv
  <1>4. CASE Admit(p)
    <2>1. CASE \E r \in Requests(fam) : req' = [req EXCEPT ![p] = Started(r, Handler(db, conf, r), <<>>)]
      <3>1. PICK r \in Requests(fam) : req' = [req EXCEPT ![p] = Started(r, Handler(db, conf, r), <<>>)]
        BY <2>1
      <3> DEFINE plan == Handler(db, conf, r)
      <3>2. req'[p] = Started(r, plan, <<>>)
        BY <1>3, <3>1, Zenon
      <3>3. req'[p].op = r.op /\ req'[p].by = r.by /\ req'[p].run = plan.run /\ Clears(db, r, plan)
        BY <3>2, AdmitReady
      <3> HIDE DEF plan, Held
      <3>4. Held(r)
        BY <3>3, StartsWithRole DEF Held
      <3> QED
        BY <3>3, <3>4 DEF Held
    <2>2. CASE \E r \in Bulk(fam) : \E rest \in handleBulkAction(db, r.by, "x") :
                  req' = [req EXCEPT ![p] = Started(r, [t |-> "", run |-> <<>>], rest)]
      <3>1. PICK r \in Bulk(fam) : \E rest : req' = [req EXCEPT ![p] = Started(r, [t |-> "", run |-> <<>>], rest)]
        BY <2>2
      <3>2. PICK rest : req'[p] = Started(r, [t |-> "", run |-> <<>>], rest)
        BY <1>3, <3>1, Zenon
      <3>3. req'[p].run = <<>>
        BY <3>2, BulkReady
      <3> QED
        BY <3>3
    <2> QED
      BY <1>4, <2>1, <2>2, Zenon DEF Admit
  <1>5. CASE NextDevice(p)
    <2> DEFINE r == [req[p] EXCEPT !.on = Head(req[p].rest)]
               plan == Handler(db, conf, r)
               z == Answered([r EXCEPT !.run = plan.run, !.t = plan.t, !.rest = Tail(@)])
    <2>1. req[p].rest # <<>>
      BY <1>5 DEF NextDevice
    <2>2. /\ Clears(db, r, plan) /\ r.op = req[p].op /\ r.by = req[p].by
          /\ z.run # <<>> => z.op = req[p].op /\ z.by = req[p].by /\ z.run = plan.run
      BY <1>3, <2>1, NextReady
    <2>3. req'[p] = z
      BY <1>3, <1>5, Zenon DEF NextDevice
    <2> HIDE DEF r, plan, z, Held
    <2>4. Held(r)
      BY <2>2, <2>3, StartsWithRole DEF Held
    <2> QED
      BY <2>2, <2>3, <2>4 DEF Held
  <1>6. CASE Step(p) \/ Fail(p)
    BY <1>6 DEF Step, Fail
  <1> QED
    BY <1>1, <1>2, <1>4, <1>5, <1>6

\* However a bulk action over many devices interleaves with the demotion or the deactivation of its
\* administrator: no device's command starts on its way unless the administrator has the role for it at
\* that moment (handleBulkAction calls the service, and so requireCmd, once per device).
THEOREM BulkAsksForTheRole == Spec => NoBulkAfterDemotion
  <1>1. Init => AdminInv
    BY AdminInit
  <1>2. AdminInv /\ [Next]_vars => AdminInv'
    BY AdminStep
  <1>3. AdminInv /\ [Next]_vars =>
          [\A p \in Slots : (req[p].op \in DOMAIN CommandOf /\ req[p].run = <<>> /\ req'[p].run # <<>> /\ req'[p].run[1] = "enqueue") =>
              rank(Db!AdminRole(db, req'[p].by)) >= rank(specs[CommandOf[req'[p].op]].min)]_vars
    BY RoleAtStart DEF AdminInv
  <1> QED
    BY <1>1, <1>2, <1>3, PTL DEF Spec, NoBulkAfterDemotion

=============================================================================
