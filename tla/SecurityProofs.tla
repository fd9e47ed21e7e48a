---------------------------- MODULE SecurityProofs ----------------------------
(***************************************************************************)
(* The security contracts for any number of executors, grants, policies    *)
(* and moments: a grant pays for one intent that it covers, the rate of    *)
(* high-impact operations holds, a denial stands and a life cycle does not *)
(* turn back.  And the guards of Limits for any number of calls and any    *)
(* last instant: what a table forgets is never missed, no window lets more *)
(* through than its limit, what may pass once passes once.                 *)
(***************************************************************************)
EXTENDS SecurityFabric, FiniteSetTheorems, TLAPS

-----------------------------------------------------------------------------
(* Life cycles *)

\* How far a state is from the start of its table.  Every transition of these four
\* tables climbs, so none of them can return.
intentRank == [CREATED |-> 0, EXECUTING |-> 1, UNKNOWN |-> 2, DONE |-> 2, FAILED |-> 2,
               RECONCILED_DONE |-> 3, RECONCILED_FAILED |-> 3]
evidenceRank == [REQUESTED |-> 0, COLLECTING |-> 1, RECEIVED |-> 2, CANCELLED |-> 3, VERIFIED |-> 3,
                 FAILED |-> 3, SEALED |-> 4]
recommendationRank == [ISSUED |-> 0, VALIDATED |-> 1, ACCEPTED |-> 2, REJECTED |-> 3, EXPIRED |-> 3,
                       CONSUMED |-> 3]
approvalRank == [REQUESTED |-> 0, APPROVED |-> 1, REJECTED |-> 2, EXPIRED |-> 2, CONSUMED |-> 2]
Rank(t) == CASE t = "intent" -> intentRank [] t = "evidence" -> evidenceRank
             [] t = "recommendation" -> recommendationRank [] OTHER -> approvalRank
OneWay == {"intent", "evidence", "recommendation", "approval"}

\* The states of a command from its hand-over on.
HandedOut == {"DELIVERED", "CANCELLED", "ACKNOWLEDGED", "RUNNING", "EXECUTION_UNKNOWN", "SUCCEEDED",
              "EXECUTION_FAILED", "FAILED_FINAL", "RECONCILED_SUCCEEDED", "RECONCILED_FAILED",
              "MANUAL_REVIEW_REQUIRED"}

LifeOK ==
  /\ life = [table |-> life.table, state |-> life.state, been |-> life.been]
  /\ life.table \in OneWay =>
       /\ life.state \in DOMAIN Rank(life.table)
       /\ \A s \in life.been : s \in DOMAIN Rank(life.table)
                               /\ Rank(life.table)[s] <= Rank(life.table)[life.state]
  /\ life.table = "command" /\ "DELIVERED" \in life.been => life.state \in HandedOut

AccessInv == LifeOK /\ policies \in Seq(Pool)

\* The tables climb.
LEMMA Climbs ==
    ASSUME NEW t \in OneWay, NEW s, NEW to, CanGoTo(t, s, to)
    PROVE  /\ s \in DOMAIN Rank(t) /\ to \in DOMAIN Rank(t)
           /\ Rank(t)[s] \in Nat /\ Rank(t)[to] \in Nat /\ Rank(t)[s] < Rank(t)[to]
  <1>1. CASE t = "intent"
    <2>1. s \in DOMAIN intentTransitions /\ to \in intentTransitions[s]
      BY <1>1 DEF CanGoTo, Tables
    <2>2. Rank(t) = intentRank
      BY <1>1 DEF Rank
    <2> QED
      BY <2>1, <2>2 DEF intentTransitions, intentRank
  <1>2. CASE t = "evidence"
    <2>1. s \in DOMAIN evidenceTransitions /\ to \in evidenceTransitions[s]
      BY <1>2 DEF CanGoTo, Tables
    <2>2. Rank(t) = evidenceRank
      BY <1>2 DEF Rank
    <2> QED
      BY <2>1, <2>2 DEF evidenceTransitions, evidenceRank
  <1>3. CASE t = "recommendation"
    <2>1. s \in DOMAIN recommendationTransitions /\ to \in recommendationTransitions[s]
      BY <1>3 DEF CanGoTo, Tables
    <2>2. Rank(t) = recommendationRank
      BY <1>3 DEF Rank
    <2> QED
      BY <2>1, <2>2 DEF recommendationTransitions, recommendationRank
  <1>4. CASE t = "approval"
    <2>1. s \in DOMAIN approvalTransitions /\ to \in approvalTransitions[s]
      BY <1>4 DEF CanGoTo, Tables
    <2>2. Rank(t) = approvalRank
      BY <1>4 DEF Rank
    <2> QED
      BY <2>1, <2>2 DEF approvalTransitions, approvalRank
  <1> QED
    BY <1>1, <1>2, <1>3, <1>4 DEF OneWay

LEMMA RankIsNat ==
    ASSUME NEW t \in OneWay, NEW s \in DOMAIN Rank(t)
    PROVE  Rank(t)[s] \in Nat
  BY DEF OneWay, Rank, intentRank, evidenceRank, recommendationRank, approvalRank

\* A command that was handed out stays so, and a final state has no transition.
LEMMA HandedOutStays ==
    ASSUME NEW s, NEW to, CanGoTo("command", s, to)
    PROVE  /\ ~Terminal(s)
           /\ s \in HandedOut => to \in HandedOut \ {"QUEUED", "DELIVERED"}
  <1>1. s \in DOMAIN commandTransitions /\ to \in commandTransitions[s]
    BY DEF CanGoTo, Tables
  <1> QED
    BY <1>1 DEF commandTransitions, Terminal, HandedOut

\* What a step of the fabric does to the decisions: it adds a policy, moves the
\* object, or leaves both alone.
LEMMA AccessSteps ==
    ASSUME [FabricNext]_fabricVars
    PROVE  \/ policies' = policies /\ life' = life
           \/ \E p \in Pool : policies' = Append(policies, p) /\ life' = life
           \/ \E to : policies' = policies /\ Go(to)
  <1>1. CASE AccessPart
    BY <1>1 DEF AccessPart, AccessNext, Add, AddPolicy, Go, CallPlane, SwitchPlane
  <1>2. CASE UNCHANGED accessVars
    BY <1>2 DEF accessVars
  <1>3. CASE TrustPart \/ ContractPart \/ LimitPart \/ AgentPart \/ CodecPart
    BY <1>2, <1>3 DEF TrustPart, ContractPart, LimitPart, AgentPart, CodecPart
  <1>4. CASE UNCHANGED fabricVars
    BY <1>2, <1>4 DEF fabricVars
  <1> QED
    BY <1>1, <1>3, <1>4 DEF FabricNext

\* The record that Go leaves.
LEMMA GoMoves ==
    ASSUME LifeOK, NEW to, Go(to)
    PROVE  /\ CanGoTo(life.table, life.state, to)
           /\ life' = [table |-> life.table, state |-> to, been |-> life.been \cup {to}]
  BY DEF Go, LifeOK

LEMMA GoKeepsLife == ASSUME LifeOK, NEW to, Go(to) PROVE LifeOK'
  <1>1. /\ CanGoTo(life.table, life.state, to)
        /\ life' = [table |-> life'.table, state |-> life'.state, been |-> life'.been]
        /\ life'.table = life.table /\ life'.state = to /\ life'.been = life.been \cup {to}
    BY GoMoves
  <1>2. ASSUME life.table \in OneWay
        PROVE  /\ to \in DOMAIN Rank(life.table)
               /\ \A s \in life'.been : s \in DOMAIN Rank(life.table)
                                        /\ Rank(life.table)[s] <= Rank(life.table)[to]
    <2>1. /\ to \in DOMAIN Rank(life.table)
          /\ Rank(life.table)[life.state] \in Nat /\ Rank(life.table)[to] \in Nat
          /\ Rank(life.table)[life.state] < Rank(life.table)[to]
      BY <1>1, <1>2, Climbs
    <2>2. ASSUME NEW s \in life.been
          PROVE  s \in DOMAIN Rank(life.table) /\ Rank(life.table)[s] <= Rank(life.table)[to]
      <3>1. /\ s \in DOMAIN Rank(life.table)
            /\ Rank(life.table)[s] <= Rank(life.table)[life.state]
        BY <1>2, <2>2 DEF LifeOK
      <3>2. Rank(life.table)[s] \in Nat
        BY <1>2, <3>1, RankIsNat
      <3> QED
        BY <2>1, <3>1, <3>2
    <2> QED
      BY <1>1, <2>1, <2>2
  <1>3. ASSUME life.table = "command", "DELIVERED" \in life'.been
        PROVE  to \in HandedOut
    <2>1. CASE to = "DELIVERED"
      BY <2>1 DEF HandedOut
    <2>2. CASE "DELIVERED" \in life.been
      BY <1>1, <1>3, <2>2, HandedOutStays DEF LifeOK
    <2> QED
      BY <1>1, <1>3, <2>1, <2>2
  <1> QED
    BY <1>1, <1>2, <1>3 DEF LifeOK

LEMMA AccessInductive == FabricSpec => []AccessInv
  <1>1. FabricInit => AccessInv
    <2> SUFFICES ASSUME FabricInit PROVE AccessInv
      OBVIOUS
    <2>1. PICK t \in DOMAIN Start : life = [table |-> t, state |-> Start[t], been |-> {Start[t]}]
      BY DEF FabricInit, AccessInit
    <2>2. t = "command" => Start[t] # "DELIVERED"
      BY DEF Start
    <2>3. t \in OneWay => Start[t] \in DOMAIN Rank(t) /\ Rank(t)[Start[t]] = 0
      BY DEF Start, OneWay, Rank, intentRank, evidenceRank, recommendationRank, approvalRank
    <2>4. LifeOK
      BY <2>1, <2>2, <2>3 DEF LifeOK
    <2> QED
      BY <2>4 DEF AccessInv, FabricInit, AccessInit
  <1>2. AccessInv /\ [FabricNext]_fabricVars => AccessInv'
    <2> SUFFICES ASSUME AccessInv, [FabricNext]_fabricVars PROVE AccessInv'
      OBVIOUS
    <2>1. policies' \in Seq(Pool)
      <3>1. policies \in Seq(Pool)
        BY DEF AccessInv
      <3>2. ASSUME NEW p \in Pool PROVE Append(policies, p) \in Seq(Pool)
        BY <3>1
      <3> QED
        BY <3>1, <3>2, AccessSteps
    <2>2. CASE life' = life
      BY <2>1, <2>2 DEF AccessInv, LifeOK
    <2>3. CASE life' # life
      BY <2>1, <2>3, AccessSteps, GoKeepsLife DEF AccessInv
    <2> QED
      BY <2>2, <2>3
  <1> QED
    BY <1>1, <1>2, PTL DEF FabricSpec

-----------------------------------------------------------------------------
(* A denial *)

\* Evaluate's answer is no as soon as one deny of the list matches, and AddPolicy only
\* appends: whatever is added, the list still holds that deny.
THEOREM DenyStands == FabricSpec => DenyIsFinal
  <1> DEFINE Denied(ps, s) == \E p \in Range(ps) : p.effect = "deny" /\ matchPolicy(p, s)
             Stands == \A s \in Subjects : Denied(policies, s) => ~Evaluate(policies', s)
  <1>1. ASSUME NEW ps \in Seq(Pool), NEW s, Denied(ps, s)
        PROVE  ~Evaluate(ps, s)
    BY <1>1 DEF Evaluate, Range
  <1>2. ASSUME NEW ps \in Seq(Pool), NEW p \in Pool, NEW s, Denied(ps, s)
        PROVE  Denied(Append(ps, p), s)
    <2>1. PICK i \in DOMAIN ps : ps[i].effect = "deny" /\ matchPolicy(ps[i], s)
      BY <1>2 DEF Range
    <2>2. i \in DOMAIN Append(ps, p) /\ Append(ps, p)[i] = ps[i]
      OBVIOUS
    <2> QED
      BY <2>1, <2>2 DEF Range
  <1>3. AccessInv /\ [FabricNext]_fabricVars => [Stands]_accessVars
    <2> SUFFICES ASSUME AccessInv, [FabricNext]_fabricVars, NEW s \in Subjects, Denied(policies, s)
                 PROVE  ~Evaluate(policies', s)
      OBVIOUS
    <2>1. policies \in Seq(Pool)
      BY DEF AccessInv
    <2>2. CASE policies' = policies
      BY <1>1, <2>1, <2>2
    <2>3. ASSUME NEW p \in Pool, policies' = Append(policies, p)
          PROVE  ~Evaluate(policies', s)
      <3>1. Denied(policies', s) /\ policies' \in Seq(Pool)
        BY <1>2, <2>1, <2>3
      <3> QED
        BY <1>1, <3>1
    <2> QED
      BY <2>2, <2>3, AccessSteps
  <1>4. FabricSpec => [][Stands]_accessVars
    BY <1>3, AccessInductive, PTL DEF FabricSpec
  <1> QED
    BY <1>4 DEF DenyIsFinal

-----------------------------------------------------------------------------
(* No way back *)

\* The transition tables of seccontract have no way back: an intent, a piece of
\* evidence, a recommendation or an approval never returns to a state it left, and a
\* command that was handed out is never queued or handed out again.
THEOREM NothingReturns == FabricSpec => NoWayBack
  <1> DEFINE Onward ==
               life'.state # life.state =>
                 /\ life.table \in OneWay => life'.state \notin life.been
                 /\ life.table = "command" =>
                      /\ "DELIVERED" \in life.been => life'.state \notin {"QUEUED", "DELIVERED"}
                      /\ ~Terminal(life.state)
  <1>1. AccessInv /\ [FabricNext]_fabricVars => [Onward]_accessVars
    <2> SUFFICES ASSUME AccessInv, [FabricNext]_fabricVars, life'.state # life.state
                 PROVE  /\ life.table \in OneWay => life'.state \notin life.been
                        /\ life.table = "command" =>
                             /\ "DELIVERED" \in life.been => life'.state \notin {"QUEUED", "DELIVERED"}
                             /\ ~Terminal(life.state)
      OBVIOUS
    <2>1. PICK to : Go(to)
      BY AccessSteps
    <2>2. CanGoTo(life.table, life.state, to) /\ life'.state = to
      BY <2>1, GoMoves DEF AccessInv
    <2>3. ASSUME life.table \in OneWay, to \in life.been PROVE FALSE
      <3>1. /\ Rank(life.table)[life.state] \in Nat /\ Rank(life.table)[to] \in Nat
            /\ Rank(life.table)[life.state] < Rank(life.table)[to]
        BY <2>2, <2>3, Climbs
      <3>2. Rank(life.table)[to] <= Rank(life.table)[life.state]
        BY <2>3 DEF AccessInv, LifeOK
      <3> QED
        BY <3>1, <3>2
    <2>4. ASSUME life.table = "command"
          PROVE  /\ "DELIVERED" \in life.been => to \notin {"QUEUED", "DELIVERED"}
                 /\ ~Terminal(life.state)
      BY <2>2, <2>4, HandedOutStays DEF AccessInv, LifeOK
    <2> QED
      BY <2>2, <2>3, <2>4
  <1>2. FabricSpec => [][Onward]_accessVars
    BY <1>1, AccessInductive, PTL DEF FabricSpec
  <1> QED
    BY <1>2 DEF NoWayBack, OneWay

\* What no step may undo, for any number of policies.
THEOREM DecisionsAreFinal == FabricSpec => DecisionsStand
  BY DenyStands, NothingReturns DEF DecisionsStand

-----------------------------------------------------------------------------
(* Grants and intents *)

\* Grants that authz.Gateway counted, and the key it counted them under.
Rated(g) == g.by = "gateway" /\ ImpactOf(g.action) >= HighImpact
RateKey(g) == <<mapRequester(g.principal.type), g.principal.id>>

\* A grant repeats the parts of the request it was given for; nobody but a second person
\* gives one for several devices.
GrantInv ==
  \A g \in grants :
    /\ g.at \in 0 .. now /\ g.expires = g.at + GrantTTL
    /\ g.principal = g.request[2] /\ g.action = g.request[3] /\ g.targets = g.request[4]
    /\ g.by # "gateway" => g.by \in used
    /\ Cardinality(g.targets) > DefaultPolicy.SoftBlastRadius => g.by = "ap1"

\* The executor's copies are of grants of the store, and its clock is not ahead.
CallInv ==
  /\ DOMAIN call = Executors
  /\ \A e \in Executors : call[e].busy =>
       /\ call[e].grant \in grants /\ call[e].at \in call[e].grant.at .. now
       /\ call[e].req.principal.type # "ai"

\* No key has more hits than the policy allows, and the last minute's grants are among them.
HitsInv ==
  /\ \A k \in DOMAIN hits : hits[k] \in Seq(Nat) /\ Len(hits[k]) <= DefaultPolicy.HighImpactPerMin
  /\ \A g \in grants : Rated(g) /\ g.at + Minute > now =>
       RateKey(g) \in DOMAIN hits /\ hits[RateKey(g)] = <<g.at>>

\* Two counted grants of one principal are a minute apart.
SpacedInv ==
  \A g, h \in grants : Rated(g) /\ Rated(h) /\ g.principal = h.principal =>
    g = h \/ g.at + Minute <= h.at \/ h.at + Minute <= g.at

IntentInv ==
  /\ \A i \in intents : i.grant \in consumed
  /\ GrantedOnce /\ IntentWasGranted

ContractInv == now \in Nat /\ GrantInv /\ CallInv /\ HitsInv /\ SpacedInv /\ IntentInv

\* A minute's window over at most one time.
LEMMA RecentShort ==
    ASSUME NEW ts \in Seq(Nat), Len(ts) <= 1, NEW at \in Nat
    PROVE  /\ Recent(ts, at) \in Seq(Nat) /\ Len(Recent(ts, at)) <= 1
           /\ \A t \in Nat : ts = <<t>> /\ t + Minute > at => Recent(ts, at) = <<t>>
  <1> DEFINE n == Len(ts)
             Filtered(f) == [i \in 0 .. n |-> IF i = 0 THEN <<>>
                                          ELSE IF ts[i] + Minute > at THEN Append(f[i - 1], ts[i]) ELSE f[i - 1]]
             kept == [i \in 0 .. n |-> IF i = 0 THEN <<>> ELSE IF ts[i] + Minute > at THEN <<ts[i]>> ELSE <<>>]
  <1>1. n \in 0 .. 1 /\ (n = 1 => ts[1] \in Nat)
    <2>1. Len(ts) \in Nat /\ \A i \in 1 .. Len(ts) : ts[i] \in Nat
      OBVIOUS
    <2>2. n \in 0 .. 1
      <3>1. Len(ts) \in Nat /\ Len(ts) <= 1
        BY <2>1
      <3>2. \A k \in Nat : k <= 1 => k \in 0 .. 1
        OBVIOUS
      <3> QED
        BY <3>1, <3>2
    <2>3. ASSUME n = 1 PROVE ts[1] \in Nat
      BY <2>1, <2>3
    <2> QED
      BY <2>2, <2>3
  <1>2. kept = Filtered(kept)
    <2>1. ASSUME NEW i \in 0 .. n PROVE kept[i] = Filtered(kept)[i]
      <3>1. CASE i = 0
        BY <3>1
      <3>2. CASE i # 0
        <4>1. i = 1 /\ kept[i - 1] = <<>> /\ 1 \in 0 .. n
          BY <1>1, <3>2
        <4>2. Append(<<>>, ts[1]) = <<ts[1]>>
          BY <1>1, <4>1
        <4> QED
          BY <4>1, <4>2
      <3> QED
        BY <3>1, <3>2
    <2> QED
      BY <2>1
  <1>3. (CHOOSE f : f = Filtered(f)) = Filtered(CHOOSE f : f = Filtered(f))
    BY <1>2
  <1> DEFINE g == CHOOSE f : f = Filtered(f)
  <1>4. Recent(ts, at) = g[n]
    BY DEF Recent
  <1>5. g = Filtered(g)
    BY <1>3
  <1> HIDE DEF g
  <1>6. g[0] = <<>>
    BY <1>1, <1>5
  <1>7. CASE n = 0
    <2>1. Recent(ts, at) = <<>>
      BY <1>4, <1>6, <1>7
    <2> QED
      BY <1>7, <2>1
  <1>8. CASE n = 1
    <2>1. g[1] = IF ts[1] + Minute > at THEN Append(g[0], ts[1]) ELSE g[0]
      <3>1. 1 \in 0 .. n /\ 1 - 1 = 0 /\ 1 # 0
        BY <1>8
      <3>2. Filtered(g)[1] = IF ts[1] + Minute > at THEN Append(g[1 - 1], ts[1]) ELSE g[1 - 1]
        BY <3>1
      <3> QED
        BY <1>5, <3>1, <3>2
    <2>2. Recent(ts, at) = IF ts[1] + Minute > at THEN <<ts[1]>> ELSE <<>>
      BY <1>1, <1>4, <1>6, <1>8, <2>1
    <2> QED
      BY <1>1, <1>8, <2>2
  <1> QED
    BY <1>1, <1>7, <1>8

\* A table with one hit at most for each key.
Short(h) == \A k \in DOMAIN h : h[k] \in Seq(Nat) /\ Len(h[k]) <= 1

\* pruneHits drops only keys without a hit in the last minute.
LEMMA PruneKeepsRecent ==
    ASSUME NEW h, Short(h), NEW at \in Nat
    PROVE  /\ DOMAIN pruneHits(h, at) \in SUBSET DOMAIN h
           /\ \A k \in DOMAIN h, t \in Nat :
                h[k] = <<t>> /\ t + Minute > at => k \in DOMAIN pruneHits(h, at)
  <1>1. ASSUME NEW k \in DOMAIN h, NEW t \in Nat, h[k] = <<t>>, t + Minute > at
        PROVE  Recent(h[k], at) # <<>>
    <2>1. Recent(h[k], at) = <<t>>
      BY <1>1, RecentShort DEF Short
    <2> QED
      BY <2>1
  <1>2. CASE Cardinality(DOMAIN h) > rateKeyCap
    <2>1. DOMAIN pruneHits(h, at) = {k \in DOMAIN h : Recent(h[k], at) # <<>>}
      BY <1>2 DEF pruneHits, Restrict
    <2> QED
      BY <1>1, <2>1
  <1>3. CASE ~(Cardinality(DOMAIN h) > rateKeyCap)
    <2>1. pruneHits(h, at) = h
      BY <1>3 DEF pruneHits
    <2> QED
      BY <2>1
  <1> QED
    BY <1>2, <1>3

\* checkRate keeps the table short, forgets no hit of the last minute, counts the operation
\* it admits and admits none for a key with a recent hit.
LEMMA CheckRateCounts ==
    ASSUME NEW h, Short(h), NEW at \in Nat, NEW key
    PROVE  LET c == checkRate(h, key, at)
           IN  /\ Short(c.hits)
               /\ \A k \in DOMAIN h, t \in Nat : h[k] = <<t>> /\ t + Minute > at =>
                    /\ k \in DOMAIN c.hits /\ (k # key \/ ~c.ok) /\ c.hits[k] = <<t>>
               /\ c.ok => key \in DOMAIN c.hits /\ c.hits[key] = <<at>>
  <1> DEFINE kept == IF key \in DOMAIN pruneHits(h, at) THEN Recent(h[key], at) ELSE <<>>
             ok == Len(kept) < 1
             left == IF ok THEN Append(kept, at) ELSE kept
             nextHits == [k \in DOMAIN pruneHits(h, at) \cup {key} |-> IF k = key THEN left ELSE h[k]]
  <1>1. checkRate(h, key, at) = [ok |-> ok, hits |-> nextHits]
    BY DEF checkRate, DefaultPolicy
  <1>2. DOMAIN pruneHits(h, at) \in SUBSET DOMAIN h
    BY PruneKeepsRecent
  <1>3. kept \in Seq(Nat) /\ Len(kept) <= 1
    BY <1>2, RecentShort DEF Short
  <1>4. left \in Seq(Nat) /\ Len(left) <= 1 /\ (ok => left = <<at>>)
    <2>1. CASE ok
      <3>1. kept = <<>>
        <4>1. Len(kept) \in Nat /\ Len(kept) < 1
          BY <1>3, <2>1
        <4>2. Len(kept) = 0
          BY <4>1
        <4> HIDE DEF kept
        <4> QED
          BY <1>3, <4>2
      <3>2. Append(<<>>, at) = <<at>> /\ <<at>> \in Seq(Nat) /\ Len(<<at>>) = 1
        OBVIOUS
      <3>3. left = <<at>>
        BY <2>1, <3>1, <3>2
      <3> HIDE DEF left
      <3> QED
        BY <3>2, <3>3
    <2>2. CASE ~ok
      BY <1>3, <2>2
    <2> QED
      BY <2>1, <2>2
  <1>5. ASSUME NEW k \in DOMAIN h, NEW t \in Nat, h[k] = <<t>>, t + Minute > at
        PROVE  k \in DOMAIN nextHits /\ (k # key \/ ~ok) /\ nextHits[k] = <<t>>
    <2>1. k \in DOMAIN pruneHits(h, at)
      BY <1>5, PruneKeepsRecent
    <2>2. CASE k = key
      <3>1. kept = <<t>>
        BY <1>5, <2>1, <2>2, RecentShort DEF Short
      <3>2. ~ok /\ left = <<t>>
        BY <3>1
      <3> QED
        BY <2>2, <3>2
    <2>3. CASE k # key
      BY <1>5, <2>1, <2>3
    <2> QED
      BY <2>2, <2>3
  <1>6. ASSUME NEW k \in DOMAIN nextHits
        PROVE  nextHits[k] \in Seq(Nat) /\ Len(nextHits[k]) <= 1
    <2>1. CASE k = key
      BY <1>4, <2>1
    <2>2. CASE k # key
      <3>1. k \in DOMAIN h /\ nextHits[k] = h[k]
        BY <1>2, <2>2
      <3> QED
        BY <3>1 DEF Short
    <2> QED
      BY <2>1, <2>2
  <1>7. ok => key \in DOMAIN nextHits /\ nextHits[key] = <<at>>
    BY <1>4
  <1> HIDE DEF ok, nextHits
  <1> QED
    BY <1>1, <1>5, <1>6, <1>7 DEF Short

\* What a request of the gateway carries.
GatewayRequest(r) ==
  [requester |-> mapRequester(r.principal.type), principal |-> r.principal.id, action |-> r.action,
   count |-> Len(r.targets), confirmed |-> r.confirmed]
CountedUnder(r) == <<mapRequester(r.principal.type), r.principal.id>>

\* gatewayAuthorize counts what it admits at high impact, and touches the table only through
\* checkRate.
LEMMA GatewayCounts ==
    ASSUME NEW h, NEW r, NEW at
    PROVE  LET a == gatewayAuthorize(h, r, at)
               c == checkRate(h, <<r.requester, r.principal>>, at)
           IN  /\ a.hits = h \/ a.hits = c.hits
               /\ a.code = "allow" /\ ImpactOf(r.action) >= HighImpact => c.ok /\ a.hits = c.hits
               /\ a.code = "allow" => \/ ImpactOf(r.action) < HighImpact
                                      \/ checkBlastRadius([r EXCEPT !.count = IF @ < 1 THEN 1 ELSE @]) = "allow"
  <1>1. ImpactOf(r.action) \in Int /\ HighImpact \in Int
    BY DEF ImpactOf, Passive, Active, Remote, HighImpact, Destructive
  <1> QED
    BY <1>1 DEF gatewayAuthorize

\* The requests that anyone makes name one device at most, but for a person's unconfirmed wipe
\* of two.
LEMMA RequestTargets ==
    ASSUME NEW r \in Requests
    PROVE  \/ ~(Cardinality(canonicalTargets(r.targets)) > 1)
           \/ /\ r.principal.type = "human" /\ Len(r.targets) = 4 /\ ~r.confirmed /\ r.action = "wipe"
  <1>1. CASE r.targets = <<>>
    <2>1. canonicalTargets(r.targets) = {}
      BY <1>1 DEF canonicalTargets
    <2> QED
      BY <2>1, FS_EmptySet
  <1>2. ASSUME NEW d \in {"d1", "d2"}, r.targets = <<d>>
        PROVE  ~(Cardinality(canonicalTargets(r.targets)) > 1)
    <2>1. DOMAIN <<d>> = 1 .. 1 /\ (\A i \in 1 .. 1 : <<d>>[i] = d) /\ 1 \in 1 .. 1 /\ d # ""
      <3>1. <<d>> \in Seq({"d1", "d2"}) /\ Len(<<d>>) = 1 /\ <<d>>[1] = d
        OBVIOUS
      <3>2. DOMAIN <<d>> = 1 .. 1
        BY <3>1
      <3>3. 1 \in 1 .. 1 /\ \A i \in 1 .. 1 : i = 1
        OBVIOUS
      <3>4. d # ""
        OBVIOUS
      <3> QED
        BY <3>1, <3>2, <3>3, <3>4, Zenon
    <2>2. {<<d>>[i] : i \in DOMAIN <<d>>} = {d}
      BY <2>1
    <2>3. canonicalTargets(r.targets) = {d}
      BY <1>2, <2>1, <2>2 DEF canonicalTargets
    <2>4. Cardinality({d}) = 1
      BY FS_Singleton
    <2> QED
      BY <2>3, <2>4
  <1>3. CASE r = WipeTwo
    BY <1>3 DEF WipeTwo, Request, Human
  <1>4. \/ r = WipeTwo
        \/ r.targets = <<>> \/ r.targets = <<"d1">> \/ r.targets = <<"d2">>
    <2>1. \/ r = WipeTwo
          \/ \E t, p, a, c : \E ts \in {<<>>, <<"d1">>, <<"d2">>} : r = Request(t, p, a, ts, c)
      BY Zenon DEF Requests
    <2>2. \A t, p, a, ts, c : Request(t, p, a, ts, c).targets = ts
      BY DEF Request
    <2>3. ASSUME NEW t, NEW p, NEW a, NEW c, NEW ts \in {<<>>, <<"d1">>, <<"d2">>},
                 r = Request(t, p, a, ts, c)
          PROVE  r.targets = <<>> \/ r.targets = <<"d1">> \/ r.targets = <<"d2">>
      <3>1. r.targets = ts
        BY <2>2, <2>3
      <3> QED
        BY <2>3, <3>1
    <2> QED
      BY <2>1, <2>3
  <1> QED
    BY <1>1, <1>2, <1>3, <1>4

\* What secgateway.Gateway.Authorize grants: a grant of the request as it is, at this moment,
\* for one device at most, counted by the rate if it is of high impact.
LEMMA GatewayGrants ==
    ASSUME NEW r \in Requests
    PROVE  LET a == secAuthorize(r)
               c == checkRate(hits, CountedUnder(r), now)
           IN  /\ a.hits = hits \/ a.hits = c.hits
               /\ a.d.result = "ALLOW" =>
                    /\ a.d.grant = NewGrant(Cardinality(grants), r, policy, now, "gateway")
                    /\ ~(Cardinality(canonicalTargets(r.targets)) > 1)
                    /\ ImpactOf(r.action) >= HighImpact => c.ok /\ a.hits = c.hits
  <1> DEFINE q == GatewayRequest(r)
             g == gatewayAuthorize(hits, q, now)
             c == checkRate(hits, CountedUnder(r), now)
             early == IF NormTenant(r.tenant) = "" THEN "TENANT_MISMATCH"
                      ELSE IF mapRequester(r.principal.type) = "" THEN "RBAC_DENY"
                      ELSE IF r.targets = <<>> /\ EffectiveImpact(r) >= HighImpact THEN "SCOPE_DENY" ELSE ""
             answer == CASE g.code = "allow" -> Allow(NewGrant(Cardinality(grants), r, policy, now, "gateway"))
                         [] g.code = "approval" -> NeedApproval(translate(g.code))
                         [] OTHER -> Deny(translate(g.code))
  <1>1. secAuthorize(r) = IF early # "" THEN [d |-> Deny(early), hits |-> hits]
                          ELSE [hits |-> g.hits, d |-> answer]
    BY DEF secAuthorize, GatewayRequest
  <1>2. <<q.requester, q.principal>> = CountedUnder(r) /\ q.action = r.action
    BY DEF GatewayRequest, CountedUnder
  <1>3. /\ g.hits = hits \/ g.hits = c.hits
        /\ g.code = "allow" /\ ImpactOf(r.action) >= HighImpact => c.ok /\ g.hits = c.hits
        /\ g.code = "allow" => \/ ImpactOf(r.action) < HighImpact
                               \/ checkBlastRadius([q EXCEPT !.count = IF @ < 1 THEN 1 ELSE @]) = "allow"
    BY <1>2, GatewayCounts
  <1>4. ASSUME g.code = "allow"
        PROVE  ~(Cardinality(canonicalTargets(r.targets)) > 1)
    <2> SUFFICES ASSUME r.principal.type = "human", Len(r.targets) = 4, ~r.confirmed, r.action = "wipe"
                 PROVE  FALSE
      BY RequestTargets
    <2>1. ~(ImpactOf(r.action) < HighImpact)
      BY DEF ImpactOf, Destructive, HighImpact
    <2> DEFINE big == [q EXCEPT !.count = IF @ < 1 THEN 1 ELSE @]
    <2>2. big.requester = "human" /\ big.count = 4 /\ ~big.confirmed
      BY DEF GatewayRequest, mapRequester
    <2>3. checkBlastRadius(big) = "approval"
      BY <2>2 DEF checkBlastRadius, DefaultPolicy
    <2> QED
      BY <1>3, <1>4, <2>1, <2>3
  <1>5. answer.result = "ALLOW" =>
          /\ g.code = "allow"
          /\ answer.grant = NewGrant(Cardinality(grants), r, policy, now, "gateway")
    BY DEF Allow, NeedApproval, Deny
  <1>6. Deny(early).result # "ALLOW"
    BY DEF Deny
  <1> HIDE DEF early, answer, g, c, q
  <1>7. CASE early # ""
    <2>1. secAuthorize(r) = [d |-> Deny(early), hits |-> hits]
      BY <1>1, <1>7
    <2> QED
      BY <1>6, <2>1 DEF c
  <1>8. CASE early = ""
    <2>1. secAuthorize(r) = [hits |-> g.hits, d |-> answer]
      BY <1>1, <1>8
    <2> QED
      BY <1>3, <1>4, <1>5, <2>1 DEF c
  <1> QED
    BY <1>7, <1>8

\* A grant repeats its request.
LEMMA GrantCarries ==
    ASSUME NEW id, NEW r, NEW hash, NEW at, NEW by
    PROVE  LET g == NewGrant(id, r, hash, at, by)
           IN  /\ g.id = id /\ g.at = at /\ g.expires = at + GrantTTL /\ g.by = by
               /\ g.principal = r.principal /\ g.action = r.action
               /\ g.targets = canonicalTargets(r.targets)
               /\ g.principal = g.request[2] /\ g.action = g.request[3] /\ g.targets = g.request[4]
               /\ RateKey(g) = CountedUnder(r)
  BY DEF NewGrant, RequestHash, TargetsHash, RateKey, CountedUnder

\* Minting a grant, by the gateway or with an approval nobody used, keeps the invariant if the
\* table of hits covers it and the principal's last counted grant is a minute old.
LEMMA MintKeepsInv ==
    ASSUME ContractInv, NEW r \in Requests, NEW id, NEW by, NEW g,
           g = NewGrant(id, r, policy, now, by), grants' = grants \cup {g},
           UNCHANGED <<now, consumed, intents, call>>, used \in SUBSET used',
           by # "gateway" => by \in used' /\ by \notin used,
           Cardinality(canonicalTargets(r.targets)) > 1 => by = "ap1",
           HitsInv',
           Rated(g) => \A h \in grants : Rated(h) /\ h.principal = g.principal => h.at + Minute <= now
    PROVE  ContractInv'
  <1>1. /\ g.at = now /\ g.expires = now + GrantTTL /\ g.by = by
        /\ g.targets = canonicalTargets(r.targets)
        /\ g.principal = g.request[2] /\ g.action = g.request[3] /\ g.targets = g.request[4]
    BY GrantCarries
  <1>2. now' = now /\ now \in Nat
    BY DEF ContractInv
  <1>3. GrantInv'
    <2> SUFFICES ASSUME NEW h \in grants'
                 PROVE  /\ h.at \in 0 .. now' /\ h.expires = h.at + GrantTTL
                        /\ h.principal = h.request[2] /\ h.action = h.request[3] /\ h.targets = h.request[4]
                        /\ h.by # "gateway" => h.by \in used'
                        /\ Cardinality(h.targets) > DefaultPolicy.SoftBlastRadius => h.by = "ap1"
      BY DEF GrantInv
    <2>1. CASE h \in grants
      BY <1>2, <2>1 DEF ContractInv, GrantInv
    <2>2. CASE h = g
      BY <1>1, <1>2, <2>2 DEF DefaultPolicy
    <2> QED
      BY <2>1, <2>2
  <1>4. CallInv'
    BY <1>2 DEF ContractInv, CallInv
  <1>5. SpacedInv'
    <2> SUFFICES ASSUME NEW h \in grants', NEW k \in grants', Rated(h), Rated(k), h.principal = k.principal
                 PROVE  h = k \/ h.at + Minute <= k.at \/ k.at + Minute <= h.at
      BY DEF SpacedInv
    <2>1. CASE h \in grants /\ k \in grants
      BY <2>1 DEF ContractInv, SpacedInv
    <2>2. CASE h = g /\ k \in grants
      BY <1>1, <2>2
    <2>3. CASE h \in grants /\ k = g
      BY <1>1, <2>3
    <2> QED
      BY <2>1, <2>2, <2>3
  <1>6. IntentInv'
    <2>1. IntentInv /\ intents' = intents /\ consumed' = consumed
      BY DEF ContractInv
    <2>2. ASSUME NEW h \in grants', NEW k \in grants', h.by = k.by, h.by # "gateway"
          PROVE  h = k
      <3>1. \A x \in grants : x.by # "gateway" => x.by \in used
        BY DEF ContractInv, GrantInv
      <3>2. CASE h \in grants /\ k \in grants
        BY <2>1, <2>2, <3>2 DEF IntentInv, GrantedOnce
      <3>3. CASE h = g /\ k \in grants
        BY <1>1, <2>2, <3>1, <3>3
      <3>4. CASE h \in grants /\ k = g
        BY <1>1, <2>2, <3>1, <3>4
      <3> QED
        BY <3>2, <3>3, <3>4
    <2>3. GrantedOnce'
      BY <2>1, <2>2 DEF IntentInv, GrantedOnce
    <2>4. IntentWasGranted'
      BY <2>1 DEF IntentInv, IntentWasGranted
    <2> QED
      BY <2>1, <2>3, <2>4 DEF IntentInv
  <1> QED
    BY <1>2, <1>3, <1>4, <1>5, <1>6 DEF ContractInv

\* A request that is refused leaves grants alone.
LEMMA HitsKeepInv ==
    ASSUME ContractInv, UNCHANGED <<now, grants, used, consumed, intents, call>>, HitsInv'
    PROVE  ContractInv'
  BY DEF ContractInv, GrantInv, CallInv, SpacedInv, IntentInv, GrantedOnce, IntentWasGranted

\* The hits that the gateway leaves behind.
LEMMA AskKeepsHits ==
    ASSUME ContractInv, NEW r, NEW G,
           now' = now, grants' \in {grants, grants \cup {G}},
           LET c == checkRate(hits, CountedUnder(r), now)
           IN  /\ hits' = hits \/ hits' = c.hits
               /\ grants' # grants =>
                    /\ G.at = now /\ RateKey(G) = CountedUnder(r)
                    /\ Rated(G) => c.ok /\ hits' = c.hits
    PROVE  HitsInv'
  <1> DEFINE c == checkRate(hits, CountedUnder(r), now)
  <1>1. now \in Nat /\ Short(hits) /\ DefaultPolicy.HighImpactPerMin = 1
    BY DEF ContractInv, HitsInv, Short, DefaultPolicy
  <1>2. /\ Short(c.hits)
        /\ \A k \in DOMAIN hits, t \in Nat : hits[k] = <<t>> /\ t + Minute > now =>
             k \in DOMAIN c.hits /\ c.hits[k] = <<t>>
        /\ c.ok => CountedUnder(r) \in DOMAIN c.hits /\ c.hits[CountedUnder(r)] = <<now>>
    BY <1>1, CheckRateCounts
  <1>3. \A g \in grants : g.at \in Nat
    BY <1>1 DEF ContractInv, GrantInv
  <1> HIDE DEF c
  <1>4. Short(hits')
    BY <1>1, <1>2 DEF c
  <1>5. ASSUME NEW g \in grants, Rated(g), g.at + Minute > now
        PROVE  RateKey(g) \in DOMAIN hits' /\ hits'[RateKey(g)] = <<g.at>>
    <2>1. RateKey(g) \in DOMAIN hits /\ hits[RateKey(g)] = <<g.at>>
      BY <1>5 DEF ContractInv, HitsInv
    <2>2. RateKey(g) \in DOMAIN c.hits /\ c.hits[RateKey(g)] = <<g.at>>
      BY <1>2, <1>3, <1>5, <2>1
    <2> QED
      BY <2>1, <2>2 DEF c
  <1>6. ASSUME grants' # grants, Rated(G)
        PROVE  RateKey(G) \in DOMAIN hits' /\ hits'[RateKey(G)] = <<G.at>>
    BY <1>2, <1>6 DEF c
  <1>7. \A g \in grants' : g \in grants \/ (g = G /\ grants' # grants)
    OBVIOUS
  <1>8. \A k \in DOMAIN hits' : hits'[k] \in Seq(Nat) /\ Len(hits'[k]) <= DefaultPolicy.HighImpactPerMin
    BY <1>1, <1>4 DEF Short
  <1> QED
    BY <1>5, <1>6, <1>7, <1>8 DEF HitsInv

\* Gateway.Authorize.
LEMMA AskKeepsInv == ASSUME ContractInv, NEW r \in Requests, Ask(r) PROVE ContractInv'
  <1> DEFINE a == secAuthorize(r)
             G == NewGrant(Cardinality(grants), r, policy, now, "gateway")
             c == checkRate(hits, CountedUnder(r), now)
  <1>1. /\ hits' = a.hits
        /\ grants' = IF a.d.result = "ALLOW" THEN grants \cup {a.d.grant} ELSE grants
        /\ UNCHANGED <<now, policy, used, consumed, intents, call>>
    BY DEF Ask
  <1>2. /\ a.hits = hits \/ a.hits = c.hits
        /\ a.d.result = "ALLOW" =>
             /\ a.d.grant = G /\ ~(Cardinality(canonicalTargets(r.targets)) > 1)
             /\ ImpactOf(r.action) >= HighImpact => c.ok /\ a.hits = c.hits
    BY GatewayGrants
  <1>3. G.at = now /\ RateKey(G) = CountedUnder(r) /\ G.action = r.action
    BY GrantCarries
  <1> HIDE DEF a, G, c
  <1>4. grants' # grants => a.d.result = "ALLOW"
    BY <1>1
  <1>5. Rated(G) => ImpactOf(r.action) >= HighImpact
    BY <1>3 DEF Rated
  <1>6. HitsInv'
    <2>1. grants' \in {grants, grants \cup {G}} /\ now' = now
      BY <1>1, <1>2
    <2>2. /\ hits' = hits \/ hits' = c.hits
          /\ grants' # grants => G.at = now /\ RateKey(G) = CountedUnder(r)
                                 /\ (Rated(G) => c.ok /\ hits' = c.hits)
      BY <1>1, <1>2, <1>3, <1>4, <1>5
    <2> QED
      BY <2>1, <2>2, AskKeepsHits DEF c
  <1>7. CASE a.d.result # "ALLOW"
    BY <1>1, <1>6, <1>7, HitsKeepInv
  <1>8. CASE a.d.result = "ALLOW"
    <2>1. grants' = grants \cup {G}
      BY <1>1, <1>2, <1>8
    <2>2. ASSUME Rated(G), NEW h \in grants, Rated(h), h.principal = G.principal
          PROVE  h.at + Minute <= now
      <3>1. c.ok
        BY <1>2, <1>5, <1>8, <2>2
      <3>2. RateKey(h) = CountedUnder(r)
        BY <1>3, <2>2 DEF RateKey
      <3>3. now \in Nat /\ h.at \in Nat
        BY DEF ContractInv, GrantInv
      <3>4. ASSUME h.at + Minute > now PROVE FALSE
        <4>1. CountedUnder(r) \in DOMAIN hits /\ hits[CountedUnder(r)] = <<h.at>>
          BY <2>2, <3>2, <3>4 DEF ContractInv, HitsInv
        <4>2. Short(hits)
          BY DEF ContractInv, HitsInv, Short, DefaultPolicy
        <4>3. ~c.ok
          BY <3>3, <3>4, <4>1, <4>2, CheckRateCounts DEF c
        <4> QED
          BY <3>1, <4>3
      <3> QED
        BY <3>3, <3>4 DEF Minute
    <2>3. ~(Cardinality(canonicalTargets(r.targets)) > 1)
      BY <1>2, <1>8
    <2>4. G = NewGrant(Cardinality(grants), r, policy, now, "gateway")
      BY DEF G
    <2> QED
      BY <1>1, <1>6, <2>1, <2>2, <2>3, <2>4, MintKeepsInv
  <1> QED
    BY <1>7, <1>8

\* FinalizeAuthorization.
LEMMA FinalizeKeepsInv ==
    ASSUME ContractInv, NEW r \in Requests, NEW ap \in Approvals, Finalize(r, ap)
    PROVE  ContractInv'
  <1> DEFINE G == NewGrant(Cardinality(grants), r, policy, now, ap.id)
             d == FinalizeAuthorization(r, ap)
  <1>1. d.result = "ALLOW" /\ grants' = grants \cup {d.grant} /\ used' = used \cup {ap.id}
        /\ UNCHANGED <<now, policy, hits, consumed, intents, call>>
    BY DEF Finalize
  <1>2. ap.id = "ap1"
    <2>1. \E a : ap = [id |-> "ap1", state |-> "APPROVED", expires |-> 2, requester |-> Human("h1"),
                     approver |-> a, request |-> RequestHash(WipeTwo), action |-> "wipe",
                     targets |-> {"d1", "d2"}, policy |-> "p1", tenant |-> "t1"]
      BY DEF Approvals
    <2> QED
      BY <2>1
  <1>3. d.grant = G /\ ap.id \notin used
    BY <1>1 DEF FinalizeAuthorization, Deny, Allow
  <1>4. G.by = "ap1" /\ ~Rated(G)
    BY <1>2, GrantCarries DEF Rated
  <1>5. HitsInv'
    <2>1. \A g \in grants' : Rated(g) => g \in grants
      BY <1>1, <1>3, <1>4
    <2> QED
      BY <1>1, <2>1 DEF ContractInv, HitsInv
  <1>6. G = NewGrant(Cardinality(grants), r, policy, now, "ap1")
    BY <1>2
  <1> HIDE DEF G, d
  <1> QED
    BY <1>1, <1>2, <1>3, <1>4, <1>5, <1>6, MintKeepsInv

\* GuardedExecutor.Execute up to the store call.
LEMMA StartKeepsInv ==
    ASSUME ContractInv, NEW e \in Executors, NEW r, NEW g \in grants, StartExecute(e, r, g)
    PROVE  ContractInv'
  <1>1. /\ call' = [call EXCEPT ![e] = [busy |-> TRUE, req |-> r, grant |-> g, at |-> now, hash |-> policy]]
        /\ UNCHANGED <<now, policy, hits, grants, used, consumed, intents>>
        /\ CapabilityAllowed(r.principal, "executor.direct")
    BY DEF StartExecute
  <1>2. r.principal.type # "ai"
    BY <1>1 DEF CapabilityAllowed, aiAllowedCaps
  <1>3. DOMAIN call = Executors
    BY DEF ContractInv, CallInv
  <1>4. g.at \in 0 .. now /\ now \in Nat
    BY DEF ContractInv, GrantInv
  <1>5. CallInv'
    <2> SUFFICES ASSUME NEW x \in Executors, call'[x].busy
                 PROVE  /\ call'[x].grant \in grants /\ call'[x].at \in call'[x].grant.at .. now
                        /\ call'[x].req.principal.type # "ai"
      BY <1>1, <1>3 DEF CallInv
    <2>1. CASE x = e
      <3>1. call'[e] = [busy |-> TRUE, req |-> r, grant |-> g, at |-> now, hash |-> policy]
        BY <1>1, <1>3
      <3> QED
        BY <1>2, <1>4, <2>1, <3>1
    <2>2. CASE x # e
      BY <1>1, <1>3, <2>2 DEF ContractInv, CallInv
    <2> QED
      BY <2>1, <2>2
  <1> QED
    BY <1>1, <1>5 DEF ContractInv, GrantInv, HitsInv, SpacedInv, IntentInv, GrantedOnce, IntentWasGranted

\* ConsumeGrantAndCreateIntent: what checkBinding compares makes the intent the grant's.
LEMMA ConsumeKeepsInv ==
    ASSUME ContractInv, NEW e \in Executors, ConsumeGrantAndCreateIntent(e)
    PROVE  ContractInv'
  <1> DEFINE c == call[e]
             new == [id |-> Cardinality(intents), grant |-> c.grant.id, principal |-> c.req.principal,
                     action |-> c.req.action, targets |-> c.req.targets, at |-> c.at,
                     destructive |-> EffectiveImpact(c.req) >= Destructive]
  <1>1. /\ c.busy /\ call' = [call EXCEPT ![e] = Idle]
        /\ UNCHANGED <<now, policy, hits, grants, used>>
        /\ IF ConsumeGrant(c.grant, c.req, c.hash, c.at) = "ok"
             THEN consumed' = consumed \cup {c.grant.id} /\ intents' = intents \cup {new}
             ELSE UNCHANGED <<consumed, intents>>
    BY DEF ConsumeGrantAndCreateIntent
  <1>2. c.grant \in grants /\ c.at \in c.grant.at .. now /\ c.req.principal.type # "ai"
    BY <1>1 DEF ContractInv, CallInv
  <1>3. CallInv'
    <2>1. DOMAIN call = Executors
      BY DEF ContractInv, CallInv
    <2>2. \A x \in Executors : call'[x].busy => x # e /\ call'[x] = call[x]
      BY <1>1, <2>1 DEF Idle
    <2> QED
      BY <1>1, <2>1, <2>2 DEF ContractInv, CallInv
  <1>4. IntentInv'
    <2>1. CASE ConsumeGrant(c.grant, c.req, c.hash, c.at) # "ok"
      BY <1>1, <2>1 DEF ContractInv, IntentInv, GrantedOnce, IntentWasGranted
    <2>2. CASE ConsumeGrant(c.grant, c.req, c.hash, c.at) = "ok"
      <3>1. consumed' = consumed \cup {c.grant.id} /\ intents' = intents \cup {new} /\ grants' = grants
        BY <1>1, <2>2
      <3>2. c.grant.id \notin consumed /\ checkBinding(c.grant, c.req, c.hash, c.at) = "ok"
        BY <2>2 DEF ConsumeGrant
      <3>3. /\ c.grant.at \in Nat /\ c.grant.expires = c.grant.at + GrantTTL /\ c.at \in Nat
            /\ c.at \in c.grant.at .. now /\ now \in Nat
            /\ c.grant.principal = c.grant.request[2] /\ c.grant.action = c.grant.request[3]
            /\ c.grant.targets = c.grant.request[4]
            /\ Cardinality(c.grant.targets) > DefaultPolicy.SoftBlastRadius => c.grant.by = "ap1"
        BY <1>2 DEF ContractInv, GrantInv
      <3>4. /\ c.at < c.grant.expires /\ c.grant.request = RequestHash(c.req)
            /\ c.grant.action = c.req.action /\ c.grant.targets = canonicalTargets(c.req.targets)
        BY <3>2, <3>3 DEF checkBinding, GrantTTL, TargetsHash
      <3>5. c.grant.principal = c.req.principal
        BY <3>3, <3>4 DEF RequestHash
      <3>6. c.at \in c.grant.at .. (c.grant.expires - 1)
        BY <3>3, <3>4 DEF GrantTTL
      <3>7. /\ new.grant = c.grant.id /\ new.principal = c.req.principal /\ new.action = c.req.action
            /\ new.targets = c.req.targets /\ new.at = c.at
        OBVIOUS
      <3> HIDE DEF c, new
      <3>8. \A i \in intents' : i \in intents \/ i = new
        BY <3>1
      <3>9. IntentWasGranted'
        <4> SUFFICES ASSUME NEW i \in intents'
                     PROVE  \E g \in grants :
                              /\ g.id = i.grant /\ g.principal = i.principal /\ g.action = i.action
                              /\ g.targets = canonicalTargets(i.targets)
                              /\ i.at \in g.at .. (g.expires - 1) /\ i.principal.type # "ai"
                              /\ Cardinality(g.targets) > DefaultPolicy.SoftBlastRadius => g.by = "ap1"
          BY <3>1 DEF IntentWasGranted
        <4>1. CASE i \in intents
          BY <4>1 DEF ContractInv, IntentInv, IntentWasGranted
        <4>2. CASE i = new
          <5>1. /\ c.grant.id = i.grant /\ c.grant.principal = i.principal /\ c.grant.action = i.action
                /\ c.grant.targets = canonicalTargets(i.targets)
                /\ i.at \in c.grant.at .. (c.grant.expires - 1) /\ i.principal.type # "ai"
                /\ Cardinality(c.grant.targets) > DefaultPolicy.SoftBlastRadius => c.grant.by = "ap1"
            BY <1>2, <3>3, <3>4, <3>5, <3>6, <3>7, <4>2 DEF c
          <5>2. c.grant \in grants
            BY <1>2 DEF c
          <5> QED
            BY <5>1, <5>2, Zenon
        <4> QED
          BY <3>8, <4>1, <4>2
      <3>10. \A i \in intents' : i.grant \in consumed'
        BY <3>1, <3>7, <3>8 DEF ContractInv, IntentInv
      <3>11. GrantedOnce'
        BY <3>1, <3>2, <3>7, <3>8 DEF ContractInv, IntentInv, GrantedOnce
      <3> QED
        BY <3>9, <3>10, <3>11 DEF IntentInv
    <2> QED
      BY <2>1, <2>2
  <1>5. now' = now /\ grants' = grants /\ used' = used /\ hits' = hits
    BY <1>1
  <1> QED
    BY <1>3, <1>4, <1>5 DEF ContractInv, GrantInv, HitsInv, SpacedInv

LEMMA ContractStep == ASSUME ContractInv, [FabricNext]_fabricVars PROVE ContractInv'
  <1>1. CASE UNCHANGED contractVars
    BY <1>1 DEF contractVars, ContractInv, GrantInv, CallInv, HitsInv, SpacedInv, IntentInv,
       GrantedOnce, IntentWasGranted
  <1>2. CASE ChangePolicy
    <2>1. UNCHANGED <<now, hits, grants, used, consumed, intents, call>>
      BY <1>2 DEF ChangePolicy
    <2> QED
      BY <2>1 DEF ContractInv, GrantInv, CallInv, HitsInv, SpacedInv, IntentInv, GrantedOnce, IntentWasGranted
  <1>3. CASE Later
    <2>1. now' = now + 1 /\ now \in Nat /\ UNCHANGED <<hits, grants, used, consumed, intents, call>>
      BY <1>3 DEF Later, ContractInv
    <2>2. GrantInv'
      BY <2>1 DEF ContractInv, GrantInv
    <2>3. CallInv'
      <3>1. \A e \in Executors : call[e].busy => call[e].grant.at \in Nat
        BY DEF ContractInv, CallInv, GrantInv
      <3> QED
        BY <2>1, <3>1 DEF ContractInv, CallInv
    <2>4. HitsInv'
      <3>1. ASSUME NEW g \in grants, g.at + Minute > now + 1
            PROVE  g.at + Minute > now
        BY <2>1, <3>1 DEF ContractInv, GrantInv, Minute
      <3> QED
        BY <2>1, <3>1 DEF ContractInv, HitsInv
    <2>5. SpacedInv' /\ IntentInv'
      BY <2>1 DEF ContractInv, SpacedInv, IntentInv, GrantedOnce, IntentWasGranted
    <2> QED
      BY <2>1, <2>2, <2>3, <2>4, <2>5 DEF ContractInv
  <1>4. CASE ContractNext
    BY <1>2, <1>3, <1>4, AskKeepsInv, FinalizeKeepsInv, StartKeepsInv, ConsumeKeepsInv DEF ContractNext
  <1>5. CASE TrustPart \/ LimitPart \/ AccessPart \/ AgentPart \/ CodecPart
    BY <1>1, <1>5 DEF TrustPart, LimitPart, AccessPart, AgentPart, CodecPart
  <1>6. CASE UNCHANGED fabricVars
    BY <1>1, <1>6 DEF fabricVars
  <1> QED
    BY <1>4, <1>5, <1>6 DEF FabricNext, ContractPart

LEMMA ContractInductive == FabricSpec => []ContractInv
  <1>1. FabricInit => ContractInv
    <2> SUFFICES ASSUME FabricInit PROVE ContractInv
      OBVIOUS
    <2>1. /\ now = 0 /\ hits = <<>> /\ grants = {} /\ intents = {}
          /\ call = [e \in Executors |-> Idle]
      BY DEF FabricInit, ContractInit
    <2>2. DOMAIN hits = {}
      BY <2>1
    <2>3. CallInv
      BY <2>1 DEF CallInv, Idle
    <2> QED
      BY <2>1, <2>2, <2>3 DEF ContractInv, GrantInv, HitsInv, SpacedInv, IntentInv, GrantedOnce, IntentWasGranted
  <1>2. ContractInv /\ [FabricNext]_fabricVars => ContractInv'
    BY ContractStep
  <1> QED
    BY <1>1, <1>2, PTL DEF FabricSpec

\* In a window of a minute one principal has one counted grant at most.
LEMMA SpacedIsRate == ASSUME ContractInv PROVE RateHolds
  <1> SUFFICES ASSUME NEW t \in 0 .. now, NEW p
               PROVE  Cardinality({g \in grants : /\ g.by = "gateway" /\ g.principal = p
                                                  /\ ImpactOf(g.action) >= HighImpact
                                                  /\ g.at \in t .. (t + Minute - 1)})
                        <= DefaultPolicy.HighImpactPerMin
    BY DEF RateHolds
  <1> DEFINE S == {g \in grants : /\ g.by = "gateway" /\ g.principal = p
                                  /\ ImpactOf(g.action) >= HighImpact
                                  /\ g.at \in t .. (t + Minute - 1)}
  <1>1. ASSUME NEW g \in S, NEW h \in S PROVE g = h
    <2>1. g \in grants /\ h \in grants /\ Rated(g) /\ Rated(h) /\ g.principal = h.principal
      BY DEF Rated
    <2>2. g = h \/ g.at + Minute <= h.at \/ h.at + Minute <= g.at
      BY <2>1 DEF ContractInv, SpacedInv
    <2>3. g.at \in t .. (t + 1) /\ h.at \in t .. (t + 1) /\ t \in Int
      BY DEF Minute, ContractInv
    <2> QED
      BY <2>2, <2>3 DEF Minute
  <1> HIDE DEF S
  <1>2. S = {} \/ \E x : S = {x}
    BY <1>1
  <1>3. Cardinality(S) = 0 \/ Cardinality(S) = 1
    BY <1>2, FS_EmptySet, FS_Singleton
  <1>4. Cardinality(S) <= DefaultPolicy.HighImpactPerMin
    BY <1>3 DEF DefaultPolicy
  <1> QED
    BY <1>4 DEF S

\* A grant is used for one intent and an approval for one grant; an intent does what its
\* grant was given for, in its time, never for an AI principal and on several devices only
\* after a second person's approval; and no principal has more high-impact grants in a minute
\* than the policy allows.  For any number of executors and grants, with the clock and the
\* policy moving between each decision and its use.
THEOREM GrantsAreHonoured == FabricSpec => []GrantsHold
  <1>1. ContractInv => GrantsHold
    BY SpacedIsRate DEF ContractInv, IntentInv, GrantsHold
  <1> QED
    BY <1>1, ContractInductive, PTL

-----------------------------------------------------------------------------
(* Limits and replay guards *)

RateGuards == {"limiter", "layered", "scope"}
IsMap(f) == f = [k \in DOMAIN f |-> f[k]]

\* Token buckets: what a call leaves is less than the burst, so a bucket in use is never pruned.
Buckets(bs, at) == IsMap(bs) /\ \A k \in DOMAIN bs : bs[k] \in [tokens : 0..1, last : 1..at]
LimiterInv == guard = "limiter" => Buckets(table, tick) /\ full = table
LayeredInv ==
  guard = "layered" =>
    /\ table = [global |-> table.global, tenant |-> table.tenant] /\ full = table
    /\ Buckets(table.global, tick) /\ Buckets(table.tenant, tick)

\* What the sweep of the scope engine took is full again.
ScopeTables(t, f, at) ==
  /\ t = [rl |-> t.rl, lastSweep |-> t.lastSweep] /\ f = [rl |-> f.rl, lastSweep |-> f.lastSweep]
  /\ IsMap(t.rl) /\ IsMap(f.rl)
  /\ \A k \in DOMAIN f.rl : f.rl[k] \in [tokens : {0}, rate : {1}, last : 1..at]
  /\ \A k \in DOMAIN t.rl : k \in DOMAIN f.rl /\ t.rl[k] = f.rl[k]
  /\ \A k \in DOMAIN f.rl \ DOMAIN t.rl : at > f.rl[k].last
ScopeInv == guard = "scope" => ScopeTables(table, full, tick)

\* What gc collected is unlocked and out of its window.
LoginTables(t, f, at) ==
  /\ t = [recs |-> t.recs, lastGC |-> t.lastGC] /\ f = [recs |-> f.recs, lastGC |-> f.lastGC]
  /\ IsMap(t.recs) /\ IsMap(f.recs)
  /\ \A k \in DOMAIN f.recs : f.recs[k] \in [count : Nat, windowStart : 1..at, lockedUntil : Nat]
  /\ \A k \in DOMAIN t.recs : k \in DOMAIN f.recs /\ t.recs[k] = f.recs[k]
  /\ \A k \in DOMAIN f.recs \ DOMAIN t.recs :
       at > f.recs[k].lockedUntil /\ at - f.recs[k].windowStart > LoginWindow
LoginInv == guard = "login" => LoginTables(table, full, tick)

\* A nonce that was dropped has expired, and so has one that is not in the table any more.
Nonces(t, f, at) ==
  /\ IsMap(t) /\ IsMap(f)
  /\ \A k \in DOMAIN f : f[k] = 1 + TTL
  /\ \A k \in DOMAIN t : k \in DOMAIN f /\ t[k] = 1 + TTL
  /\ \A k \in DOMAIN f \ DOMAIN t : at >= 1 + TTL
VerifierInv ==
  guard = "verifier" =>
    /\ Nonces(table, full, tick)
    /\ \A i \in DOMAIN log : log[i][1] < 1 + TTL /\ tick < 1 + TTL => log[i][2] \in DOMAIN table
    /\ AcceptedOnce

\* A message that passed is remembered until its window is over.
ReplayInv ==
  guard = "replay" =>
    /\ IsMap(table) /\ \A k \in DOMAIN table : table[k] = 1
    /\ \A i \in DOMAIN log : log[i][2][1] \in DOMAIN table \/ tick > 1 + Window
    /\ ReplayNeedsSweep

\* A call under way holds one of the slots that are counted.
AdaptiveInv ==
  guard = "adaptive" =>
    /\ table \in [limit : AdaptiveMin..AdaptiveMax, inflight : 0..AdaptiveMax, streak : Nat]
    /\ IsFiniteSet(flight) /\ table.inflight = Cardinality(flight)
    /\ \A f \in flight : f.seq \in Nat /\ f.seq < calls

\* The calls from the i-th to the j-th that draw on the same bucket as the i-th, and that
\* bucket, in the table that forgets nothing.
Drawn(i, j) == {n \in i..j : guard = "layered" \/ log[n][2] = log[i][2]}
BurstOf == IF guard = "scope" THEN 1 ELSE Burst
Purse(f, g) == CASE g = "layered" -> f.global [] g = "scope" -> f.rl [] OTHER -> f
PurseKey(k, g) == IF g = "layered" THEN "*" ELSE k

\* What was drawn since the i-th call and what is left is no more than the burst and what time gave.
Balance ==
  \A i \in DOMAIN log :
    LET k == PurseKey(log[i][2], guard)
    IN  /\ k \in DOMAIN Purse(full, guard)
        /\ Cardinality(Drawn(i, Len(log))) + Purse(full, guard)[k].tokens
             <= BurstOf + Purse(full, guard)[k].last - log[i][1]
InRate == \A i, j \in DOMAIN log : i <= j => Cardinality(Drawn(i, j)) <= BurstOf + (log[j][1] - log[i][1])
RateInv == guard \in RateGuards => InRate /\ Balance

LogKeys == IF guard = "replay" THEN Keys \X Nat ELSE Keys
LimitTypes ==
  /\ guard \in Guards /\ tick \in Nat \ {0} /\ calls \in Nat
  /\ log \in Seq(Nat \X LogKeys) /\ \A i \in DOMAIN log : log[i][1] \in 1..tick
  /\ \A f \in flight : guard = "replay" => f.key \in Keys /\ f.at \in Nat
LimitInv ==
  /\ LimitTypes /\ LimiterInv /\ LayeredInv /\ ScopeInv /\ LoginInv /\ VerifierInv /\ ReplayInv
  /\ AdaptiveInv /\ RateInv

-----------------------------------------------------------------------------

\* Put keeps maps.
LEMMA PutMap ==
    ASSUME NEW f, NEW k, NEW v
    PROVE  /\ IsMap(Put(f, k, v)) /\ (\A x : x \in DOMAIN Put(f, k, v) <=> x \in DOMAIN f \/ x = k)
           /\ Put(f, k, v)[k] = v /\ \A x \in DOMAIN f : x # k => Put(f, k, v)[x] = f[x]
  BY DEF Put, IsMap

\* Restrict keeps the entries of the keys it is given.
LEMMA RestrictMap ==
    ASSUME NEW f, NEW S
    PROVE  /\ IsMap(Restrict(f, S)) /\ (\A x : x \in DOMAIN Restrict(f, S) <=> x \in S)
           /\ \A x \in S : Restrict(f, S)[x] = f[x]
  BY DEF Restrict, IsMap

\* Over takes the entries of the first map and adds those that only the second one has.
LEMMA OverMap ==
    ASSUME NEW f, NEW g
    PROVE  /\ IsMap(Over(f, g)) /\ (\A x : x \in DOMAIN Over(f, g) <=> x \in DOMAIN f \/ x \in DOMAIN g)
           /\ \A x \in DOMAIN f : Over(f, g)[x] = f[x]
           /\ \A x \in DOMAIN g \ DOMAIN f : Over(f, g)[x] = g[x]
  BY DEF Over, IsMap

\* A map that has all keys already takes nothing over.
LEMMA OverSelf ==
    ASSUME NEW f, NEW g, IsMap(f), DOMAIN g \subseteq DOMAIN f
    PROVE  Over(f, g) = f
  BY DEF Over, IsMap

\* The limiter never prunes, spends a token for a call that passes and gives at most the rate.
LEMMA LimiterSpends ==
    ASSUME NEW at \in Nat \ {0}, NEW bs, Buckets(bs, at), NEW key
    PROVE  LET r == LimiterAllow(bs, key, at)
           IN  /\ Buckets(r.t, at)
               /\ \A x : x \in DOMAIN r.t <=> x \in DOMAIN bs \/ x = key
               /\ \A k \in DOMAIN bs \ {key} : r.t[k] = bs[k]
               /\ r.t[key].last = at
               /\ r.t[key].tokens + (IF r.ok THEN 1 ELSE 0) <= Burst
               /\ key \in DOMAIN bs => r.t[key].tokens + (IF r.ok THEN 1 ELSE 0) <= bs[key].tokens + at - bs[key].last
  <1> DEFINE b == IF key \in DOMAIN bs THEN bs[key] ELSE [tokens |-> Burst, last |-> at]
             refilled == b.tokens + (at - b.last) * Rate
             tokens == IF at > b.last THEN IF refilled > Burst THEN Burst ELSE refilled ELSE b.tokens
             left == IF tokens >= 1 THEN tokens - 1 ELSE tokens
             ok == tokens >= 1
             r == LimiterAllow(bs, key, at)
  <1>1. pruneLocked(bs, at) = bs
    <2>1. \A k \in DOMAIN bs : ~(bs[k].tokens >= Burst /\ at - bs[k].last > PruneAge)
      BY DEF Buckets, Burst
    <2>2. {k \in DOMAIN bs : ~(bs[k].tokens >= Burst /\ at - bs[k].last > PruneAge)} = DOMAIN bs
      BY <2>1
    <2> QED
      BY <2>2 DEF pruneLocked, Restrict, Buckets, IsMap
  <1>2. r = [ok |-> ok, t |-> Put(bs, key, [tokens |-> left, last |-> at])]
    BY <1>1 DEF LimiterAllow
  <1>3. b.tokens \in 0..2 /\ b.last \in 1..at /\ (key \in DOMAIN bs => b = bs[key])
    BY DEF Buckets, Burst
  <1>4. /\ tokens \in 0..2 /\ left \in 0..1 /\ left + (IF ok THEN 1 ELSE 0) = tokens
        /\ tokens <= b.tokens + at - b.last
    BY <1>3 DEF Burst, Rate
  <1> HIDE DEF b, refilled, tokens, left
  <1>5. r.t = Put(bs, key, [tokens |-> left, last |-> at]) /\ r.ok = ok
    BY <1>2
  <1> HIDE DEF r, ok
  <1>6. /\ IsMap(r.t) /\ DOMAIN r.t = DOMAIN bs \cup {key}
        /\ r.t[key] = [tokens |-> left, last |-> at]
        /\ \A x \in DOMAIN bs : x # key => r.t[x] = bs[x]
    BY <1>5, PutMap
  <1>7. Buckets(r.t, at)
    BY <1>4, <1>6 DEF Buckets
  <1>8. (IF r.ok THEN 1 ELSE 0) = (IF ok THEN 1 ELSE 0)
    BY <1>5
  <1>9. /\ r.t[key].last = at /\ r.t[key].tokens + (IF r.ok THEN 1 ELSE 0) = tokens
        /\ tokens <= Burst
        /\ key \in DOMAIN bs => tokens <= bs[key].tokens + at - bs[key].last
    BY <1>3, <1>4, <1>6, <1>8 DEF Burst
  <1> QED
    BY <1>6, <1>7, <1>8, <1>9 DEF r

\* The record update of LayeredAllow.
LEMMA SpendGlobal ==
    ASSUME NEW ls, NEW a, NEW b, NEW c, ls = [global |-> a, tenant |-> b]
    PROVE  [ls EXCEPT !.global = c] = [global |-> c, tenant |-> b]
  OBVIOUS

\* The same through the layers: every call that passes has drawn on the global bucket.
LayersSpent(ls, r, at) ==
  /\ r.t = [global |-> r.t.global, tenant |-> r.t.tenant]
  /\ Buckets(r.t.global, at) /\ Buckets(r.t.tenant, at)
  /\ \A x : x \in DOMAIN r.t.global <=> x \in DOMAIN ls.global \/ x = "*"
  /\ DOMAIN ls.tenant \subseteq DOMAIN r.t.tenant
  /\ r.t.global["*"].last = at
  /\ r.t.global["*"].tokens + (IF r.ok THEN 1 ELSE 0) <= Burst
  /\ "*" \in DOMAIN ls.global =>
       r.t.global["*"].tokens + (IF r.ok THEN 1 ELSE 0) <= ls.global["*"].tokens + at - ls.global["*"].last

\* What LayersSpent says holds after every call through the layers.
LEMMA LayersSpend ==
    ASSUME NEW at \in Nat \ {0}, NEW ls, NEW key \in Keys, ls = [global |-> ls.global, tenant |-> ls.tenant],
           Buckets(ls.global, at), Buckets(ls.tenant, at)
    PROVE  LayersSpent(ls, LayeredAllow(ls, key, at), at)
  <1> DEFINE g == LimiterAllow(ls.global, "*", at)
             t == LimiterAllow(ls.tenant, key, at)
             r == LayeredAllow(ls, key, at)
  <1>1. /\ Buckets(g.t, at) /\ DOMAIN g.t = DOMAIN ls.global \cup {"*"}
        /\ g.t["*"].last = at /\ g.t["*"].tokens + (IF g.ok THEN 1 ELSE 0) <= Burst
        /\ "*" \in DOMAIN ls.global =>
             g.t["*"].tokens + (IF g.ok THEN 1 ELSE 0) <= ls.global["*"].tokens + at - ls.global["*"].last
    BY LimiterSpends
  <1>2. Buckets(t.t, at) /\ DOMAIN t.t = DOMAIN ls.tenant \cup {key}
    BY LimiterSpends
  <1>3. /\ r.t = [global |-> r.t.global, tenant |-> r.t.tenant] /\ r.t.global = g.t
        /\ r.t.tenant \in {ls.tenant, t.t} /\ (r.ok => g.ok)
    <2> HIDE DEF g, t
    <2>1. [ls EXCEPT !.global = g.t] = [global |-> g.t, tenant |-> ls.tenant]
      BY SpendGlobal
    <2>2. r = IF ~g.ok THEN [ok |-> FALSE, t |-> [global |-> g.t, tenant |-> ls.tenant]]
              ELSE [ok |-> key = "" \/ t.ok, t |-> [global |-> g.t, tenant |-> IF key = "" THEN ls.tenant ELSE t.t]]
      BY <2>1 DEF LayeredAllow, g, t
    <2> HIDE DEF r
    <2>3. CASE g.ok
      <3>1. r = [ok |-> key = "" \/ t.ok, t |-> [global |-> g.t, tenant |-> IF key = "" THEN ls.tenant ELSE t.t]]
        BY <2>2, <2>3
      <3> QED
        BY <2>3, <3>1
    <2>4. CASE ~g.ok
      <3>1. r.t = [global |-> g.t, tenant |-> ls.tenant] /\ ~r.ok
        BY <2>2, <2>4
      <3> QED
        BY <3>1
    <2> QED
      BY <2>3, <2>4
  <1>4. g.t["*"].tokens \in Nat /\ g.t["*"].last \in Nat
    BY <1>1 DEF Buckets
  <1>5. "*" \in DOMAIN ls.global => ls.global["*"].tokens \in Nat /\ ls.global["*"].last \in Nat
    BY DEF Buckets
  <1> HIDE DEF g, t, r
  <1>7. (IF r.ok THEN 1 ELSE 0) <= (IF g.ok THEN 1 ELSE 0)
    BY <1>3
  <1>8. /\ g.t["*"].tokens + (IF r.ok THEN 1 ELSE 0) <= Burst
        /\ "*" \in DOMAIN ls.global =>
             g.t["*"].tokens + (IF r.ok THEN 1 ELSE 0) <= ls.global["*"].tokens + at - ls.global["*"].last
    BY <1>1, <1>4, <1>5, <1>7 DEF Burst
  <1>9. Buckets(r.t.tenant, at) /\ DOMAIN ls.tenant \subseteq DOMAIN r.t.tenant
    BY <1>2, <1>3
  <1> QED
    BY <1>1, <1>3, <1>8, <1>9 DEF LayersSpent, r

\* A bucket of the scope engine after a call.
ScopeBucket(at) == [tokens : {0}, rate : {1}, last : 1..at]

\* What one call of the scope engine answers, keeps and sweeps.
LEMMA ScopeSpends ==
    ASSUME NEW at \in Nat \ {0}, NEW s, NEW key, s = [rl |-> s.rl, lastSweep |-> s.lastSweep],
           IsMap(s.rl), \A k \in DOMAIN s.rl : s.rl[k] \in ScopeBucket(at)
    PROVE  LET r == ScopeAllow(s, key, at)
           IN  /\ r.t = [rl |-> r.t.rl, lastSweep |-> r.t.lastSweep] /\ IsMap(r.t.rl)
               /\ key \in DOMAIN r.t.rl /\ DOMAIN r.t.rl \subseteq DOMAIN s.rl \cup {key}
               /\ r.t.rl[key] = [tokens |-> 0, rate |-> 1, last |-> at]
               /\ \A k \in DOMAIN r.t.rl : k # key => r.t.rl[k] = s.rl[k]
               /\ \A k \in DOMAIN s.rl \ DOMAIN r.t.rl : at > s.rl[k].last
               /\ r.ok = (key \in DOMAIN s.rl => at > s.rl[key].last)
  <1> DEFINE put == Put(s.rl, key, Fresh)
             grown == IF key \in DOMAIN s.rl THEN s ELSE maybeSweepLocked(put, s.lastSweep, at)
             x == allow(grown.rl[key], 1, at)
             r == ScopeAllow(s, key, at)
  <1>1. r = [ok |-> x.ok, t |-> [rl |-> Put(grown.rl, key, x.b), lastSweep |-> grown.lastSweep]]
    BY DEF ScopeAllow
  <1>2. /\ IsMap(grown.rl) /\ key \in DOMAIN grown.rl
        /\ DOMAIN grown.rl \subseteq DOMAIN s.rl \cup {key}
        /\ key \in DOMAIN s.rl => grown.rl[key] = s.rl[key]
        /\ key \notin DOMAIN s.rl => grown.rl[key] = Fresh
        /\ \A k \in DOMAIN grown.rl : k # key => grown.rl[k] = s.rl[k]
        /\ \A k \in DOMAIN s.rl \ DOMAIN grown.rl : at > s.rl[k].last
    <2>1. CASE key \in DOMAIN s.rl
      BY <2>1
    <2>2. CASE key \notin DOMAIN s.rl
      <3> DEFINE S == {k \in DOMAIN put : ~evictable(put[k], at)}
      <3>1. /\ IsMap(put) /\ DOMAIN put = DOMAIN s.rl \cup {key}
            /\ put[key] = Fresh /\ \A k \in DOMAIN s.rl : k # key => put[k] = s.rl[k]
        BY PutMap
      <3>2. grown.rl = put \/ grown.rl = Restrict(put, S)
        BY <2>2 DEF maybeSweepLocked
      <3>3. ~evictable(Fresh, at)
        BY DEF evictable, Fresh
      <3>4. \A k \in DOMAIN s.rl : evictable(s.rl[k], at) => at > s.rl[k].last
        BY DEF evictable, ScopeBucket, limiterIdleTTL
      <3>5. CASE grown.rl = put
        BY <2>2, <3>1, <3>5
      <3>6. CASE grown.rl = Restrict(put, S)
        <4>1. IsMap(grown.rl) /\ DOMAIN grown.rl = S /\ \A k \in S : grown.rl[k] = put[k]
          BY <3>6, RestrictMap
        <4>2. key \in S
          BY <3>1, <3>3
        <4>3. \A k \in DOMAIN s.rl \ S : at > s.rl[k].last
          BY <2>2, <3>1, <3>4
        <4> HIDE DEF grown
        <4> QED
          BY <2>2, <3>1, <4>1, <4>2, <4>3
      <3> QED
        BY <3>2, <3>5, <3>6
    <2> QED
      BY <2>1, <2>2
  <1>3. grown.rl[key] = Fresh \/ grown.rl[key] \in ScopeBucket(at)
    BY <1>2
  <1>4. /\ x.b = [tokens |-> 0, rate |-> 1, last |-> at]
        /\ x.ok = (key \in DOMAIN s.rl => at > s.rl[key].last)
    <2> HIDE DEF grown
    <2>1. CASE key \in DOMAIN s.rl
      <3>1. grown.rl[key] = s.rl[key] /\ s.rl[key] \in ScopeBucket(at)
        BY <1>2, <2>1
      <3> QED
        BY <2>1, <3>1 DEF allow, ScopeBucket
    <2>2. CASE key \notin DOMAIN s.rl
      BY <1>2, <2>2 DEF allow, Fresh
    <2> QED
      BY <2>1, <2>2
  <1> HIDE DEF grown, x, r
  <1>7. r.t.rl = Put(grown.rl, key, x.b) /\ r.t = [rl |-> r.t.rl, lastSweep |-> r.t.lastSweep] /\ r.ok = x.ok
    BY <1>1
  <1>5. /\ IsMap(r.t.rl) /\ DOMAIN r.t.rl = DOMAIN grown.rl \cup {key}
        /\ r.t.rl[key] = x.b /\ \A k \in DOMAIN grown.rl : k # key => r.t.rl[k] = grown.rl[k]
    BY <1>7, PutMap
  <1> QED
    BY <1>2, <1>4, <1>5, <1>7 DEF r

\* The engine that sweeps and the one that does not give the same answers.
ScopeSame(f, r, q, h, key, at) ==
  /\ ScopeTables(r.t, h, at) /\ r.ok = q.ok
  /\ \A x : x \in DOMAIN h.rl <=> x \in DOMAIN f.rl \/ x = key
  /\ \A k \in DOMAIN f.rl : k # key => h.rl[k] = f.rl[k]
  /\ h.rl[key] = [tokens |-> 0, rate |-> 1, last |-> at]
  /\ q.ok /\ key \in DOMAIN f.rl => at > f.rl[key].last

\* And ScopeSame after every call of the scope engine.
LEMMA ScopeAgrees ==
    ASSUME NEW at \in Nat \ {0}, NEW t, NEW f, NEW key, ScopeTables(t, f, at)
    PROVE  LET q == ScopeAllow(f, key, at)
           IN  ScopeSame(f, ScopeAllow(t, key, at), q, [rl |-> Over(q.t.rl, f.rl), lastSweep |-> q.t.lastSweep], key, at)
  <1> DEFINE r == ScopeAllow(t, key, at)
             q == ScopeAllow(f, key, at)
             h == [rl |-> Over(q.t.rl, f.rl), lastSweep |-> q.t.lastSweep]
  <1>1. /\ \A k \in DOMAIN f.rl : f.rl[k] \in ScopeBucket(at)
        /\ \A k \in DOMAIN t.rl : t.rl[k] \in ScopeBucket(at)
        /\ t = [rl |-> t.rl, lastSweep |-> t.lastSweep] /\ f = [rl |-> f.rl, lastSweep |-> f.lastSweep]
        /\ IsMap(t.rl) /\ IsMap(f.rl)
    BY DEF ScopeTables, ScopeBucket
  <1>2. /\ r.t = [rl |-> r.t.rl, lastSweep |-> r.t.lastSweep] /\ IsMap(r.t.rl)
        /\ key \in DOMAIN r.t.rl /\ DOMAIN r.t.rl \subseteq DOMAIN t.rl \cup {key}
        /\ r.t.rl[key] = [tokens |-> 0, rate |-> 1, last |-> at]
        /\ \A k \in DOMAIN r.t.rl : k # key => r.t.rl[k] = t.rl[k]
        /\ \A k \in DOMAIN t.rl \ DOMAIN r.t.rl : at > t.rl[k].last
        /\ r.ok = (key \in DOMAIN t.rl => at > t.rl[key].last)
    BY <1>1, ScopeSpends
  <1>3. /\ q.t = [rl |-> q.t.rl, lastSweep |-> q.t.lastSweep] /\ IsMap(q.t.rl)
        /\ key \in DOMAIN q.t.rl /\ DOMAIN q.t.rl \subseteq DOMAIN f.rl \cup {key}
        /\ q.t.rl[key] = [tokens |-> 0, rate |-> 1, last |-> at]
        /\ \A k \in DOMAIN q.t.rl : k # key => q.t.rl[k] = f.rl[k]
        /\ \A k \in DOMAIN f.rl \ DOMAIN q.t.rl : at > f.rl[k].last
        /\ q.ok = (key \in DOMAIN f.rl => at > f.rl[key].last)
    BY <1>1, ScopeSpends
  <1>4. /\ IsMap(h.rl) /\ DOMAIN h.rl = DOMAIN f.rl \cup {key}
        /\ h.rl[key] = [tokens |-> 0, rate |-> 1, last |-> at]
        /\ \A k \in DOMAIN f.rl : k # key => h.rl[k] = f.rl[k]
    <2>1. h.rl = Over(q.t.rl, f.rl)
      OBVIOUS
    <2> HIDE DEF h, q
    <2>2. /\ IsMap(h.rl) /\ \A x : x \in DOMAIN h.rl <=> x \in DOMAIN q.t.rl \/ x \in DOMAIN f.rl
          /\ \A x \in DOMAIN q.t.rl : h.rl[x] = q.t.rl[x]
          /\ \A x \in DOMAIN f.rl \ DOMAIN q.t.rl : h.rl[x] = f.rl[x]
      BY <2>1, OverMap
    <2> QED
      BY <1>3, <2>2
  <1>5. h = [rl |-> h.rl, lastSweep |-> h.lastSweep]
    OBVIOUS
  <1> HIDE DEF r, q, h
  <1>6. r.ok = q.ok
    BY <1>2, <1>3 DEF ScopeTables
  <1>7. \A k \in DOMAIN h.rl : h.rl[k] \in [tokens : {0}, rate : {1}, last : 1..at]
    BY <1>1, <1>4 DEF ScopeBucket
  <1>8. \A k \in DOMAIN r.t.rl : k \in DOMAIN h.rl /\ r.t.rl[k] = h.rl[k]
    BY <1>2, <1>4 DEF ScopeTables
  <1>9. \A k \in DOMAIN h.rl \ DOMAIN r.t.rl : at > h.rl[k].last
    BY <1>2, <1>4 DEF ScopeTables
  <1>10. ScopeTables(r.t, h, at)
    BY <1>2, <1>4, <1>5, <1>7, <1>8, <1>9 DEF ScopeTables
  <1> QED
    BY <1>3, <1>4, <1>6, <1>10 DEF ScopeSame, r, q, h

\* What the verifier answers and keeps.
LEMMA VerifyAnswers ==
    ASSUME NEW at \in Nat \ {0}, NEW seen, NEW key, IsMap(seen), \A k \in DOMAIN seen : seen[k] = 1 + TTL
    PROVE  LET r == CommandVerify(seen, Sign(key, 1), at)
           IN  /\ r.ok = (at <= 1 + TTL /\ (key \in DOMAIN seen => at >= 1 + TTL))
               /\ IsMap(r.t) /\ \A k \in DOMAIN r.t : r.t[k] = 1 + TTL
               /\ \A x : x \in DOMAIN r.t <=> IF r.ok THEN (x \in DOMAIN seen /\ at < 1 + TTL) \/ x = key ELSE x \in DOMAIN seen
  <1> DEFINE env == Sign(key, 1)
             kept == Restrict(seen, {n \in DOMAIN seen : at < seen[n]})
             r == CommandVerify(seen, env, at)
  <1>1. env.nonce = key /\ env.expires = 1 + TTL
    BY DEF Sign
  <1>2. DOMAIN kept = {k \in DOMAIN seen : at < 1 + TTL} /\ \A k \in DOMAIN kept : kept[k] = 1 + TTL
    BY RestrictMap
  <1> HIDE DEF env, kept
  <1>3. r = IF at > 1 + TTL \/ (key \in DOMAIN seen /\ at < 1 + TTL) THEN [ok |-> FALSE, t |-> seen]
            ELSE [ok |-> TRUE, t |-> Put(kept, key, 1 + TTL)]
    BY <1>1 DEF CommandVerify, consumeNonce, kept, TTL
  <1>4. /\ IsMap(Put(kept, key, 1 + TTL)) /\ DOMAIN Put(kept, key, 1 + TTL) = DOMAIN kept \cup {key}
        /\ \A k \in DOMAIN kept \cup {key} : Put(kept, key, 1 + TTL)[k] = 1 + TTL
    BY <1>2, PutMap
  <1> HIDE DEF r
  <1>5. CASE at > 1 + TTL \/ (key \in DOMAIN seen /\ at < 1 + TTL)
    <2>1. r.t = seen /\ r.ok = FALSE
      BY <1>3, <1>5
    <2>2. (at <= 1 + TTL /\ (key \in DOMAIN seen => at >= 1 + TTL)) = FALSE
      BY <1>5 DEF TTL
    <2> QED
      BY <2>1, <2>2 DEF env, r
  <1>6. CASE ~(at > 1 + TTL \/ (key \in DOMAIN seen /\ at < 1 + TTL))
    <2>1. r.t = Put(kept, key, 1 + TTL) /\ r.ok = TRUE
      BY <1>3, <1>6
    <2>2. (at <= 1 + TTL /\ (key \in DOMAIN seen => at >= 1 + TTL)) = TRUE
      BY <1>6 DEF TTL
    <2>3. \A x : x \in DOMAIN r.t <=> (x \in DOMAIN seen /\ at < 1 + TTL) \/ x = key
      BY <1>2, <1>4, <2>1
    <2> QED
      BY <1>4, <2>1, <2>2, <2>3 DEF env, r
  <1> QED
    BY <1>5, <1>6

\* A verifier that prunes expired nonces answers like one that keeps them all.
LEMMA VerifierAgrees ==
    ASSUME NEW at \in Nat \ {0}, NEW t, NEW f, NEW key, Nonces(t, f, at)
    PROVE  LET r == CommandVerify(t, Sign(key, 1), at)
               q == CommandVerify(f, Sign(key, 1), at)
           IN  /\ Nonces(r.t, Over(q.t, f), at) /\ r.ok = q.ok
               /\ r.ok /\ at < 1 + TTL => key \notin DOMAIN t
               /\ r.ok => key \in DOMAIN r.t
               /\ at < 1 + TTL => DOMAIN t \subseteq DOMAIN r.t
  <1> DEFINE r == CommandVerify(t, Sign(key, 1), at)
             q == CommandVerify(f, Sign(key, 1), at)
  <1>1. /\ r.ok = (at <= 1 + TTL /\ (key \in DOMAIN t => at >= 1 + TTL))
        /\ IsMap(r.t) /\ \A k \in DOMAIN r.t : r.t[k] = 1 + TTL
        /\ \A x : x \in DOMAIN r.t <=> IF r.ok THEN (x \in DOMAIN t /\ at < 1 + TTL) \/ x = key ELSE x \in DOMAIN t
    BY VerifyAnswers DEF Nonces
  <1>2. /\ q.ok = (at <= 1 + TTL /\ (key \in DOMAIN f => at >= 1 + TTL))
        /\ IsMap(q.t) /\ \A k \in DOMAIN q.t : q.t[k] = 1 + TTL
        /\ \A x : x \in DOMAIN q.t <=> IF q.ok THEN (x \in DOMAIN f /\ at < 1 + TTL) \/ x = key ELSE x \in DOMAIN f
    BY VerifyAnswers DEF Nonces
  <1> HIDE DEF r, q
  <1>3. /\ IsMap(Over(q.t, f)) /\ DOMAIN Over(q.t, f) = DOMAIN q.t \cup DOMAIN f
        /\ \A k \in DOMAIN q.t \cup DOMAIN f : Over(q.t, f)[k] = 1 + TTL
    <2>1. \A k \in DOMAIN f : f[k] = 1 + TTL
      BY DEF Nonces
    <2>2. \A k \in DOMAIN q.t \cup DOMAIN f : Over(q.t, f)[k] = 1 + TTL
      BY <1>2, <2>1, OverMap
    <2> QED
      BY <2>2, OverMap
  <1>4. r.ok = q.ok
    BY <1>1, <1>2 DEF Nonces
  <1>5. Nonces(r.t, Over(q.t, f), at)
    BY <1>1, <1>2, <1>3, <1>4 DEF Nonces, TTL
  <1>7. r.ok => at <= 1 + TTL /\ (key \in DOMAIN t => at >= 1 + TTL)
    <2>1. CASE at <= 1 + TTL /\ (key \in DOMAIN t => at >= 1 + TTL)
      BY <2>1
    <2>2. CASE ~(at <= 1 + TTL /\ (key \in DOMAIN t => at >= 1 + TTL))
      <3>1. (at <= 1 + TTL /\ (key \in DOMAIN t => at >= 1 + TTL)) = FALSE
        BY <2>2
      <3>2. r.ok = FALSE
        BY <1>1, <3>1
      <3> QED
        BY <3>2
    <2> QED
      BY <2>1, <2>2
  <1>6. /\ r.ok /\ at < 1 + TTL => key \notin DOMAIN t
        /\ r.ok => key \in DOMAIN r.t
        /\ at < 1 + TTL => DOMAIN t \subseteq DOMAIN r.t
    BY <1>1, <1>7 DEF TTL
  <1> QED
    BY <1>4, <1>5, <1>6 DEF r, q

\* A key is let try unless it is locked, before and after the collection.
LEMMA AllowedMeans ==
    ASSUME NEW at \in Nat \ {0}, NEW l, NEW key, l = [recs |-> l.recs, lastGC |-> l.lastGC], IsMap(l.recs),
           \A k \in DOMAIN l.recs : l.recs[k] \in [count : Nat, windowStart : 1..at, lockedUntil : Nat]
    PROVE  LET r == allowed(l, key, at)
           IN  /\ r.ok = (key \in DOMAIN l.recs => at >= l.recs[key].lockedUntil)
               /\ r.t = [recs |-> r.t.recs, lastGC |-> r.t.lastGC] /\ IsMap(r.t.recs)
               /\ \A k \in DOMAIN r.t.recs : k \in DOMAIN l.recs /\ r.t.recs[k] = l.recs[k]
               /\ \A k \in DOMAIN l.recs \ DOMAIN r.t.recs :
                    at > l.recs[k].lockedUntil /\ at - l.recs[k].windowStart > LoginWindow
  <1> DEFINE S == {k \in DOMAIN l.recs : ~(at > l.recs[k].lockedUntil /\ at - l.recs[k].windowStart > LoginWindow)}
             x == gc(l, at)
             r == allowed(l, key, at)
  <1>1. x = l \/ x = [lastGC |-> at, recs |-> Restrict(l.recs, S)]
    BY DEF gc
  <1> HIDE DEF x
  <1>2. /\ x = [recs |-> x.recs, lastGC |-> x.lastGC] /\ IsMap(x.recs)
        /\ \A k \in DOMAIN x.recs : k \in DOMAIN l.recs /\ x.recs[k] = l.recs[k]
        /\ \A k \in DOMAIN l.recs \ DOMAIN x.recs :
             at > l.recs[k].lockedUntil /\ at - l.recs[k].windowStart > LoginWindow
    <2>1. CASE x = l
      BY <2>1
    <2>2. CASE x = [lastGC |-> at, recs |-> Restrict(l.recs, S)]
      <3>1. x.recs = Restrict(l.recs, S) /\ x = [recs |-> x.recs, lastGC |-> x.lastGC]
        BY <2>2
      <3>2. /\ IsMap(x.recs) /\ \A k : k \in DOMAIN x.recs <=> k \in S
            /\ \A k \in S : x.recs[k] = l.recs[k]
        BY <3>1, RestrictMap
      <3> QED
        BY <3>1, <3>2
    <2> QED
      BY <1>1, <2>1, <2>2
  <1>3. r = [ok |-> key \notin DOMAIN x.recs \/ at >= x.recs[key].lockedUntil, t |-> x]
    BY DEF allowed, x
  <1>4. (key \notin DOMAIN x.recs \/ at >= x.recs[key].lockedUntil)
          = (key \in DOMAIN l.recs => at >= l.recs[key].lockedUntil)
    BY <1>2
  <1>5. r.ok = (key \in DOMAIN l.recs => at >= l.recs[key].lockedUntil) /\ r.t = x
    BY <1>3, <1>4
  <1> HIDE DEF r
  <1> QED
    BY <1>2, <1>5 DEF r

\* The records of both login tables are well formed.
LEMMA LoginParts ==
    ASSUME NEW at \in Nat \ {0}, NEW t, NEW f, LoginTables(t, f, at)
    PROVE  /\ t = [recs |-> t.recs, lastGC |-> t.lastGC] /\ f = [recs |-> f.recs, lastGC |-> f.lastGC]
           /\ IsMap(t.recs) /\ IsMap(f.recs)
           /\ \A k \in DOMAIN t.recs : t.recs[k] \in [count : Nat, windowStart : 1..at, lockedUntil : Nat]
           /\ \A k \in DOMAIN f.recs : f.recs[k] \in [count : Nat, windowStart : 1..at, lockedUntil : Nat]
  BY DEF LoginTables

\* The collection before a login attempt changes no answer and keeps the tables alike.
LEMMA AllowedAgrees ==
    ASSUME NEW at \in Nat \ {0}, NEW t, NEW f, NEW key, NEW f2, LoginTables(t, f, at),
           f2 = [recs |-> f.recs, lastGC |-> f2.lastGC]
    PROVE  /\ allowed(t, key, at).ok = allowed(f, key, at).ok
           /\ LoginTables(allowed(t, key, at).t, f2, at)
  <1> DEFINE r == allowed(t, key, at)
  <1>1. /\ r.ok = (key \in DOMAIN t.recs => at >= t.recs[key].lockedUntil)
        /\ r.t = [recs |-> r.t.recs, lastGC |-> r.t.lastGC] /\ IsMap(r.t.recs)
        /\ \A k \in DOMAIN r.t.recs : k \in DOMAIN t.recs /\ r.t.recs[k] = t.recs[k]
        /\ \A k \in DOMAIN t.recs \ DOMAIN r.t.recs :
             at > t.recs[k].lockedUntil /\ at - t.recs[k].windowStart > LoginWindow
    BY AllowedMeans, LoginParts
  <1>2. allowed(f, key, at).ok = (key \in DOMAIN f.recs => at >= f.recs[key].lockedUntil)
    <2>1. /\ f = [recs |-> f.recs, lastGC |-> f.lastGC] /\ IsMap(f.recs)
          /\ \A k \in DOMAIN f.recs : f.recs[k] \in [count : Nat, windowStart : 1..at, lockedUntil : Nat]
      BY LoginParts
    <2> QED
      BY <2>1, AllowedMeans
  <1>3. (key \in DOMAIN t.recs => at >= t.recs[key].lockedUntil)
          = (key \in DOMAIN f.recs => at >= f.recs[key].lockedUntil)
    BY LoginParts DEF LoginTables
  <1>4. r.ok = allowed(f, key, at).ok
    BY <1>1, <1>2, <1>3
  <1> HIDE DEF r
  <1>5. f2.recs = f.recs
    OBVIOUS
  <1>6. LoginTables(r.t, f2, at)
    BY <1>1, <1>5 DEF LoginTables
  <1> QED
    BY <1>4, <1>6 DEF r

\* The record a failure leaves.
Failed(l, key, at) ==
  LET r == IF key \notin DOMAIN l.recs \/ at - l.recs[key].windowStart > LoginWindow
             THEN [count |-> 0, windowStart |-> at, lockedUntil |-> 0] ELSE l.recs[key]
  IN  [r EXCEPT !.count = r.count + 1, !.lockedUntil = IF r.count + 1 >= LoginMax THEN at + LoginWindow ELSE @]

\* What recordFailure leaves.
LEMMA FailureMeans ==
    ASSUME NEW at \in Nat \ {0}, NEW l, NEW key, l = [recs |-> l.recs, lastGC |-> l.lastGC]
    PROVE  LET q == recordFailure(l, key, at)
           IN  /\ q = [recs |-> q.recs, lastGC |-> q.lastGC] /\ IsMap(q.recs)
               /\ \A x : x \in DOMAIN q.recs <=> x \in DOMAIN l.recs \/ x = key
               /\ q.recs[key] = Failed(l, key, at) /\ \A k \in DOMAIN l.recs : k # key => q.recs[k] = l.recs[k]
  <1> DEFINE q == recordFailure(l, key, at)
  <1>1. q = [l EXCEPT !.recs = Put(@, key, Failed(l, key, at))]
    BY DEF recordFailure, Failed
  <1>2. q.recs = Put(l.recs, key, Failed(l, key, at)) /\ q = [recs |-> q.recs, lastGC |-> q.lastGC]
    BY <1>1
  <1> HIDE DEF q
  <1> QED
    BY <1>2, PutMap DEF q

\* A failed login writes the same record into both tables: what was collected counted for nothing.
LEMMA FailureAgrees ==
    ASSUME NEW at \in Nat \ {0}, NEW t, NEW f, NEW key, LoginTables(t, f, at)
    PROVE  /\ recordFailure(t, key, at).recs[key] = recordFailure(f, key, at).recs[key]
           /\ LoginTables(recordFailure(t, key, at), recordFailure(f, key, at), at)
  <1> DEFINE q == recordFailure(t, key, at)
             p == recordFailure(f, key, at)
  <1>1. /\ q = [recs |-> q.recs, lastGC |-> q.lastGC] /\ IsMap(q.recs)
        /\ \A x : x \in DOMAIN q.recs <=> x \in DOMAIN t.recs \/ x = key
        /\ q.recs[key] = Failed(t, key, at) /\ \A k \in DOMAIN t.recs : k # key => q.recs[k] = t.recs[k]
    BY FailureMeans, LoginParts
  <1>2. /\ p = [recs |-> p.recs, lastGC |-> p.lastGC] /\ IsMap(p.recs)
        /\ \A x : x \in DOMAIN p.recs <=> x \in DOMAIN f.recs \/ x = key
        /\ p.recs[key] = Failed(f, key, at) /\ \A k \in DOMAIN f.recs : k # key => p.recs[k] = f.recs[k]
    BY FailureMeans, LoginParts
  <1>3. Failed(t, key, at) = Failed(f, key, at)
    <2>1. CASE key \in DOMAIN t.recs
      BY <2>1 DEF Failed, LoginTables
    <2>2. CASE key \notin DOMAIN t.recs
      <3>1. key \notin DOMAIN f.recs \/ at - f.recs[key].windowStart > LoginWindow
        BY <2>2 DEF LoginTables
      <3> QED
        BY <2>2, <3>1 DEF Failed
    <2> QED
      BY <2>1, <2>2
  <1>4. Failed(f, key, at) \in [count : Nat, windowStart : 1..at, lockedUntil : Nat]
    <2>1. key \in DOMAIN f.recs => f.recs[key] \in [count : Nat, windowStart : 1..at, lockedUntil : Nat]
      BY LoginParts
    <2> DEFINE r == IF key \notin DOMAIN f.recs \/ at - f.recs[key].windowStart > LoginWindow
                      THEN [count |-> 0, windowStart |-> at, lockedUntil |-> 0] ELSE f.recs[key]
               n == IF r.count + 1 >= LoginMax THEN at + LoginWindow ELSE r.lockedUntil
    <2>2. r \in [count : Nat, windowStart : 1..at, lockedUntil : Nat]
      BY <2>1
    <2>3. Failed(f, key, at) = [r EXCEPT !.count = r.count + 1, !.lockedUntil = n]
      BY DEF Failed
    <2> HIDE DEF r
    <2>4. n \in Nat /\ r.count + 1 \in Nat
      BY <2>2 DEF LoginWindow
    <2> HIDE DEF n
    <2> QED
      BY <2>2, <2>3, <2>4
  <1> HIDE DEF q, p
  <1>5. LoginTables(q, p, at)
    BY <1>1, <1>2, <1>3, <1>4 DEF LoginTables
  <1> QED
    BY <1>1, <1>2, <1>3, <1>5 DEF q, p

\* A login that succeeds clears the key in both tables.
LEMMA SuccessAgrees ==
    ASSUME NEW at \in Nat \ {0}, NEW t, NEW f, NEW key, LoginTables(t, f, at)
    PROVE  LoginTables(recordSuccess(t, key), recordSuccess(f, key), at)
  <1> DEFINE q == recordSuccess(t, key)
             p == recordSuccess(f, key)
  <1>1. /\ q.recs = Restrict(t.recs, DOMAIN t.recs \ {key}) /\ q = [recs |-> q.recs, lastGC |-> q.lastGC]
        /\ p.recs = Restrict(f.recs, DOMAIN f.recs \ {key}) /\ p = [recs |-> p.recs, lastGC |-> p.lastGC]
    BY LoginParts DEF recordSuccess
  <1> HIDE DEF q, p
  <1>2. /\ IsMap(q.recs) /\ \A x : x \in DOMAIN q.recs <=> x \in DOMAIN t.recs \ {key}
        /\ \A x \in DOMAIN t.recs \ {key} : q.recs[x] = t.recs[x]
    BY <1>1, RestrictMap
  <1>3. /\ IsMap(p.recs) /\ \A x : x \in DOMAIN p.recs <=> x \in DOMAIN f.recs \ {key}
        /\ \A x \in DOMAIN f.recs \ {key} : p.recs[x] = f.recs[x]
    BY <1>1, RestrictMap
  <1> QED
    BY <1>1, <1>2, <1>3 DEF LoginTables, q, p

-----------------------------------------------------------------------------
(* The steps *)

\* The other contracts do not touch the guards.
LEMMA LimitSteps == ASSUME [FabricNext]_fabricVars PROVE LimitNext \/ UNCHANGED limitVars
  BY DEF FabricNext, fabricVars, TrustPart, ContractPart, LimitPart, AccessPart, AgentPart, CodecPart

\* Whatever happens, the guard stays and the clock does not run backwards.
LEMMA LimitMoves ==
    ASSUME LimitTypes, LimitNext
    PROVE  /\ guard' = guard /\ tick' \in Nat \ {0} /\ tick' >= tick
           /\ (guard \in {"limiter", "layered", "scope", "verifier"} => TimePasses \/ \E k \in Keys : CallOnce(k))
           /\ (guard = "login" => TimePasses \/ (\E k \in Keys : LoginStart(k)) \/ \E f \in flight, ok \in BOOLEAN : LoginEnd(f, ok))
           /\ (guard = "replay" => TimePasses \/ ReplaySweep \/ (\E k \in Keys : ReplayStart(k)) \/ \E f \in flight : ReplayEnd(f))
           /\ (guard = "adaptive" => TimePasses \/ Acquire \/ \E f \in flight, ok \in BOOLEAN : Finish(f, ok))
  <1>1. tick \in Nat \ {0}
    BY DEF LimitTypes
  <1>2. CASE TimePasses
    BY <1>1, <1>2 DEF TimePasses
  <1>3. CASE \E k \in Keys : CallOnce(k)
    <2>1. guard' = guard /\ tick' = tick /\ guard \in {"limiter", "layered", "scope", "verifier"}
      BY <1>3 DEF CallOnce
    <2> QED
      BY <1>1, <1>3, <2>1
  <1>4. CASE \E k \in Keys : LoginStart(k)
    <2>1. guard' = guard /\ tick' = tick /\ guard = "login"
      BY <1>4 DEF LoginStart
    <2> QED
      BY <1>1, <1>4, <2>1
  <1>5. CASE \E f \in flight, ok \in BOOLEAN : LoginEnd(f, ok)
    <2>1. guard' = guard /\ tick' = tick /\ guard = "login"
      BY <1>5 DEF LoginEnd
    <2> QED
      BY <1>1, <1>5, <2>1
  <1>6. CASE \E k \in Keys : ReplayStart(k)
    <2>1. guard' = guard /\ tick' = tick /\ guard = "replay"
      BY <1>6 DEF ReplayStart
    <2> QED
      BY <1>1, <1>6, <2>1
  <1>7. CASE \E f \in flight : ReplayEnd(f)
    <2>1. guard' = guard /\ tick' = tick /\ guard = "replay"
      BY <1>7 DEF ReplayEnd
    <2> QED
      BY <1>1, <1>7, <2>1
  <1>8. CASE ReplaySweep \/ Acquire
    BY <1>1, <1>8 DEF ReplaySweep, Acquire
  <1>9. CASE \E f \in flight, ok \in BOOLEAN : Finish(f, ok)
    <2>1. guard' = guard /\ tick' = tick /\ guard = "adaptive"
      BY <1>9 DEF Finish
    <2> QED
      BY <1>1, <1>9, <2>1
  <1> QED
    BY <1>2, <1>3, <1>4, <1>5, <1>6, <1>7, <1>8, <1>9 DEF LimitNext

\* What one more entry does to the log.
LEMMA LogGrows ==
    ASSUME NEW S, NEW s \in Seq(S), NEW e \in S
    PROVE  /\ Append(s, e) \in Seq(S) /\ Len(Append(s, e)) = Len(s) + 1 /\ Append(s, e)[Len(s) + 1] = e
           /\ \A i \in 1..Len(s) : Append(s, e)[i] = s[i]
           /\ Len(s) \in Nat /\ \A i : i \in DOMAIN s <=> i \in 1..Len(s)
           /\ \A i : i \in DOMAIN Append(s, e) <=> i \in 1..(Len(s) + 1)
  OBVIOUS

\* Every step keeps the shape of clock, calls and log.
LEMMA LimitTypesKept == ASSUME LimitTypes, LimitNext PROVE LimitTypes'
  <1>1. guard' = guard /\ tick' \in Nat \ {0} /\ tick' >= tick
    BY LimitMoves
  <1>2. calls' \in Nat
    <2>1. calls \in Nat /\ calls + 1 \in Nat
      BY DEF LimitTypes
    <2>2. calls' \in {calls, calls + 1}
      BY DEF LimitNext, CallOnce, LoginStart, LoginEnd, ReplayStart, ReplayEnd, ReplaySweep, Acquire, Finish, TimePasses, Counted
    <2> QED
      BY <2>1, <2>2
  <1>3. log' = log \/ (tick' = tick /\ \E k \in LogKeys : log' = Append(log, <<tick, k>>))
    <2>1. CASE \E k \in Keys : CallOnce(k)
      <3>1. guard # "replay"
        BY <2>1 DEF CallOnce
      <3> QED
        BY <2>1, <3>1 DEF CallOnce, Log, LogKeys
    <2>2. CASE \E f \in flight : ReplayEnd(f)
      <3>1. PICK f \in flight : ReplayEnd(f)
        BY <2>2
      <3>2. guard = "replay" /\ f.key \in Keys /\ f.at \in Nat
        BY <3>1 DEF ReplayEnd, LimitTypes
      <3> QED
        BY <3>1, <3>2 DEF ReplayEnd, Log, LogKeys
    <2> QED
      BY <2>1, <2>2 DEF LimitNext, CallOnce, LoginStart, LoginEnd, ReplayStart, ReplayEnd, ReplaySweep, Acquire,
         Finish, TimePasses
  <1>4. log' \in Seq(Nat \X LogKeys) /\ \A i \in DOMAIN log' : log'[i][1] \in 1..tick'
    <2>1. CASE log' = log
      BY <1>1, <2>1 DEF LimitTypes
    <2>2. CASE tick' = tick /\ \E k \in LogKeys : log' = Append(log, <<tick, k>>)
      <3>1. PICK k \in LogKeys : log' = Append(log, <<tick, k>>)
        BY <2>2
      <3>2. log \in Seq(Nat \X LogKeys) /\ <<tick, k>> \in Nat \X LogKeys
        BY DEF LimitTypes
      <3>3. /\ log' \in Seq(Nat \X LogKeys) /\ log'[Len(log) + 1] = <<tick, k>>
            /\ \A i \in 1..Len(log) : log'[i] = log[i]
            /\ \A i : i \in DOMAIN log <=> i \in 1..Len(log)
            /\ \A i : i \in DOMAIN log' <=> i \in 1..(Len(log) + 1)
            /\ Len(log) \in Nat
        BY <3>1, <3>2, LogGrows
      <3>4. \A i \in DOMAIN log : log[i][1] \in 1..tick
        BY DEF LimitTypes
      <3>5. \A i \in DOMAIN log' : log'[i][1] \in 1..tick
        <4> TAKE i \in DOMAIN log'
        <4>1. CASE i = Len(log) + 1
          BY <3>3, <4>1 DEF LimitTypes
        <4>2. CASE i # Len(log) + 1
          BY <3>3, <3>4, <4>2
        <4> QED
          BY <4>1, <4>2
      <3> QED
        BY <2>2, <3>3, <3>5
    <2> QED
      BY <1>3, <2>1, <2>2
  <1>5. \A f \in flight' : guard = "replay" => f.key \in Keys /\ f.at \in Nat
    <2> SUFFICES ASSUME guard = "replay" PROVE \A f \in flight' : f.key \in Keys /\ f.at \in Nat
      OBVIOUS
    <2>1. \A f \in flight : f.key \in Keys /\ f.at \in Nat
      BY DEF LimitTypes
    <2>2. ASSUME NEW k \in Keys, ReplayStart(k) PROVE \A f \in flight' : f.key \in Keys /\ f.at \in Nat
      BY <2>1, <2>2 DEF ReplayStart, LimitTypes
    <2>3. flight' \subseteq flight => \A f \in flight' : f.key \in Keys /\ f.at \in Nat
      BY <2>1
    <2> QED
      BY <2>2, <2>3, LimitMoves DEF ReplayEnd, ReplaySweep, TimePasses
  <1>6. LogKeys' = LogKeys
    BY <1>1 DEF LogKeys
  <1> QED
    BY <1>1, <1>2, <1>4, <1>5, <1>6 DEF LimitTypes

\* Time alone leaves the buckets well formed.
LEMMA BucketsLast ==
    ASSUME NEW at \in Nat, NEW at2 \in Nat, at2 >= at, NEW bs, Buckets(bs, at)
    PROVE  Buckets(bs, at2)
  BY DEF Buckets

\* The limiter never forgets a bucket it still needs.
LEMMA LimiterKept == ASSUME LimitTypes, LimiterInv, LimitNext PROVE LimiterInv'
  <1> SUFFICES ASSUME guard = "limiter" PROVE Buckets(table', tick') /\ full' = table'
    BY LimitMoves DEF LimiterInv
  <1>1. Buckets(table, tick) /\ full = table /\ tick \in Nat \ {0}
    BY DEF LimiterInv, LimitTypes
  <1>2. CASE TimePasses
    BY <1>1, <1>2, LimitMoves, BucketsLast DEF TimePasses
  <1>3. ASSUME NEW k \in Keys, CallOnce(k) PROVE Buckets(table', tick') /\ full' = table'
    <2> DEFINE r == LimiterAllow(table, k, tick)
    <2>1. table' = r.t /\ full' = Over(r.t, full) /\ tick' = tick
      BY <1>1, <1>3 DEF CallOnce, AskGuard, Keep
    <2>2. Buckets(r.t, tick) /\ \A x : x \in DOMAIN r.t <=> x \in DOMAIN table \/ x = k
      BY <1>1, LimiterSpends
    <2> HIDE DEF r
    <2>3. Over(r.t, full) = r.t
      BY <1>1, <2>2, OverSelf DEF Buckets
    <2> QED
      BY <2>1, <2>2, <2>3
  <1> QED
    BY <1>2, <1>3, LimitMoves

\* Neither do its layers.
LEMMA LayeredKept == ASSUME LimitTypes, LayeredInv, LimitNext PROVE LayeredInv'
  <1> DEFINE Goal == /\ table' = [global |-> table'.global, tenant |-> table'.tenant] /\ full' = table'
                     /\ Buckets(table'.global, tick') /\ Buckets(table'.tenant, tick')
  <1> SUFFICES ASSUME guard = "layered" PROVE Goal
    BY LimitMoves DEF LayeredInv
  <1>1. /\ table = [global |-> table.global, tenant |-> table.tenant] /\ full = table
        /\ Buckets(table.global, tick) /\ Buckets(table.tenant, tick) /\ tick \in Nat \ {0}
    BY DEF LayeredInv, LimitTypes
  <1>2. CASE TimePasses
    <2>1. table' = table /\ full' = full /\ tick' \in Nat /\ tick' >= tick
      BY <1>2, LimitMoves DEF TimePasses
    <2> QED
      BY <1>1, <2>1, BucketsLast
  <1>3. ASSUME NEW k \in Keys, CallOnce(k) PROVE Goal
    <2> DEFINE r == LayeredAllow(table, k, tick)
    <2>1. /\ table' = r.t /\ full' = [global |-> Over(r.t.global, full.global), tenant |-> Over(r.t.tenant, full.tenant)]
          /\ tick' = tick
      BY <1>1, <1>3 DEF CallOnce, AskGuard, Keep
    <2>2. /\ r.t = [global |-> r.t.global, tenant |-> r.t.tenant]
          /\ Buckets(r.t.global, tick) /\ Buckets(r.t.tenant, tick)
          /\ \A x : x \in DOMAIN r.t.global <=> x \in DOMAIN table.global \/ x = "*"
          /\ DOMAIN table.tenant \subseteq DOMAIN r.t.tenant
      BY <1>1, LayersSpend DEF LayersSpent
    <2> HIDE DEF r
    <2>3. Over(r.t.global, full.global) = r.t.global /\ Over(r.t.tenant, full.tenant) = r.t.tenant
      BY <1>1, <2>2, OverSelf DEF Buckets
    <2> QED
      BY <2>1, <2>2, <2>3
  <1> QED
    BY <1>2, <1>3, LimitMoves

\* The sweep takes full buckets only.
LEMMA ScopeKept == ASSUME LimitTypes, ScopeInv, LimitNext PROVE ScopeInv'
  <1> SUFFICES ASSUME guard = "scope" PROVE ScopeTables(table', full', tick')
    BY LimitMoves DEF ScopeInv
  <1>1. ScopeTables(table, full, tick) /\ tick \in Nat \ {0}
    BY DEF ScopeInv, LimitTypes
  <1>2. CASE TimePasses
    <2>1. table' = table /\ full' = full /\ tick' \in Nat /\ tick' >= tick
      BY <1>2, LimitMoves DEF TimePasses
    <2> QED
      BY <1>1, <2>1 DEF ScopeTables
  <1>3. ASSUME NEW k \in Keys, CallOnce(k) PROVE ScopeTables(table', full', tick')
    <2>1. /\ table' = ScopeAllow(table, k, tick).t /\ tick' = tick
          /\ full' = [rl |-> Over(ScopeAllow(full, k, tick).t.rl, full.rl), lastSweep |-> ScopeAllow(full, k, tick).t.lastSweep]
      BY <1>3 DEF CallOnce, AskGuard, Keep
    <2> QED
      BY <1>1, <2>1, ScopeAgrees DEF ScopeSame
  <1> QED
    BY <1>2, <1>3, LimitMoves

\* The collection takes unlocked records out of their window only, whatever attempts are between two locks.
LEMMA LoginKept == ASSUME LimitTypes, LoginInv, LimitNext PROVE LoginInv'
  <1> SUFFICES ASSUME guard = "login" PROVE LoginTables(table', full', tick')
    BY LimitMoves DEF LoginInv
  <1>1. LoginTables(table, full, tick) /\ tick \in Nat \ {0}
    BY DEF LoginInv, LimitTypes
  <1>2. CASE TimePasses
    <2>1. table' = table /\ full' = full /\ tick' \in Nat /\ tick' >= tick
      BY <1>2, LimitMoves DEF TimePasses
    <2>2. \A k \in DOMAIN full.recs : full.recs[k] \in [count : Nat, windowStart : 1..tick', lockedUntil : Nat]
      BY <1>1, <2>1, LoginParts
    <2>3. \A k \in DOMAIN full.recs \ DOMAIN table.recs :
            tick' > full.recs[k].lockedUntil /\ tick' - full.recs[k].windowStart > LoginWindow
      BY <1>1, <2>1, <2>2 DEF LoginTables, LoginWindow
    <2>4. LoginTables(table, full, tick')
      BY <1>1, <2>2, <2>3 DEF LoginTables
    <2> QED
      BY <2>1, <2>4
  <1>3. ASSUME NEW k \in Keys, LoginStart(k) PROVE LoginTables(table', full', tick')
    <2>1. /\ table' = allowed(table, k, tick).t /\ tick' = tick
          /\ full' = [full EXCEPT !.lastGC = allowed(full, k, tick).t.lastGC]
      BY <1>3 DEF LoginStart
    <2>2. full' = [recs |-> full.recs, lastGC |-> full'.lastGC]
      <3>1. full = [recs |-> full.recs, lastGC |-> full.lastGC]
        BY <1>1, LoginParts
      <3> QED
        BY <2>1, <3>1
    <2> QED
      BY <1>1, <2>1, <2>2, AllowedAgrees
  <1>4. ASSUME NEW f \in flight, NEW ok \in BOOLEAN, LoginEnd(f, ok) PROVE LoginTables(table', full', tick')
    <2>1. CASE ok
      <3>1. table' = recordSuccess(table, f.key) /\ full' = recordSuccess(full, f.key) /\ tick' = tick
        BY <1>4, <2>1 DEF LoginEnd
      <3> QED
        BY <1>1, <3>1, SuccessAgrees
    <2>2. CASE ~ok
      <3>1. table' = recordFailure(table, f.key, tick) /\ full' = recordFailure(full, f.key, tick) /\ tick' = tick
        BY <1>4, <2>2 DEF LoginEnd
      <3> QED
        BY <1>1, <3>1, FailureAgrees
    <2> QED
      BY <2>1, <2>2
  <1> QED
    BY <1>2, <1>3, <1>4, LimitMoves

\* A log that has grown by one entry holds the old ones and the new one.
LEMMA OneMore ==
    ASSUME LimitTypes, NEW k \in LogKeys, log' = Append(log, <<tick, k>>)
    PROVE  /\ Len(log) \in Nat /\ Len(log') = Len(log) + 1 /\ log'[Len(log) + 1] = <<tick, k>>
           /\ \A i \in 1..Len(log) : log'[i] = log[i]
           /\ \A i : i \in DOMAIN log <=> i \in 1..Len(log)
           /\ \A i : i \in DOMAIN log' <=> i \in 1..(Len(log) + 1)
           /\ \A i \in DOMAIN log : log[i][1] \in 1..tick /\ log[i][2] \in LogKeys
  <1>1. log \in Seq(Nat \X LogKeys) /\ <<tick, k>> \in Nat \X LogKeys
    BY DEF LimitTypes
  <1>2. \A i \in DOMAIN log : log[i] \in Nat \X LogKeys
    BY <1>1
  <1> QED
    BY <1>1, <1>2, LogGrows DEF LimitTypes

\* A nonce stays in the table while its envelope is valid.
LEMMA VerifierKept == ASSUME LimitTypes, VerifierInv, LimitNext PROVE VerifierInv'
  <1> DEFINE Goal == /\ Nonces(table', full', tick')
                     /\ \A i \in DOMAIN log' : log'[i][1] < 3 /\ tick' < 3 => log'[i][2] \in DOMAIN table'
                     /\ \A i, j \in DOMAIN log' : log'[i][2] = log'[j][2] /\ log'[i][1] < 3 /\ log'[j][1] < 3 => i = j
  <1> SUFFICES ASSUME guard = "verifier" PROVE Goal
    BY LimitMoves DEF VerifierInv, AcceptedOnce, TTL
  <1>1. Nonces(table, full, tick) /\ tick \in Nat \ {0}
    BY DEF VerifierInv, LimitTypes
  <1>2. \A i \in DOMAIN log : log[i][1] < 3 /\ tick < 3 => log[i][2] \in DOMAIN table
    BY DEF VerifierInv, TTL
  <1>3. \A i, j \in DOMAIN log : log[i][2] = log[j][2] /\ log[i][1] < 3 /\ log[j][1] < 3 => i = j
    BY DEF VerifierInv, AcceptedOnce, TTL
  <1>4. CASE TimePasses
    <2>1. table' = table /\ full' = full /\ log' = log /\ tick' \in Nat /\ tick' >= tick
      BY <1>4, LimitMoves DEF TimePasses
    <2>2. Nonces(table', full', tick')
      BY <1>1, <2>1 DEF Nonces, TTL
    <2> QED
      BY <1>1, <1>2, <1>3, <2>1, <2>2
  <1>5. ASSUME NEW k \in Keys, CallOnce(k) PROVE Goal
    <2> DEFINE r == CommandVerify(table, Sign(k, 1), tick)
    <2>1. /\ table' = r.t /\ full' = Over(CommandVerify(full, Sign(k, 1), tick).t, full) /\ tick' = tick
          /\ log' = IF r.ok THEN Append(log, <<tick, k>>) ELSE log
      BY <1>5 DEF CallOnce, AskGuard, Keep, Log
    <2>2. /\ Nonces(r.t, full', tick)
          /\ r.ok /\ tick < 3 => k \notin DOMAIN table
          /\ r.ok => k \in DOMAIN r.t
          /\ tick < 3 => DOMAIN table \subseteq DOMAIN r.t
      BY <1>1, <2>1, VerifierAgrees DEF TTL
    <2> HIDE DEF r
    <2>3. CASE ~r.ok
      BY <1>2, <1>3, <2>1, <2>2, <2>3
    <2>4. CASE r.ok
      <3>1. log' = Append(log, <<tick, k>>) /\ k \in LogKeys
        BY <2>1, <2>4 DEF LogKeys
      <3>2. /\ Len(log) \in Nat /\ log'[Len(log) + 1] = <<tick, k>>
            /\ \A i \in 1..Len(log) : log'[i] = log[i]
            /\ \A i : i \in DOMAIN log <=> i \in 1..Len(log)
            /\ \A i : i \in DOMAIN log' <=> i \in 1..(Len(log) + 1)
            /\ \A i \in DOMAIN log : log[i][1] \in 1..tick
        BY <3>1, OneMore
      <3>3. \A i \in DOMAIN log' : i # Len(log) + 1 => i \in DOMAIN log /\ log'[i] = log[i]
        BY <3>2
      <3>4. log'[Len(log) + 1][1] = tick /\ log'[Len(log) + 1][2] = k
        BY <3>2
      <3>5. \A i \in DOMAIN log' : log'[i][1] < 3 /\ tick' < 3 => log'[i][2] \in DOMAIN table'
        BY <1>2, <2>1, <2>2, <2>4, <3>3, <3>4
      <3>6. \A i \in DOMAIN log : ~(log[i][2] = k /\ log[i][1] < 3 /\ tick < 3)
        BY <1>2, <2>2, <2>4
      <3>7. \A i, j \in DOMAIN log' : log'[i][2] = log'[j][2] /\ log'[i][1] < 3 /\ log'[j][1] < 3 => i = j
        BY <1>3, <3>3, <3>4, <3>6
      <3> QED
        BY <2>1, <2>2, <3>5, <3>7
    <2> QED
      BY <2>3, <2>4
  <1> QED
    BY <1>4, <1>5, LimitMoves

\* A message that passed stays in the table until a sweep finds it out of its window.
LEMMA ReplayKept == ASSUME LimitTypes, ReplayInv, LimitNext PROVE ReplayInv'
  <1> DEFINE Goal == /\ IsMap(table') /\ \A k \in DOMAIN table' : table'[k] = 1
                     /\ \A i \in DOMAIN log' : log'[i][2][1] \in DOMAIN table' \/ tick' > 2
                     /\ \A i, j \in DOMAIN log' : i < j /\ log'[i][2][1] = log'[j][2][1] => log'[j][1] > 2
  <1> SUFFICES ASSUME guard = "replay" PROVE Goal
    BY LimitMoves DEF ReplayInv, ReplayNeedsSweep, Window
  <1>1. IsMap(table) /\ (\A k \in DOMAIN table : table[k] = 1) /\ tick \in Nat \ {0}
    BY DEF ReplayInv, LimitTypes
  <1>2. \A i \in DOMAIN log : log[i][2][1] \in DOMAIN table \/ tick > 2
    BY DEF ReplayInv, Window
  <1>3. \A i, j \in DOMAIN log : i < j /\ log[i][2][1] = log[j][2][1] => log[j][1] > 2
    BY DEF ReplayInv, ReplayNeedsSweep, Window
  <1>4. CASE TimePasses
    <2>1. table' = table /\ log' = log /\ tick' \in Nat /\ tick' >= tick
      BY <1>4, LimitMoves DEF TimePasses
    <2> QED
      BY <1>1, <1>2, <1>3, <2>1
  <1>5. ASSUME NEW k \in Keys, ReplayStart(k) PROVE Goal
    <2>1. table' = table /\ log' = log /\ tick' = tick
      BY <1>5 DEF ReplayStart
    <2> QED
      BY <1>1, <1>2, <1>3, <2>1
  <1>6. CASE ReplaySweep
    <2>1. table' = Restrict(table, {k \in DOMAIN table : ~(tick > table[k] + Window)}) /\ log' = log /\ tick' = tick
      BY <1>6 DEF ReplaySweep, Sweep
    <2>2. /\ IsMap(table') /\ \A k : k \in DOMAIN table' <=> k \in DOMAIN table /\ ~(tick > table[k] + Window)
          /\ \A k \in DOMAIN table' : table'[k] = table[k]
      BY <2>1, RestrictMap
    <2> QED
      BY <1>1, <1>2, <1>3, <2>1, <2>2 DEF Window
  <1>7. ASSUME NEW f \in flight, ReplayEnd(f) PROVE Goal
    <2>1. tick' = tick /\ f.key \in Keys /\ f.at \in Nat
      BY <1>7 DEF ReplayEnd, LimitTypes
    <2>2. CASE f.key \in DOMAIN table
      <3>1. table' = table /\ log' = log
        BY <1>7, <2>2 DEF ReplayEnd, Record, Log
      <3> QED
        BY <1>1, <1>2, <1>3, <2>1, <3>1
    <2>3. CASE f.key \notin DOMAIN table
      <3>1. table' = Put(table, f.key, 1) /\ log' = Append(log, <<tick, <<f.key, f.at>>>>)
        BY <1>7, <2>3 DEF ReplayEnd, Record, Log
      <3>2. /\ IsMap(table') /\ \A x : x \in DOMAIN table' <=> x \in DOMAIN table \/ x = f.key
            /\ table'[f.key] = 1 /\ \A x \in DOMAIN table : x # f.key => table'[x] = table[x]
        BY <3>1, PutMap
      <3>3. <<f.key, f.at>> \in LogKeys
        BY <2>1 DEF LogKeys
      <3>4. /\ Len(log) \in Nat /\ log'[Len(log) + 1] = <<tick, <<f.key, f.at>>>>
            /\ \A i \in 1..Len(log) : log'[i] = log[i]
            /\ \A i : i \in DOMAIN log <=> i \in 1..Len(log)
            /\ \A i : i \in DOMAIN log' <=> i \in 1..(Len(log) + 1)
        BY <3>1, <3>3, OneMore
      <3>5. \A i \in DOMAIN log' : i # Len(log) + 1 => i \in DOMAIN log /\ log'[i] = log[i]
        BY <3>4
      <3>6. log'[Len(log) + 1][1] = tick /\ log'[Len(log) + 1][2][1] = f.key
        BY <3>4
      <3>7. \A i \in DOMAIN log' : log'[i][2][1] \in DOMAIN table' \/ tick' > 2
        BY <1>2, <2>1, <3>2, <3>5, <3>6
      <3>8. \A i, j \in DOMAIN log' : i < j /\ log'[i][2][1] = log'[j][2][1] => log'[j][1] > 2
        <4> SUFFICES ASSUME NEW i \in DOMAIN log', NEW j \in DOMAIN log', i < j, log'[i][2][1] = log'[j][2][1]
                     PROVE  log'[j][1] > 2
          OBVIOUS
        <4>1. i \in DOMAIN log /\ log'[i] = log[i]
          BY <3>4, <3>5
        <4>2. CASE j = Len(log) + 1
          BY <1>2, <2>3, <3>6, <4>1, <4>2
        <4>3. CASE j # Len(log) + 1
          BY <1>3, <3>5, <4>1, <4>3
        <4> QED
          BY <4>2, <4>3
      <3> QED
        BY <1>1, <3>2, <3>7, <3>8
    <2> QED
      BY <2>2, <2>3
  <1> QED
    BY <1>4, <1>5, <1>6, <1>7, LimitMoves

\* The adaptive limit after an outcome that moves it.
LEMMA NewLimit ==
    ASSUME NEW a \in [limit : 1..3, inflight : 0..3, streak : Nat], NEW s \in Nat, NEW l \in 1..3
    PROVE  LET b == [a EXCEPT !.streak = s, !.limit = l]
           IN  b \in [limit : 1..3, inflight : 0..3, streak : Nat] /\ b.inflight = a.inflight
  OBVIOUS

\* The adaptive limit after one more success.
LEMMA NewStreak ==
    ASSUME NEW a \in [limit : 1..3, inflight : 0..3, streak : Nat]
    PROVE  LET b == [a EXCEPT !.streak = a.streak + 1]
           IN  b \in [limit : 1..3, inflight : 0..3, streak : Nat] /\ b.inflight = a.inflight
  OBVIOUS

\* Slots and calls under way stay in step.
LEMMA AdaptiveKept == ASSUME LimitTypes, AdaptiveInv, LimitNext PROVE AdaptiveInv'
  <1> DEFINE Shape == [limit : 1..3, inflight : 0..3, streak : Nat]
             Goal == /\ table' \in Shape /\ IsFiniteSet(flight') /\ table'.inflight = Cardinality(flight')
                     /\ \A f \in flight' : f.seq \in Nat /\ f.seq < calls'
  <1> SUFFICES ASSUME guard = "adaptive" PROVE Goal
    BY LimitMoves DEF AdaptiveInv, AdaptiveMin, AdaptiveMax
  <1>1. /\ table \in Shape /\ IsFiniteSet(flight) /\ table.inflight = Cardinality(flight)
        /\ (\A f \in flight : f.seq \in Nat /\ f.seq < calls) /\ calls \in Nat
    BY DEF AdaptiveInv, AdaptiveMin, AdaptiveMax, LimitTypes
  <1>2. CASE TimePasses
    <2>1. table' = table /\ flight' = flight /\ calls' = calls
      BY <1>2 DEF TimePasses
    <2> QED
      BY <1>1, <2>1
  <1>3. CASE Acquire
    <2> DEFINE f == [key |-> "out", at |-> tick, seq |-> calls]
    <2>1. /\ calls' = calls + 1 /\ table' = TryAcquire(table)
          /\ flight' = IF table'.inflight > table.inflight THEN flight \cup {f} ELSE flight
      BY <1>3 DEF Acquire, Counted
    <2>2. CASE table.inflight >= table.limit
      <3>1. table' = table /\ flight' = flight
        BY <1>1, <2>1, <2>2 DEF TryAcquire
      <3> QED
        BY <1>1, <2>1, <3>1
    <2>3. CASE ~(table.inflight >= table.limit)
      <3>1. table' = [table EXCEPT !.inflight = table.inflight + 1]
        BY <2>1, <2>3 DEF TryAcquire
      <3>2. table' \in Shape /\ table'.inflight = table.inflight + 1
        BY <1>1, <2>3, <3>1
      <3>3. flight' = flight \cup {f}
        BY <1>1, <2>1, <3>2
      <3>4. f \notin flight
        BY <1>1
      <3>5. IsFiniteSet(flight') /\ Cardinality(flight') = Cardinality(flight) + 1
        BY <1>1, <3>3, <3>4, FS_AddElement
      <3>6. \A g \in flight' : g.seq \in Nat /\ g.seq < calls'
        BY <1>1, <2>1, <3>3
      <3> QED
        BY <1>1, <3>2, <3>5, <3>6
    <2> QED
      BY <2>2, <2>3
  <1>4. ASSUME NEW f \in flight, NEW ok \in BOOLEAN, Finish(f, ok) PROVE Goal
    <2>1. flight' = flight \ {f} /\ table' = Release(Observe(table, ok)) /\ calls' = calls
      BY <1>4 DEF Finish
    <2>2. IsFiniteSet(flight') /\ Cardinality(flight') = Cardinality(flight) - 1
      BY <1>1, <2>1, FS_RemoveElement
    <2>3. Observe(table, ok) \in Shape /\ Observe(table, ok).inflight = table.inflight
      <3>1. table.limit \div 2 \in 0..1
        <4>1. 1 \div 2 = 0 /\ 2 \div 2 = 1 /\ 3 \div 2 = 1
          OBVIOUS
        <4> QED
          BY <1>1, <4>1
      <3>2. CASE ~ok
        <4> DEFINE l == IF table.limit \div 2 < 1 THEN 1 ELSE table.limit \div 2
        <4>1. Observe(table, ok) = [table EXCEPT !.streak = 0, !.limit = l]
          BY <3>2 DEF Observe, AdaptiveMin
        <4>2. l \in 1..3
          BY <3>1
        <4> HIDE DEF l
        <4> QED
          BY <1>1, <4>1, <4>2, NewLimit
      <3>3. CASE ok
        <4> DEFINE l == IF table.limit < 3 THEN table.limit + 1 ELSE table.limit
        <4>1. \/ Observe(table, ok) = [table EXCEPT !.streak = table.streak + 1]
              \/ Observe(table, ok) = [table EXCEPT !.streak = 0, !.limit = l]
          BY <3>3 DEF Observe, AdaptiveMax
        <4>2. l \in 1..3
          BY <1>1
        <4> HIDE DEF l
        <4> HIDE DEF Shape
        <4>3. [table EXCEPT !.streak = table.streak + 1] \in Shape
              /\ [table EXCEPT !.streak = table.streak + 1].inflight = table.inflight
          BY <1>1, NewStreak DEF Shape
        <4>4. [table EXCEPT !.streak = 0, !.limit = l] \in Shape
              /\ [table EXCEPT !.streak = 0, !.limit = l].inflight = table.inflight
          BY <1>1, <4>2, NewLimit DEF Shape
        <4> QED
          BY <4>1, <4>3, <4>4
      <3> QED
        BY <3>2, <3>3
    <2>4. table.inflight > 0
      <3>1. flight # {} /\ Cardinality(flight) # 0
        BY <1>1, FS_EmptySet
      <3> QED
        BY <1>1, <3>1
    <2>5. table' \in Shape /\ table'.inflight = table.inflight - 1
      BY <2>1, <2>3, <2>4, <1>1 DEF Release
    <2> QED
      BY <1>1, <2>1, <2>2, <2>5
  <1> QED
    BY <1>2, <1>3, <1>4, LimitMoves

\* A call of a rated guard: what it says it takes from its bucket, and touches no other one.
LEMMA CallSpends ==
    ASSUME LimitTypes, LimiterInv, LayeredInv, ScopeInv, guard \in RateGuards, NEW k \in Keys, CallOnce(k)
    PROVE  \E ok :
             LET pk == PurseKey(k, guard)
                 old == Purse(full, guard)
                 new == Purse(full', guard)
             IN  /\ log' = IF ok THEN Append(log, <<tick, k>>) ELSE log
                 /\ \A x \in DOMAIN old : /\ old[x].tokens \in Nat /\ old[x].last \in 1..tick
                                          /\ x \in DOMAIN new
                 /\ guard # "layered" => \A x \in DOMAIN old : x # pk => new[x] = old[x]
                 /\ pk \in DOMAIN new /\ new[pk].last = tick /\ new[pk].tokens \in Nat
                 /\ new[pk].tokens + (IF ok THEN 1 ELSE 0) <= BurstOf
                 /\ pk \in DOMAIN old => new[pk].tokens + (IF ok THEN 1 ELSE 0) <= old[pk].tokens + tick - old[pk].last
  <1> DEFINE pk == PurseKey(k, guard)
             old == Purse(full, guard)
             new == Purse(full', guard)
             Goal(ok) == /\ log' = IF ok THEN Append(log, <<tick, k>>) ELSE log
                         /\ \A x \in DOMAIN old : /\ old[x].tokens \in Nat /\ old[x].last \in 1..tick
                                                  /\ x \in DOMAIN new
                         /\ guard # "layered" => \A x \in DOMAIN old : x # pk => new[x] = old[x]
                         /\ pk \in DOMAIN new /\ new[pk].last = tick /\ new[pk].tokens \in Nat
                         /\ new[pk].tokens + (IF ok THEN 1 ELSE 0) <= BurstOf
                         /\ pk \in DOMAIN old => new[pk].tokens + (IF ok THEN 1 ELSE 0) <= old[pk].tokens + tick - old[pk].last
  <1>0. tick \in Nat \ {0}
    BY DEF LimitTypes
  <1>1. CASE guard = "limiter"
    <2> DEFINE r == LimiterAllow(table, k, tick)
    <2>1. Buckets(table, tick) /\ full = table
      BY <1>1 DEF LimiterInv
    <2>2. log' = (IF r.ok THEN Append(log, <<tick, k>>) ELSE log) /\ full' = Over(r.t, full)
      BY <1>1, <2>1 DEF CallOnce, AskGuard, Keep, Log
    <2>3. /\ Buckets(r.t, tick)
          /\ \A x : x \in DOMAIN r.t <=> x \in DOMAIN table \/ x = k
          /\ \A x \in DOMAIN table \ {k} : r.t[x] = table[x]
          /\ r.t[k].last = tick
          /\ r.t[k].tokens + (IF r.ok THEN 1 ELSE 0) <= Burst
          /\ k \in DOMAIN table => r.t[k].tokens + (IF r.ok THEN 1 ELSE 0) <= table[k].tokens + tick - table[k].last
      BY <1>0, <2>1, LimiterSpends
    <2> HIDE DEF r
    <2>4. full' = r.t
      BY <2>1, <2>2, <2>3, OverSelf DEF Buckets
    <2>5. pk = k /\ old = table /\ new = r.t /\ BurstOf = Burst
      BY <1>1, <2>1, <2>4 DEF PurseKey, Purse, BurstOf
    <2>6. /\ \A x \in DOMAIN table : table[x].tokens \in Nat /\ table[x].last \in 1..tick
          /\ r.t[k].tokens \in Nat
      BY <2>1, <2>3 DEF Buckets
    <2> HIDE DEF pk, old, new
    <2>7. Goal(r.ok)
      BY <2>2, <2>3, <2>5, <2>6
    <2> QED
      BY <2>7 DEF pk, old, new
  <1>2. CASE guard = "layered"
    <2> DEFINE r == LayeredAllow(table, k, tick)
    <2>1. /\ table = [global |-> table.global, tenant |-> table.tenant]
          /\ Buckets(table.global, tick) /\ Buckets(table.tenant, tick) /\ full = table
      BY <1>2 DEF LayeredInv
    <2>2. /\ log' = (IF r.ok THEN Append(log, <<tick, k>>) ELSE log)
          /\ full' = [global |-> Over(r.t.global, full.global), tenant |-> Over(r.t.tenant, full.tenant)]
      BY <1>2, <2>1 DEF CallOnce, AskGuard, Keep, Log
    <2>3. LayersSpent(table, r, tick)
      BY <1>0, <2>1, LayersSpend
    <2> HIDE DEF r
    <2>4. full'.global = r.t.global
      BY <2>1, <2>2, <2>3, OverSelf DEF Buckets, LayersSpent
    <2>5. pk = "*" /\ old = table.global /\ new = r.t.global /\ BurstOf = Burst
      BY <1>2, <2>1, <2>4 DEF PurseKey, Purse, BurstOf
    <2>6. /\ \A x \in DOMAIN table.global : table.global[x].tokens \in Nat /\ table.global[x].last \in 1..tick
          /\ r.t.global["*"].tokens \in Nat
      BY <2>1, <2>3 DEF Buckets, LayersSpent
    <2> HIDE DEF pk, old, new
    <2>7. Goal(r.ok)
      BY <1>2, <2>2, <2>3, <2>5, <2>6 DEF LayersSpent
    <2> QED
      BY <2>7 DEF pk, old, new
  <1>3. CASE guard = "scope"
    <2> DEFINE r == ScopeAllow(table, k, tick)
               q == ScopeAllow(full, k, tick)
               h == [rl |-> Over(q.t.rl, full.rl), lastSweep |-> q.t.lastSweep]
    <2>1. ScopeTables(table, full, tick)
      BY <1>3 DEF ScopeInv
    <2>2. log' = (IF r.ok THEN Append(log, <<tick, k>>) ELSE log) /\ full' = h
      BY <1>3 DEF CallOnce, AskGuard, Keep, Log
    <2>3. ScopeSame(full, r, q, h, k, tick)
      BY <1>0, <2>1, ScopeAgrees
    <2> HIDE DEF r, q, h
    <2>4. pk = k /\ old = full.rl /\ new = h.rl /\ BurstOf = 1
      BY <1>3, <2>2 DEF PurseKey, Purse, BurstOf
    <2>5. \A x \in DOMAIN full.rl : full.rl[x].tokens = 0 /\ full.rl[x].last \in 1..tick
      BY <2>1 DEF ScopeTables
    <2> HIDE DEF pk, old, new
    <2>6. log' = IF q.ok THEN Append(log, <<tick, k>>) ELSE log
      BY <2>2, <2>3 DEF ScopeSame
    <2>7. new[pk].tokens = 0 /\ new[pk].last = tick
      BY <2>3, <2>4 DEF ScopeSame
    <2>8. k \in DOMAIN full.rl => (IF q.ok THEN 1 ELSE 0) <= tick - full.rl[k].last
      BY <1>0, <2>3, <2>5 DEF ScopeSame
    <2>9. pk \in DOMAIN old => 0 + (IF q.ok THEN 1 ELSE 0) <= old[pk].tokens + tick - old[pk].last
      BY <1>0, <2>4, <2>5, <2>8
    <2>10. Goal(q.ok)
      BY <2>3, <2>4, <2>5, <2>6, <2>7, <2>9 DEF ScopeSame
    <2> QED
      BY <2>10 DEF pk, old, new
  <1> QED
    BY <1>1, <1>2, <1>3 DEF RateGuards

\* How the draws of one bucket are counted as the log grows.
LEMMA DrawnCounts ==
    ASSUME LimitTypes, NEW k \in LogKeys, log' = Append(log, <<tick, k>>), guard' = guard,
           NEW n, n = Len(log)
    PROVE  /\ \A i, j \in 1..n : Drawn(i, j)' = Drawn(i, j)
           /\ \A i, j \in 1..n : Cardinality(Drawn(i, j)) \in Nat
           /\ \A i \in 1..(n + 1) :
                Cardinality(Drawn(i, n + 1)')
                  = (IF i \in 1..n THEN Cardinality(Drawn(i, n)) ELSE 0)
                    + (IF guard = "layered" \/ log'[i][2] = k THEN 1 ELSE 0)
  <1>1. /\ n \in Nat /\ log'[n + 1] = <<tick, k>> /\ \A i \in 1..n : log'[i] = log[i]
    BY OneMore
  <1>2. \A i \in 1..n, j \in 1..n : Drawn(i, j)' = Drawn(i, j)
    BY <1>1 DEF Drawn
  <1>3. \A i, j \in 1..n : IsFiniteSet(Drawn(i, j)) /\ Cardinality(Drawn(i, j)) \in Nat
    <2> TAKE i \in 1..n, j \in 1..n
    <2>1. Drawn(i, j) \subseteq i..j /\ IsFiniteSet(i..j)
      BY FS_Interval DEF Drawn
    <2> QED
      BY <2>1, FS_Subset, FS_CardinalityType
  <1>4. ASSUME NEW i \in 1..n
        PROVE  Cardinality(Drawn(i, n + 1)')
                 = Cardinality(Drawn(i, n)) + (IF guard = "layered" \/ log'[i][2] = k THEN 1 ELSE 0)
    <2>1. n \in 1..n /\ i <= n + 1 /\ n + 1 \notin Drawn(i, n)
      BY <1>1 DEF Drawn
    <2>2. IsFiniteSet(Drawn(i, n)) /\ Cardinality(Drawn(i, n)) \in Nat
      BY <1>3, <2>1
    <2>3. log'[n + 1][2] = k
      BY <1>1
    <2>4. CASE guard = "layered" \/ log'[i][2] = k
      <3>1. Drawn(i, n + 1)' = Drawn(i, n) \cup {n + 1}
        BY <1>1, <2>1, <2>3, <2>4 DEF Drawn
      <3> QED
        BY <2>1, <2>2, <2>4, <3>1, FS_AddElement
    <2>5. CASE ~(guard = "layered" \/ log'[i][2] = k)
      <3>1. Drawn(i, n + 1)' = Drawn(i, n)
        BY <1>1, <2>1, <2>3, <2>5 DEF Drawn
      <3> QED
        BY <2>2, <2>5, <3>1
    <2> QED
      BY <2>4, <2>5
  <1>5. Cardinality(Drawn(n + 1, n + 1)') = 1 /\ log'[n + 1][2] = k
    <2>1. log'[n + 1][2] = k
      BY <1>1
    <2>2. Drawn(n + 1, n + 1)' = {n + 1}
      BY <1>1 DEF Drawn
    <2> QED
      BY <2>1, <2>2, FS_Singleton
  <1>6. \A i \in 1..(n + 1) : i \in 1..n \/ i = n + 1
    BY <1>1
  <1>7. \A i \in 1..(n + 1) :
          Cardinality(Drawn(i, n + 1)')
            = (IF i \in 1..n THEN Cardinality(Drawn(i, n)) ELSE 0) + (IF guard = "layered" \/ log'[i][2] = k THEN 1 ELSE 0)
    BY <1>1, <1>4, <1>5, <1>6
  <1> QED
    BY <1>2, <1>3, <1>7

\* No call overdraws its bucket: what was drawn since any earlier call and what is left stay in balance
\* with the burst and the time between.
LEMMA RateKept ==
    ASSUME LimitTypes, LimiterInv, LayeredInv, ScopeInv, RateInv, LimitNext
    PROVE  RateInv'
  <1>0. guard' = guard /\ tick \in Nat \ {0} /\ BurstOf' = BurstOf /\ BurstOf \in Nat
    BY LimitMoves DEF BurstOf, LimitTypes, Burst
  <1> SUFFICES ASSUME guard \in RateGuards PROVE InRate' /\ Balance'
    BY <1>0 DEF RateInv
  <1>1. InRate /\ Balance
    BY DEF RateInv
  <1>2. CASE TimePasses
    <2>1. log' = log /\ full' = full
      BY <1>2 DEF TimePasses
    <2> QED
      BY <1>0, <1>1, <2>1 DEF InRate, Balance, Drawn
  <1>3. ASSUME NEW k \in Keys, CallOnce(k) PROVE InRate' /\ Balance'
    <2> DEFINE pk == PurseKey(k, guard)
               old == Purse(full, guard)
               new == Purse(full', guard)
               at(i) == PurseKey(log[i][2], guard)
    <2>1. PICK ok :
            /\ log' = IF ok THEN Append(log, <<tick, k>>) ELSE log
            /\ \A x \in DOMAIN old : /\ old[x].tokens \in Nat /\ old[x].last \in 1..tick
                                     /\ x \in DOMAIN new
            /\ guard # "layered" => \A x \in DOMAIN old : x # pk => new[x] = old[x]
            /\ pk \in DOMAIN new /\ new[pk].last = tick /\ new[pk].tokens \in Nat
            /\ new[pk].tokens + (IF ok THEN 1 ELSE 0) <= BurstOf
            /\ pk \in DOMAIN old => new[pk].tokens + (IF ok THEN 1 ELSE 0) <= old[pk].tokens + tick - old[pk].last
      BY <1>3, CallSpends
    <2>2. PICK n : n = Len(log)
      OBVIOUS
    <2>3. n \in Nat /\ \A i : i \in DOMAIN log <=> i \in 1..n
      BY <2>2 DEF LimitTypes
    <2>4. \A i \in 1..n : log[i][1] \in 1..tick
      BY <2>3 DEF LimitTypes
    <2>5. \A i, j \in 1..n : IsFiniteSet(Drawn(i, j)) /\ Cardinality(Drawn(i, j)) \in Nat
      <3> TAKE i \in 1..n, j \in 1..n
      <3>1. Drawn(i, j) \subseteq i..j /\ IsFiniteSet(i..j)
        BY FS_Interval DEF Drawn
      <3> QED
        BY <3>1, FS_Subset, FS_CardinalityType
    <2>6. \A i \in 1..n : /\ at(i) \in DOMAIN old
                           /\ Cardinality(Drawn(i, n)) + old[at(i)].tokens <= BurstOf + old[at(i)].last - log[i][1]
      BY <1>1, <2>2, <2>3 DEF Balance
    <2>7. \A i, j \in 1..n : i <= j => Cardinality(Drawn(i, j)) <= BurstOf + (log[j][1] - log[i][1])
      BY <1>1, <2>3 DEF InRate
    <2>8. \A i : (guard = "layered" \/ log[i][2] = k) <=> at(i) = pk
      BY DEF PurseKey
    <2>9. \A i \in 1..n : at(i) # pk => new[at(i)] = old[at(i)]
      BY <2>1, <2>6, <2>8
    <2> HIDE DEF pk, old, new
    <2>10. CASE ~ok
      <3>1. log' = log
        BY <2>1, <2>10
      <3>2. \A i \in 1..n : /\ at(i) \in DOMAIN new
                             /\ Cardinality(Drawn(i, n)) + new[at(i)].tokens <= BurstOf + new[at(i)].last - log[i][1]
        <4> TAKE i \in 1..n
        <4>1. CASE at(i) = pk
          BY <1>0, <2>1, <2>3, <2>4, <2>5, <2>6, <2>10, <4>1
        <4>2. CASE at(i) # pk
          BY <2>1, <2>6, <2>9, <4>2
        <4> QED
          BY <4>1, <4>2
      <3>3. \A i, j : Drawn(i, j)' = Drawn(i, j)
        BY <1>0, <3>1 DEF Drawn
      <3>4. InRate'
        BY <1>0, <1>1, <3>1, <3>3 DEF InRate
      <3>5. Balance'
        BY <1>0, <2>2, <2>3, <3>1, <3>2, <3>3 DEF Balance, new
      <3> QED
        BY <3>4, <3>5
    <2>11. CASE ok
      <3>1. log' = Append(log, <<tick, k>>) /\ k \in LogKeys
        BY <2>1, <2>11 DEF LogKeys, RateGuards
      <3>2. /\ Len(log') = n + 1 /\ log'[n + 1] = <<tick, k>>
            /\ \A i \in 1..n : log'[i] = log[i]
            /\ \A i : i \in DOMAIN log' <=> i \in 1..(n + 1)
        BY <2>2, <3>1, OneMore
      <3>3. /\ \A i, j \in 1..n : Drawn(i, j)' = Drawn(i, j)
            /\ \A i \in 1..(n + 1) :
                Cardinality(Drawn(i, n + 1)')
                  = (IF i \in 1..n THEN Cardinality(Drawn(i, n)) ELSE 0)
                    + (IF guard = "layered" \/ log'[i][2] = k THEN 1 ELSE 0)
        BY <1>0, <2>2, <3>1, DrawnCounts
      <3>4. log'[n + 1][1] = tick /\ log'[n + 1][2] = k
        BY <3>2
      <3>5. /\ new[pk].tokens + 1 <= BurstOf
            /\ pk \in DOMAIN old => new[pk].tokens + 1 <= old[pk].tokens + tick - old[pk].last
        BY <2>1, <2>11
      <3>6. ASSUME NEW i \in 1..n
            PROVE  /\ at(i) \in DOMAIN new
                   /\ Cardinality(Drawn(i, n + 1)') + new[at(i)].tokens <= BurstOf + new[at(i)].last - log[i][1]
                   /\ Cardinality(Drawn(i, n + 1)') <= BurstOf + (tick - log[i][1])
        <4>1. /\ at(i) \in DOMAIN old /\ at(i) \in DOMAIN new
              /\ old[at(i)].tokens \in Nat /\ old[at(i)].last \in 1..tick
              /\ log[i][1] \in 1..tick /\ i \in 1..(n + 1) /\ n \in 1..n /\ i <= n
              /\ Cardinality(Drawn(i, n)) \in Nat
              /\ Cardinality(Drawn(i, n)) + old[at(i)].tokens <= BurstOf + old[at(i)].last - log[i][1]
          BY <2>1, <2>3, <2>4, <2>5, <2>6
        <4>2. CASE at(i) = pk
          <5>1. Cardinality(Drawn(i, n + 1)') = Cardinality(Drawn(i, n)) + 1
            BY <2>8, <3>2, <3>3, <4>1, <4>2
          <5>2. new[pk].last = tick /\ new[pk].tokens \in Nat
            BY <2>1
          <5> QED
            BY <1>0, <3>5, <4>1, <4>2, <5>1, <5>2
        <4>3. CASE at(i) # pk
          <5>1. Cardinality(Drawn(i, n + 1)') = Cardinality(Drawn(i, n)) + 0
            BY <2>8, <3>2, <3>3, <4>1, <4>3
          <5>2. new[at(i)] = old[at(i)]
            BY <2>9, <4>3
          <5>3. Cardinality(Drawn(i, n)) <= BurstOf + (log[n][1] - log[i][1]) /\ log[n][1] \in 1..tick
            BY <2>4, <2>7, <4>1
          <5> QED
            BY <1>0, <4>1, <5>1, <5>2, <5>3
        <4> QED
          BY <4>2, <4>3
      <3>7. Cardinality(Drawn(n + 1, n + 1)') = 1
        BY <2>3, <3>3, <3>4
      <3>8. InRate'
        <4> SUFFICES ASSUME NEW i \in 1..(n + 1), NEW j \in 1..(n + 1), i <= j
                     PROVE  Cardinality(Drawn(i, j)') <= BurstOf + (log'[j][1] - log'[i][1])
          BY <1>0, <3>2 DEF InRate
        <4>1. CASE j # n + 1
          BY <2>3, <2>7, <3>2, <3>3, <4>1
        <4>2. CASE j = n + 1 /\ i # n + 1
          BY <2>3, <3>2, <3>4, <3>6, <4>2
        <4>3. CASE j = n + 1 /\ i = n + 1
          <5>1. 1 <= BurstOf
            BY <1>0, <2>1, <3>5
          <5> QED
            BY <1>0, <3>4, <3>7, <4>3, <5>1
        <4> QED
          BY <4>1, <4>2, <4>3
      <3>9. ASSUME NEW i \in 1..(n + 1)
            PROVE  /\ PurseKey(log'[i][2], guard) \in DOMAIN new
                   /\ Cardinality(Drawn(i, n + 1)') + new[PurseKey(log'[i][2], guard)].tokens
                        <= BurstOf + new[PurseKey(log'[i][2], guard)].last - log'[i][1]
        <4>1. CASE i \in 1..n
          BY <3>2, <3>6, <4>1
        <4>2. CASE i = n + 1
          <5>1. PurseKey(log'[i][2], guard) = pk /\ log'[i][1] = tick /\ Cardinality(Drawn(i, n + 1)') = 1
            BY <3>4, <3>7, <4>2 DEF pk
          <5>2. pk \in DOMAIN new /\ new[pk].last = tick /\ new[pk].tokens \in Nat
            BY <2>1
          <5> QED
            BY <1>0, <3>5, <5>1, <5>2
        <4> QED
          BY <2>3, <4>1, <4>2
      <3>10. Balance'
        BY <1>0, <3>2, <3>9 DEF Balance, new
      <3> QED
        BY <3>8, <3>10
    <2> QED
      BY <2>10, <2>11
  <1> QED
    BY <1>2, <1>3, LimitMoves DEF RateGuards

-----------------------------------------------------------------------------

\* An empty table keeps every rule.
LEMMA LimitInit0 == ASSUME FabricInit PROVE LimitInv
  <1>1. /\ guard \in Guards /\ tick = 1 /\ calls = 0 /\ log = <<>> /\ flight = {}
        /\ table = Empty(guard) /\ full = table
    BY DEF FabricInit, LimitInit
  <1>2. LimitTypes
    BY <1>1 DEF LimitTypes
  <1>3. LimiterInv /\ VerifierInv /\ ReplayInv
    <2>1. guard \in {"limiter", "verifier", "replay"} => table = <<>>
      BY <1>1 DEF Empty
    <2>2. DOMAIN <<>> = {} /\ IsMap(<<>>)
      BY DEF IsMap
    <2>3. LimiterInv
      BY <1>1, <2>1, <2>2 DEF LimiterInv, Buckets
    <2>4. VerifierInv
      BY <1>1, <2>1, <2>2 DEF VerifierInv, Nonces, AcceptedOnce
    <2>5. ReplayInv
      BY <1>1, <2>1, <2>2 DEF ReplayInv, ReplayNeedsSweep
    <2> QED
      BY <2>3, <2>4, <2>5
  <1>4. LayeredInv
    BY <1>1 DEF LayeredInv, Empty, Buckets, IsMap
  <1>5. ScopeInv
    BY <1>1 DEF ScopeInv, Empty, ScopeTables, IsMap
  <1>6. LoginInv
    BY <1>1 DEF LoginInv, Empty, LoginTables, IsMap
  <1>7. AdaptiveInv
    BY <1>1, FS_EmptySet DEF AdaptiveInv, Empty, AdaptiveMin, AdaptiveMax
  <1>8. RateInv
    BY <1>1 DEF RateInv, InRate, Balance
  <1> QED
    BY <1>2, <1>3, <1>4, <1>5, <1>6, <1>7, <1>8 DEF LimitInv

\* The invariant of the guards holds in every state.
LEMMA LimitInductive == FabricSpec => []LimitInv
  <1>1. FabricInit => LimitInv
    BY LimitInit0
  <1>2. LimitInv /\ [FabricNext]_fabricVars => LimitInv'
    <2> SUFFICES ASSUME LimitInv, [FabricNext]_fabricVars PROVE LimitInv'
      OBVIOUS
    <2>1. CASE LimitNext
      BY <2>1, LimitTypesKept, LimiterKept, LayeredKept, ScopeKept, LoginKept, VerifierKept, ReplayKept, AdaptiveKept, RateKept
         DEF LimitInv
    <2>2. CASE UNCHANGED limitVars
      <3> USE <2>2 DEF limitVars, LimitInv
      <3>1. LimitTypes' /\ LimiterInv' /\ LayeredInv' /\ ScopeInv' /\ LoginInv'
        BY DEF LimitTypes, LogKeys, LimiterInv, LayeredInv, ScopeInv, LoginInv
      <3>2. VerifierInv' /\ ReplayInv' /\ AdaptiveInv'
        BY DEF VerifierInv, AcceptedOnce, ReplayInv, ReplayNeedsSweep, AdaptiveInv
      <3>3. RateInv'
        <4>1. Balance => Balance'
          BY DEF Balance, Drawn, BurstOf
        <4>2. InRate => InRate'
          BY DEF InRate, Drawn, BurstOf
        <4> QED
          BY <4>1, <4>2 DEF RateInv
      <3> QED
        BY <3>1, <3>2, <3>3
    <2> QED
      BY <2>1, <2>2, LimitSteps
  <1> QED
    BY <1>1, <1>2, PTL DEF FabricSpec

\* The table that forgets answers like the one that does not.
LEMMA TablesAgree == ASSUME LimitInv PROVE ForgettingIsInvisible
  <1> SUFFICES ASSUME guard \notin {"adaptive", "replay"}, NEW k \in Keys
               PROVE  Answer(table, k) = Answer(full, k)
    BY DEF ForgettingIsInvisible
  <1>0. tick \in Nat \ {0}
    BY DEF LimitInv, LimitTypes
  <1>1. CASE guard = "limiter" \/ guard = "layered"
    BY <1>1 DEF LimitInv, LimiterInv, LayeredInv
  <1>2. CASE guard = "scope"
    <2>1. ScopeTables(table, full, tick)
      BY <1>2 DEF LimitInv, ScopeInv
    <2> DEFINE q == ScopeAllow(full, k, tick)
    <2>2. ScopeSame(full, ScopeAllow(table, k, tick), q, [rl |-> Over(q.t.rl, full.rl), lastSweep |-> q.t.lastSweep], k, tick)
      BY <1>0, <2>1, ScopeAgrees
    <2>3. ScopeAllow(table, k, tick).ok = q.ok
      BY <2>2 DEF ScopeSame
    <2> QED
      BY <1>2, <2>3 DEF Answer, AskGuard
  <1>3. CASE guard = "verifier"
    <2>1. CommandVerify(table, Sign(k, 1), tick).ok = CommandVerify(full, Sign(k, 1), tick).ok
      BY <1>0, <1>3, VerifierAgrees DEF LimitInv, VerifierInv
    <2> QED
      BY <1>3, <2>1 DEF Answer, AskGuard
  <1>4. CASE guard = "login"
    <2>1. LoginTables(table, full, tick)
      BY <1>4 DEF LimitInv, LoginInv
    <2>2. recordFailure(table, k, tick).recs[k] = recordFailure(full, k, tick).recs[k]
      BY <1>0, <2>1, FailureAgrees
    <2>3. full = [recs |-> full.recs, lastGC |-> full.lastGC]
      BY <1>0, <2>1, LoginParts
    <2>4. allowed(table, k, tick).ok = allowed(full, k, tick).ok
      BY <1>0, <2>1, <2>3, AllowedAgrees
    <2> QED
      BY <1>4, <2>2, <2>4 DEF Answer
  <1> QED
    BY <1>1, <1>2, <1>3, <1>4 DEF LimitInv, LimitTypes, Guards

\* Tables that are pruned, swept or collected answer like ones that keep everything; no key passes
\* more often in any stretch of time than its burst and its rate allow, and through the layers all keys
\* together do not either; an envelope is accepted once while it is valid; a message passes twice
\* only if a sweep overtook it; and the slots of the adaptive limit are those of the calls under way.
\* For any number of calls, of logins and messages between two locks, and any time.
THEOREM LimitsAreKept == FabricSpec => []LimitsHold
  <1>1. ASSUME LimitInv PROVE LimitsHold
    <2>1. WithinRate
      <3>1. CASE guard \in RateGuards
        <4>1. InRate
          BY <1>1, <3>1 DEF LimitInv, RateInv
        <4> SUFFICES ASSUME NEW i \in DOMAIN log, NEW j \in DOMAIN log, i <= j
                     PROVE  Cardinality({n \in i..j : guard = "layered" \/ log[n][2] = log[i][2]})
                              <= (IF guard = "scope" THEN 1 ELSE Burst) + Rate * (log[j][1] - log[i][1])
          BY DEF WithinRate
        <4>2. log[i][1] \in Int /\ log[j][1] \in Int
          BY <1>1 DEF LimitInv, LimitTypes
        <4>3. Cardinality(Drawn(i, j)) <= BurstOf + (log[j][1] - log[i][1])
          BY <4>1 DEF InRate
        <4>4. Rate * (log[j][1] - log[i][1]) = log[j][1] - log[i][1]
          BY <4>2 DEF Rate
        <4> QED
          BY <4>3, <4>4 DEF Drawn, BurstOf
      <3>2. CASE guard \notin RateGuards
        BY <3>2 DEF WithinRate, RateGuards
      <3> QED
        BY <3>1, <3>2
    <2>2. AcceptedOnce /\ ReplayNeedsSweep
      BY <1>1 DEF LimitInv, VerifierInv, ReplayInv, AcceptedOnce, ReplayNeedsSweep
    <2>3. AdaptiveSound
      <3> SUFFICES ASSUME guard = "adaptive"
                   PROVE  /\ table.inflight = Cardinality(flight) /\ table.inflight <= AdaptiveMax
                          /\ flight = {} => TryAcquire(table).inflight = 1
        BY DEF AdaptiveSound
      <3>1. table \in [limit : 1..3, inflight : 0..3, streak : Nat] /\ table.inflight = Cardinality(flight)
        BY <1>1 DEF LimitInv, AdaptiveInv, AdaptiveMin, AdaptiveMax
      <3>2. flight = {} => table.inflight = 0
        BY <3>1, FS_EmptySet
      <3>3. flight = {} => TryAcquire(table).inflight = 1
        BY <3>1, <3>2 DEF TryAcquire
      <3> QED
        BY <3>1, <3>3 DEF AdaptiveMax
    <2> QED
      BY <1>1, <2>1, <2>2, <2>3, TablesAgree DEF LimitsHold
  <1> QED
    BY <1>1, LimitInductive, PTL
=============================================================================
