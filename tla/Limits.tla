-------------------------------- MODULE Limits --------------------------------
(* Limits and one-use guards of the server: package ratelimit (token buckets,   *)
(* layers, the adaptive concurrency limit), adminapi's loginLimiter, the scope  *)
(* engine's buckets, and the replay guards commandplane.CommandVerifier and     *)
(* security.ReplayProtector.  Every table forgets entries now and then; beside  *)
(* each stands a copy that never forgets, and both must answer alike.           *)
EXTENDS Scope

CONSTANTS MaxTick,   \* last instant of the clock
          MaxCalls   \* calls a behaviour makes
ASSUME LimitAssumption == MaxTick \in Nat /\ MaxCalls \in Nat

VARIABLES guard,  \* which of the guards this behaviour is about
          tick,   \* the clock
          calls,  \* calls made so far
          table,  \* the guard's table
          full,   \* the same table, nothing ever forgotten
          log,    \* <<instant, key>> of the calls that were let through
          flight  \* calls between two locks: the set of [key, at, seq]
limitVars == <<guard, tick, calls, table, full, log, flight>>

Keys == {"k1", "k2"}
Put(f, k, v) == [x \in DOMAIN f \cup {k} |-> IF x = k THEN v ELSE f[x]]
Over(f, g) == [x \in DOMAIN f \cup DOMAIN g |-> IF x \in DOMAIN f THEN f[x] ELSE g[x]]

(***************************** ratelimit.Limiter ******************************)

Rate == 1
Burst == 2
maxKeys == 1     \* 100000
PruneAge == 1    \* a minute

\* Stored tokens are those after the last call, so a bucket that has been used is never full here.
pruneLocked(bs, at) == Restrict(bs, {k \in DOMAIN bs : ~(bs[k].tokens >= Burst /\ at - bs[k].last > PruneAge)})

LimiterAllow(bs, key, at) ==
  LET kept == IF Cardinality(DOMAIN bs) > maxKeys THEN pruneLocked(bs, at) ELSE bs
      b == IF key \in DOMAIN kept THEN kept[key] ELSE [tokens |-> Burst, last |-> at]
      refilled == b.tokens + (at - b.last) * Rate
      tokens == IF at > b.last THEN IF refilled > Burst THEN Burst ELSE refilled ELSE b.tokens
  IN  [ok |-> tokens >= 1, t |-> Put(kept, key, [tokens |-> IF tokens >= 1 THEN tokens - 1 ELSE tokens, last |-> at])]

\* Layered.Allow over a global and a tenant layer: a layer that refuses keeps what the layers before it spent.
LayeredAllow(ls, key, at) ==
  LET g == LimiterAllow(ls.global, "*", at)
      t == LimiterAllow(ls.tenant, key, at)
  IN  IF ~g.ok THEN [ok |-> FALSE, t |-> [ls EXCEPT !.global = g.t]]
      ELSE [ok |-> key = "" \/ t.ok, t |-> [global |-> g.t, tenant |-> IF key = "" THEN ls.tenant ELSE t.t]]

(************************** adminapi.loginLimiter *****************************)

LoginMax == 2
LoginWindow == 2

\* Mutant: a record goes with its window, locked or not.
gcLocked(l, at) ==
  IF at - l.lastGC < LoginWindow THEN l
  ELSE [lastGC |-> at, recs |-> Restrict(l.recs, {k \in DOMAIN l.recs : ~(at - l.recs[k].windowStart > LoginWindow)})]
\* Run by allowed, at most once a window.
gc(l, at) ==
  IF at - l.lastGC < LoginWindow THEN l
  ELSE [lastGC |-> at, recs |-> Restrict(l.recs, {k \in DOMAIN l.recs : ~(at > l.recs[k].lockedUntil /\ at - l.recs[k].windowStart > LoginWindow)})]

allowed(l, key, at) == LET x == gc(l, at) IN [ok |-> key \notin DOMAIN x.recs \/ at >= x.recs[key].lockedUntil, t |-> x]
recordFailure(l, key, at) ==
  LET fresh == key \notin DOMAIN l.recs \/ at - l.recs[key].windowStart > LoginWindow
      r == IF fresh THEN [count |-> 0, windowStart |-> at, lockedUntil |-> 0] ELSE l.recs[key]
      n == r.count + 1
  IN  [l EXCEPT !.recs = Put(@, key, [r EXCEPT !.count = n, !.lockedUntil = IF n >= LoginMax THEN at + LoginWindow ELSE @])]
recordSuccess(l, key) == [l EXCEPT !.recs = Restrict(@, DOMAIN @ \ {key})]

(*************************** ratelimit.Adaptive *******************************)

AdaptiveMin == 1
AdaptiveMax == 3
increaseEvery == 2
TryAcquire(a) == IF a.inflight >= a.limit THEN a ELSE [a EXCEPT !.inflight = @ + 1]
Release(a) == [a EXCEPT !.inflight = IF @ > 0 THEN @ - 1 ELSE @]
Observe(a, ok) ==
  IF ~ok THEN [a EXCEPT !.streak = 0, !.limit = IF @ \div 2 < AdaptiveMin THEN AdaptiveMin ELSE @ \div 2]
  ELSE IF a.streak + 1 < increaseEvery THEN [a EXCEPT !.streak = @ + 1]
  ELSE [a EXCEPT !.streak = 0, !.limit = IF @ < AdaptiveMax THEN @ + 1 ELSE @]

(******************************* replay guards ********************************)

TTL == 2
\* CommandSigner.Sign: the envelope of the command key, signed at instant 0; the nonce is the key.
Sign(key, at) == [nonce |-> key, expires |-> at + TTL]
consumeNonce(seen, env, at) ==
  IF env.nonce \in DOMAIN seen /\ at < seen[env.nonce] THEN [ok |-> FALSE, t |-> seen]
  ELSE [ok |-> TRUE, t |-> Put(Restrict(seen, {n \in DOMAIN seen : at < seen[n]}), env.nonce, env.expires)]
\* Signature and device are those of the envelope; the caller reads the clock first.
CommandVerify(seen, env, at) == IF at > env.expires THEN [ok |-> FALSE, t |-> seen] ELSE consumeNonce(seen, env, at)

Window == 1
Skew == 1
\* ReplayProtector.CheckAndRecord reads the clock, then takes the lock.
Timely(ts, at) == ~(at > ts + Window) /\ ~(ts > at + Skew)
Record(seen, key, ts) == IF key \in DOMAIN seen THEN [ok |-> FALSE, t |-> seen] ELSE [ok |-> TRUE, t |-> Put(seen, key, ts)]
Sweep(seen, at) == Restrict(seen, {k \in DOMAIN seen : ~(at > seen[k] + Window)})

(********************************** behaviours ********************************)

Guards == {"limiter", "layered", "login", "adaptive", "verifier", "replay", "scope"}
ScopePolicy == [excluded |-> [devices |-> {}], rps |-> 1]
Empty(g) ==
  CASE g = "layered" -> [global |-> <<>>, tenant |-> <<>>]
    [] g = "login" -> [recs |-> <<>>, lastGC |-> 0]
    [] g = "adaptive" -> [limit |-> AdaptiveMax, inflight |-> 0, streak |-> 0]
    [] g = "scope" -> [rl |-> <<>>, lastSweep |-> 0]
    [] OTHER -> <<>>

\* A bucket of the scope engine; the sweep runs when a key is new.
ScopeAllow(s, key, at) ==
  LET known == key \in DOMAIN s.rl
      grown == IF known THEN s ELSE maybeSweepLocked(Put(s.rl, key, Fresh), s.lastSweep, at)
      r == allow(grown.rl[key], 1, at)
  IN  [ok |-> r.ok, t |-> [rl |-> Put(grown.rl, key, r.b), lastSweep |-> grown.lastSweep]]

AskGuard(t, key, at) ==
  CASE guard = "limiter" -> LimiterAllow(t, key, at)
    [] guard = "layered" -> LayeredAllow(t, key, at)
    [] guard = "scope" -> ScopeAllow(t, key, at)
    [] guard = "verifier" -> CommandVerify(t, Sign(key, 1), at)

\* The same without forgetting: only new or changed entries are taken over.
Keep(t, r) ==
  CASE guard \in {"limiter", "verifier"} -> Over(r, t)
    [] guard = "layered" -> [global |-> Over(r.global, t.global), tenant |-> Over(r.tenant, t.tenant)]
    [] guard = "scope" -> [rl |-> Over(r.rl, t.rl), lastSweep |-> r.lastSweep]
    [] guard = "login" -> [recs |-> Over(r.recs, t.recs), lastGC |-> r.lastGC]

LimitInit ==
  /\ guard \in Guards /\ tick = 1 /\ calls = 0 /\ log = <<>> /\ flight = {}
  /\ table = Empty(guard) /\ full = Empty(guard)

Counted == calls < MaxCalls /\ calls' = calls + 1
Log(ok, key) == log' = IF ok THEN Append(log, <<tick, key>>) ELSE log

\* One call under one lock.
CallOnce(key) ==
  /\ guard \in {"limiter", "layered", "scope", "verifier"} /\ Counted
  /\ LET r == AskGuard(table, key, tick) IN table' = r.t /\ Log(r.ok, key)
  /\ full' = Keep(full, AskGuard(full, key, tick).t)
  /\ UNCHANGED <<guard, tick, flight>>

\* A login attempt: allowed, then the password check without the lock, then the result.
LoginStart(key) ==
  /\ guard = "login" /\ Counted
  /\ LET r == allowed(table, key, tick)
     IN  table' = r.t /\ flight' = IF r.ok THEN flight \cup {[key |-> key, at |-> tick, seq |-> calls]} ELSE flight
  /\ full' = [full EXCEPT !.lastGC = allowed(full, key, tick).t.lastGC]
  /\ UNCHANGED <<guard, tick, log>>
LoginEnd(f, ok) ==
  /\ guard = "login" /\ flight' = flight \ {f}
  /\ table' = IF ok THEN recordSuccess(table, f.key) ELSE recordFailure(table, f.key, tick)
  /\ full' = IF ok THEN recordSuccess(full, f.key) ELSE recordFailure(full, f.key, tick)
  /\ UNCHANGED <<guard, tick, calls, log>>

\* A message with a time stamp reaches CheckAndRecord; the lock comes later.
ReplayStart(key) ==
  /\ guard = "replay" /\ Counted
  /\ flight' = IF Timely(1, tick) THEN flight \cup {[key |-> key, at |-> tick, seq |-> calls]} ELSE flight
  /\ UNCHANGED <<guard, tick, table, full, log>>
ReplayEnd(f) ==
  /\ guard = "replay" /\ flight' = flight \ {f}
  /\ LET r == Record(table, f.key, 1) IN table' = r.t /\ Log(r.ok, <<f.key, f.at>>)
  /\ full' = Record(full, f.key, 1).t
  /\ UNCHANGED <<guard, tick, calls>>
ReplaySweep ==
  /\ guard = "replay" /\ table' = Sweep(table, tick)
  /\ UNCHANGED <<guard, tick, calls, full, log, flight>>

\* An outgoing call: acquire, run, tell how it went, release.
Acquire ==
  /\ guard = "adaptive" /\ Counted /\ table' = TryAcquire(table)
  /\ flight' = IF table'.inflight > table.inflight THEN flight \cup {[key |-> "out", at |-> tick, seq |-> calls]} ELSE flight
  /\ UNCHANGED <<guard, tick, full, log>>
Finish(f, ok) ==
  /\ guard = "adaptive" /\ flight' = flight \ {f} /\ table' = Release(Observe(table, ok))
  /\ UNCHANGED <<guard, tick, calls, full, log>>

TimePasses == tick < MaxTick /\ tick' = tick + 1 /\ UNCHANGED <<guard, calls, table, full, log, flight>>

LimitNext ==
  \/ \E k \in Keys : CallOnce(k) \/ LoginStart(k) \/ ReplayStart(k)
  \/ \E f \in flight, ok \in BOOLEAN : LoginEnd(f, ok) \/ Finish(f, ok)
  \/ \E f \in flight : ReplayEnd(f)
  \/ ReplaySweep \/ Acquire \/ TimePasses
LimitSpec == LimitInit /\ [][LimitNext]_limitVars

(********************************* properties *********************************)

Answer(t, key) ==
  CASE guard \in {"limiter", "layered", "scope", "verifier"} -> AskGuard(t, key, tick).ok
    [] guard = "login" -> <<allowed(t, key, tick).ok, LET r == recordFailure(t, key, tick).recs[key] IN <<r.count, tick < r.lockedUntil>> >>

\* What a table forgets it no longer needs: pruned, swept or collected, it answers every key
\* exactly as the table that keeps everything.
ForgettingIsInvisible == guard \notin {"adaptive", "replay"} => \A k \in Keys : Answer(table, k) = Answer(full, k)

\* No key passes more often in any stretch of time than its burst and its rate allow, and
\* through the layers all keys together do not either.
WithinRate ==
  guard \in {"limiter", "layered", "scope"} =>
    \A i, j \in DOMAIN log : i <= j =>
      LET same == {n \in i..j : guard = "layered" \/ log[n][2] = log[i][2]}
          burst == IF guard = "scope" THEN 1 ELSE Burst
      IN  Cardinality(same) <= burst + Rate * (log[j][1] - log[i][1])

\* A command envelope is accepted once while it is valid, whatever other nonces made the verifier prune.
AcceptedOnce ==
  guard = "verifier" => \A i, j \in DOMAIN log : log[i][2] = log[j][2] /\ log[i][1] < 1 + TTL /\ log[j][1] < 1 + TTL => i = j

\* A replayed message passes a second time only if a sweep overtook it between its clock
\* reading and its turn at the lock.
ReplayNeedsSweep ==
  guard = "replay" => \A i, j \in DOMAIN log : i < j /\ log[i][2][1] = log[j][2][1] => log[j][1] > 1 + Window

\* The adaptive limit never falls to nothing and counts exactly the calls under way: an idle
\* client can always make a call, and no call is let in above the limit.
AdaptiveSound ==
  guard = "adaptive" => /\ table.inflight = Cardinality(flight) /\ table.inflight <= AdaptiveMax
                        /\ flight = {} => TryAcquire(table).inflight = 1

=============================================================================
