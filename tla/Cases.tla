-------------------------------- MODULE Cases --------------------------------
(* Cases and remediation checks.  A case is opened by an analyst or with an     *)
(* incident; a check measures after a window whether the signal has gone.  Two  *)
(* request handlers and the verification worker share the two stores, and each  *)
(* call on a store is a step.  A behaviour runs on the in-memory stores or on   *)
(* the database, which applies the in-memory operation to the one locked row.   *)
EXTENDS Integers, SequencesExt, FiniteSetsExt, TLC

CONSTANTS CaseHandlers,  \* concurrent requests
          MaxMoves,      \* changes of the world
          MaxRequests    \* requests and worker rounds

ASSUME CaseAssumption == MaxMoves \in Nat /\ MaxRequests \in Nat

VARIABLES cfg,      \* database or memory, tenants enforced, closing gate, own tenant, the kind of check asked for
          cases,    \* <<tenant, id>> -> case
          checks,   \* <<tenant, id>> -> check
          world,    \* what evaluations read
          jobs,     \* handlers and the worker
          requests, moves,
          closings, \* ghost: how cases were closed
          proofs    \* ghost: what each VERIFIED was based on
caseVars == <<cfg, cases, checks, world, jobs, requests, moves, closings, proofs>>

-----------------------------------------------------------------------------
(* casemgmt *)
allowedTransitions ==
  [OPEN |-> {"INVESTIGATING", "CLOSED"}, INVESTIGATING |-> {"CONTAINED", "CLOSED", "OPEN"}, CONTAINED |-> {"CLOSED", "INVESTIGATING"}, CLOSED |-> {"OPEN"}]
knownStatus(s) == s \in DOMAIN allowedTransitions
canTransition(from, to) == to \in allowedTransitions[from]
Event(kind) == <<kind, "", "">>
With(f, k, v) == [x \in DOMAIN f \cup {k} |-> IF x = k THEN v ELSE f[x]]
Failed(store) == [ok |-> FALSE, store |-> store]

Create(s, t, id, case) ==
  IF t = "" \/ id = "" \/ <<t, id>> \in DOMAIN s THEN Failed(s)
  ELSE [ok |-> TRUE, store |-> With(s, <<t, id>>, [case EXCEPT !.status = "OPEN", !.timeline = <<Event("created")>>])]
appendEvent(s, k, c, ev) == [ok |-> TRUE, store |-> [s EXCEPT ![k] = [c EXCEPT !.timeline = Append(@, ev)]]]
Transition(s, t, id, to) ==
  IF <<t, id>> \notin DOMAIN s THEN Failed(s)
  ELSE IF ~knownStatus(to) \/ ~canTransition(s[<<t, id>>].status, to) THEN Failed(s)
  ELSE appendEvent(s, <<t, id>>, [s[<<t, id>>] EXCEPT !.status = to], <<"transition", s[<<t, id>>].status, to>>)
\* What is attached already adds nothing to the time line.
Attach(s, t, id, kind, ref) ==
  IF <<t, id>> \notin DOMAIN s \/ kind \notin {"asset", "verification"} THEN Failed(s)
  ELSE LET c == s[<<t, id>>] IN
       IF ref \in c[kind] THEN [ok |-> TRUE, store |-> s] ELSE appendEvent(s, <<t, id>>, [c EXCEPT ![kind] = @ \cup {ref}], Event(IF kind = "verification" THEN "verify" ELSE "attach"))
Get(s, t, id) == IF <<t, id>> \in DOMAIN s THEN {s[<<t, id>>]} ELSE {}
GetAny(s, id) == {k \in DOMAIN s : k[2] = id}
CasesOf(s, t) == {k \in DOMAIN s : k[1] = t}
MostRecentOpenForAsset(s, keys, asset) ==
  {k \in keys : s[k].status # "CLOSED" /\ asset \in s[k].asset /\ \A j \in keys : (s[j].status # "CLOSED" /\ asset \in s[j].asset) => s[j].created <= s[k].created}

\* The database applies an operation to the row it has locked.
Row(s, t, id) == [k \in DOMAIN s \cap {<<t, id>>} |-> s[k]]
Saved(rows, s) == [k \in DOMAIN rows \cup DOMAIN s |-> IF k \in DOMAIN rows THEN rows[k] ELSE s[k]]
mutate(s, t, id, Op(_)) == LET r == Op(Row(s, t, id)) IN [ok |-> r.ok, store |-> IF r.ok THEN Saved(r.store, s) ELSE s]
dbTransition(s, t, id, to) == mutate(s, t, id, LAMBDA r : Transition(r, t, id, to))
dbAttach(s, t, id, kind, ref) == mutate(s, t, id, LAMBDA r : Attach(r, t, id, kind, ref))
dbCreate(s, t, id, case) == LET r == Create(<<>>, t, id, case) IN IF ~r.ok \/ <<t, id>> \in DOMAIN s THEN Failed(s) ELSE [ok |-> TRUE, store |-> Saved(r.store, s)]
DoCreate(t, id, case) == IF cfg.db THEN dbCreate(cases, t, id, case) ELSE Create(cases, t, id, case)
DoTransition(t, id, to) == IF cfg.db THEN dbTransition(cases, t, id, to) ELSE Transition(cases, t, id, to)
DoAttach(t, id, kind, ref) == IF cfg.db THEN dbAttach(cases, t, id, kind, ref) ELSE Attach(cases, t, id, kind, ref)

-----------------------------------------------------------------------------
(* verify.  A check carries the score of its factors and the score they have   *)
(* once the signal is gone.                                                    *)
OpenCheck(s, t, id, c) ==
  IF t = "" \/ id = "" THEN Failed(s) ELSE [ok |-> TRUE, store |-> With(s, <<t, id>>, [c EXCEPT !.outcome = "PENDING", !.baseline = IF @ = 0 THEN c.score ELSE @])]
ResolveCheck(s, k, outcome, residual) == IF k \notin DOMAIN s THEN Failed(s) ELSE [ok |-> TRUE, store |-> [s EXCEPT ![k] = [@ EXCEPT !.outcome = outcome, !.residual = residual]]]
dbResolve(s, k, outcome, residual) == LET r == ResolveCheck([x \in DOMAIN s \cap {k} |-> s[x]], k, outcome, residual) IN [ok |-> r.ok, store |-> Saved(r.store, s)]
RiskReduced(c) == Max({0, c.baseline - c.residual})
verifiedResidual(c) == Min({c.gone, c.baseline})
Verdict(outcome, residual) == [outcome |-> outcome, residual |-> residual]
\* fresh: the events since the check was opened
DetectionEvaluate(c, fresh) ==
  IF fresh = {} THEN Verdict("INCONCLUSIVE", c.baseline) ELSE IF "hit" \in fresh THEN Verdict("REGRESSED", c.baseline) ELSE Verdict("VERIFIED", verifiedResidual(c))
EvaluateDeviceStatus(c, current) ==
  IF current = "" THEN Verdict("INCONCLUSIVE", c.baseline) ELSE IF current = "QUARANTINED" THEN Verdict("VERIFIED", verifiedResidual(c)) ELSE Verdict("REGRESSED", c.baseline)
EvaluateVulnCleared(c, known, present) ==
  IF ~known THEN Verdict("INCONCLUSIVE", c.baseline) ELSE IF present THEN Verdict("REGRESSED", c.baseline) ELSE Verdict("VERIFIED", verifiedResidual(c))
\* peers: the devices the graph connects to the indicator
EvaluateGraphContainment(c, known, peers, exposed) ==
  IF ~known THEN Verdict("INCONCLUSIVE", c.baseline)
  ELSE IF exposed = 0 THEN Verdict("VERIFIED", verifiedResidual(c))
  ELSE Verdict("REGRESSED", Min({c.baseline, Max({1, (c.baseline * exposed) \div peers})}))
Peers == 2
VerifyEvaluate(c) ==
  CASE c.kind = "device_status" -> EvaluateDeviceStatus(c, world.status)
    [] c.kind = "vuln" -> EvaluateVulnCleared(c, world.known, world.present)
    [] c.kind = "graph_containment" -> EvaluateGraphContainment(c, world.known, Peers, world.exposed)
    [] OTHER -> DetectionEvaluate(c, world.fresh)
\* The worker has no vulnerability data and no case of its own for graph_containment.
WorkerEvaluate(c) == IF c.kind = "device_status" THEN EvaluateDeviceStatus(c, world.status) ELSE DetectionEvaluate(c, world.fresh)

-----------------------------------------------------------------------------
Device == "d1"
Callers == {"acme", ""}
CaseIds == {"m1", "case-i1"}
Kinds == {"detection", "device_status", "vuln", "graph_containment"}
Waiting == [pc |-> "idle"]
NewCase(at) == [status |-> "OPEN", owner |-> "system", asset |-> {Device}, verification |-> {}, timeline |-> <<>>, created |-> at]
NewCheck(kind) == [kind |-> kind, outcome |-> "PENDING", baseline |-> 0, score |-> 4, gone |-> 5, residual |-> 0, due |-> FALSE]

Contained ==
  LET do(s, to) == Transition(s, "acme", "m1", to).store
  IN do(do(Create(<<>>, "acme", "m1", NewCase(0)).store, "INVESTIGATING"), "CONTAINED")

CaseInit ==
  /\ cfg \in {[db |-> k \in {"vuln", "graph_containment"}, enforce |-> k = "vuln", requireVerify |-> k # "device_status", deploy |-> "acme", kind |-> k] : k \in Kinds}
  /\ \/ cases = <<>> /\ checks = <<>>
     \/ cases = Contained /\ checks = OpenCheck(<<>>, "acme", "k1", NewCheck(cfg.kind)).store
  /\ requests = 0 /\ moves = 0 /\ closings = {} /\ proofs = {}
  /\ world = [fresh |-> {}, status |-> "QUARANTINE_PENDING", known |-> TRUE, present |-> TRUE, exposed |-> 1]
  /\ jobs = [h \in CaseHandlers \cup {"worker"} |-> Waiting]

Request == requests < MaxRequests /\ requests' = requests + 1
Only(h, pc) == jobs[h].pc = pc

\* The correlator opened an incident: the device's tenant may be unknown, or not be told.
caseTenant(lookup) == IF lookup = "error" \/ (lookup = "" /\ cfg.enforce) THEN "" ELSE IF lookup = "" THEN "default" ELSE lookup
OpenIncident ==
  \E lookup \in {"error", "", "acme"} :
    /\ Request /\ caseTenant(lookup) # "" /\ cases' = DoCreate(caseTenant(lookup), "case-i1", NewCase(requests)).store
    /\ UNCHANGED <<cfg, checks, world, jobs, moves, closings, proofs>>
handleCaseCreate ==
  \E caller \in Callers :
    /\ Request /\ GetAny(cases, "m1") = {} /\ cases' = DoCreate(IF caller = "" THEN cfg.deploy ELSE caller, "m1", NewCase(requests)).store
    /\ UNCHANGED <<cfg, checks, world, jobs, moves, closings, proofs>>
\* the tenant a request on a case works in: the caller's, or the case's for a platform administrator
caseOpTenant(caller, id) == IF caller # "" THEN {caller} ELSE {k[1] : k \in GetAny(cases, id)}
handleCaseAttach ==
  \E caller \in Callers, id \in CaseIds, ref \in {k[2] : k \in DOMAIN checks} : \E t \in caseOpTenant(caller, id) :
    /\ Request /\ cases' = DoAttach(t, id, "verification", ref).store
    /\ UNCHANGED <<cfg, checks, world, jobs, moves, closings, proofs>>
hasVerifiedCheckAny(t, refs) == refs # {}
hasVerifiedCheck(t, refs) == \E r \in refs : <<t, r>> \in DOMAIN checks /\ checks[<<t, r>>].outcome = "VERIFIED"
\* The gate in front of closing is a read of its own.
handleCaseTransition(h) ==
  \E caller \in Callers, id \in CaseIds, to \in DOMAIN allowedTransitions : \E t \in caseOpTenant(caller, id) :
    /\ Only(h, "idle") /\ Request
    /\ LET gated == cfg.requireVerify /\ to = "CLOSED" IN
       jobs' = IF gated /\ (Get(cases, t, id) = {} \/ (\E c \in Get(cases, t, id) : c.status = "CONTAINED" /\ ~hasVerifiedCheck(t, c.verification))) THEN jobs
               ELSE [jobs EXCEPT ![h] = [pc |-> "transition", tenant |-> t, id |-> id, to |-> to, saw |-> {c.status : c \in Get(cases, t, id)}]]
    /\ UNCHANGED <<cfg, cases, checks, world, moves, closings, proofs>>
finishTransition(h) ==
  LET j == jobs[h] k == <<j.tenant, j.id>> r == DoTransition(j.tenant, j.id, j.to)
  IN /\ Only(h, "transition") /\ cases' = r.store /\ jobs' = [jobs EXCEPT ![h] = Waiting]
     /\ closings' = IF r.ok /\ j.to = "CLOSED" THEN closings \cup {[case |-> k, from |-> cases[k].status, saw |-> j.saw, proved |-> \E p \in proofs : p.key[1] = k[1] /\ p.key[2] \in cases[k].verification]} ELSE closings
     /\ UNCHANGED <<cfg, checks, world, requests, moves, proofs>>

\* Automatic checks after a quarantine belong to the deployment's tenant.
NextCheck == "k" \o ToString(Cardinality(DOMAIN checks) + 1)
handleVerifyOpen ==
  \E caller \in Callers \cup {"auto"} :
    LET kind == cfg.kind t == IF caller = "auto" THEN cfg.deploy ELSE IF caller = "" THEN "default" ELSE caller
    IN /\ Cardinality(DOMAIN checks) < 1 /\ Request /\ (caller = "auto" => kind \in {"detection", "device_status"})
       /\ checks' = OpenCheck(checks, t, NextCheck, NewCheck(kind)).store
       /\ UNCHANGED <<cfg, cases, world, jobs, moves, closings, proofs>>
Judged(h, k, v) == [pc |-> "resolve", key |-> k, verdict |-> v, kind |-> checks[k].kind, by |-> h, fresh |-> world.fresh, exposed |-> world.exposed]
handleVerifyRun(h) ==
  \E caller \in Callers, k \in DOMAIN checks :
    /\ Only(h, "idle") /\ h # "worker" /\ caller \in {"", k[1]} /\ Request
    /\ jobs' = [jobs EXCEPT ![h] = Judged(h, k, VerifyEvaluate(checks[k]))]
    /\ UNCHANGED <<cfg, cases, checks, world, moves, closings, proofs>>
runVerifyWorker ==
  \E k \in DOMAIN checks :
    /\ Only("worker", "idle") /\ Request /\ checks[k].outcome = "PENDING" /\ checks[k].due /\ checks[k].kind # "vuln"
    /\ jobs' = [jobs EXCEPT !["worker"] = Judged("worker", k, WorkerEvaluate(checks[k]))]
    /\ UNCHANGED <<cfg, cases, checks, world, moves, closings, proofs>>
\* Whoever resolves last decides; the worker then attaches a proof to the device's open case.
finishResolve(h) ==
  LET j == jobs[h] r == IF cfg.db THEN dbResolve(checks, j.key, j.verdict.outcome, j.verdict.residual) ELSE ResolveCheck(checks, j.key, j.verdict.outcome, j.verdict.residual)
      proved == j.verdict.outcome = "VERIFIED"
  IN /\ Only(h, "resolve") /\ checks' = r.store
     /\ jobs' = [jobs EXCEPT ![h] = IF h = "worker" /\ proved THEN [pc |-> "attach", key |-> j.key] ELSE Waiting]
     /\ proofs' = IF proved THEN proofs \cup {[key |-> j.key, kind |-> j.kind, by |-> IF h = "worker" THEN h ELSE "api", fresh |-> j.fresh, exposed |-> j.exposed]} ELSE proofs
     /\ UNCHANGED <<cfg, cases, world, requests, moves, closings>>
workerAttach ==
  LET j == jobs["worker"] ks == MostRecentOpenForAsset(cases, CasesOf(cases, j.key[1]), Device)
  IN /\ Only("worker", "attach")
     /\ IF ks = {} THEN cases' = cases ELSE \E k \in ks : cases' = DoAttach(k[1], k[2], "verification", j.key[2]).store
     /\ jobs' = [jobs EXCEPT !["worker"] = Waiting] /\ UNCHANGED <<cfg, checks, world, requests, moves, closings, proofs>>

\* The device reports, is isolated, loses a package; a peer is isolated; the window of a check passes.
Change ==
  /\ moves < MaxMoves /\ moves' = moves + 1
  /\ \/ cfg.kind \in {"detection", "graph_containment"} /\ \E e \in {"hit", "quiet"} : world' = [world EXCEPT !.fresh = @ \cup {e}] /\ UNCHANGED checks
     \/ cfg.kind = "device_status" /\ \E s \in {"QUARANTINED", ""} : world' = [world EXCEPT !.status = s] /\ UNCHANGED checks
     \/ cfg.kind \in {"vuln", "graph_containment"} /\ world' = [world EXCEPT !.present = FALSE, !.exposed = 0] /\ UNCHANGED checks
     \/ cfg.kind \in {"vuln", "graph_containment"} /\ world' = [world EXCEPT !.known = FALSE] /\ UNCHANGED checks
     \/ checks # <<>> /\ checks' = [k \in DOMAIN checks |-> [checks[k] EXCEPT !.due = TRUE]] /\ UNCHANGED world
  /\ UNCHANGED <<cfg, cases, jobs, requests, closings, proofs>>

CaseNext ==
  \/ OpenIncident \/ handleCaseCreate \/ handleCaseAttach \/ handleVerifyOpen \/ runVerifyWorker \/ workerAttach \/ Change
  \/ \E h \in CaseHandlers : handleCaseTransition(h) \/ finishTransition(h) \/ handleVerifyRun(h)
  \/ \E h \in CaseHandlers \cup {"worker"} : finishResolve(h)
CaseSpec == CaseInit /\ [][CaseNext]_caseVars

-----------------------------------------------------------------------------
\* A case that was contained when it was closed had a check attached that was VERIFIED at some time, if
\* one is required, unless the gate saw the case in another state: another request moved it between
\* gate and transition.
ClosedWithProof == cfg.requireVerify => \A c \in closings : (c.from = "CONTAINED" /\ c.saw = {"CONTAINED"}) => c.proved
\* A check is VERIFIED only on evidence: a detection check on events among which nothing fires, a
\* containment check that a request evaluated on no exposed peer.  The worker judges a containment
\* check like a detection, so for that kind its verdict is left out.
ProofHasEvidence ==
  \A p \in proofs : /\ (p.kind = "detection" \/ (p.by = "worker" /\ p.kind # "device_status")) => p.fresh = {"quiet"}
                    /\ (p.kind = "graph_containment" /\ p.by = "api") => p.exposed = 0
                    /\ p.by = "worker" => p.kind # "vuln"
\* What is left of a risk is never more than there was, and nothing is gained unless it is verified
\* or some peers are contained.
ResidualBounded ==
  \A k \in DOMAIN checks : LET c == checks[k] IN
    c.outcome # "PENDING" => c.residual \in 0..c.baseline /\ (RiskReduced(c) > 0 => c.outcome = "VERIFIED" \/ c.kind = "graph_containment")
\* The status the first n entries of a time line lead to.
told(timeline, n) == LET moved == {i \in 1..n : timeline[i][1] = "transition"} IN IF moved = {} THEN "OPEN" ELSE timeline[Max(moved)][3]
TimelineTells(c) ==
  /\ c.status = told(c.timeline, Len(c.timeline))
  /\ \A i \in DOMAIN c.timeline : LET e == c.timeline[i] IN e[1] = "transition" => e[2] = told(c.timeline, i - 1) /\ canTransition(e[2], e[3])
  /\ Cardinality({i \in DOMAIN c.timeline : c.timeline[i][1] = "verify"}) = Cardinality(c.verification)
\* The time line tells a case's status: its last transition leads there, each step is an allowed one
\* from the status before, and every attached verification stands in it once.
TimelineTellsStatus == \A k \in DOMAIN cases : TimelineTells(cases[k])
\* A step changes cases of one tenant only, and never shortens a time line.
CaseStaysInTenant ==
  [][\A k \in DOMAIN cases : /\ k \in DOMAIN cases' /\ IsPrefix(cases[k].timeline, cases'[k].timeline)
                             /\ \A j \in DOMAIN cases : (cases[k] # cases'[k] /\ cases[j] # cases'[j]) => j[1] = k[1]]_caseVars
\* A contained case is closed on a verified check, a verification rests on evidence, the risk that is
\* left is bounded, and the time line tells the status.
CaseInvariant == ClosedWithProof /\ ProofHasEvidence /\ ResidualBounded /\ TimelineTellsStatus
=============================================================================
