----------------------------- MODULE AgentSensors -----------------------------
(* The agent's sensors at work: the monitor that lists processes and enforces   *)
(* the policy on server time, and the trackers that tell what is new since the  *)
(* last scan.  Processes come and go between any two steps of a heartbeat.      *)
(* A behaviour exercises the monitor, one tracker, or one decision.             *)
EXTENDS AgentChecks

CONSTANTS MaxSensorTime, MaxSpawns, MaxScans, MaxSweeps   \* sweeps: scans of the process monitor

ASSUME SensorAssumption == MaxSensorTime \in Nat /\ MaxSpawns \in Nat /\ MaxScans \in Nat /\ MaxSweeps \in Nat

VARIABLES sense,                    \* "enforce", a tracker, or a decision
          mach,                     \* the machine: processes with the number of their start, time
          mon,                      \* the monitor and its clock
          trk,                      \* the tracker
          sent,                     \* what went into the event buffer
          probe,                    \* the decision's input
          scans                     \* ghost: what each scan saw
sensorVars == <<sense, mach, mon, trk, sent, probe, scans>>

-----------------------------------------------------------------------------
(* The monitor.  PIDs are reused; a pid's processes differ in birth. *)
PIDs == 1..4
Self == 2
Rules == {<<[type |-> "APP_BLOCK_ALWAYS", target |-> <<"BAD">>, start |-> -1, end |-> -1, days |-> {}]>>,
          <<[type |-> "APP_TIME_BLOCK", target |-> <<"bin", "bad">>, start |-> 3, end |-> 1, days |-> {6}]>>}
Proc(ppid, name, birth) == [ppid |-> ppid, path |-> <<"opt", name>>, birth |-> birth]
MonitorIdle == [pc |-> "idle", synced |-> FALSE, anchorSrv |-> 0, anchorLocal |-> 0, snap |-> <<>>, baselined |-> FALSE, seen |-> {}, flagged |-> {}, observed |-> 0, sleptBefore |-> 0]
MachInit ==
  /\ mach \in {[procs |-> (1 :> Proc(0, "init", 1)) @@ (Self :> Proc(up, "agent", 2)) @@ (3 :> Proc(1, n, 3)),
                births |-> 3, spawns |-> 0, start |-> 26, time |-> 0, asleep |-> 0, rules |-> FromProto(r), audit |-> a, telemetry |-> ~a] :
                up \in {1, 3}, n \in {"bad", "shell"}, r \in Rules, a \in BOOLEAN}
  /\ mon = MonitorIdle

\* Weekday and minute of an instant of the week.
WeekDay(t) == <<(t \div DayLen) % 7, t % DayLen>>
TrueTime == mach.start + mach.time + mach.asleep
(* agentclock: the local clock is monotonic and stands still while the machine sleeps *)
SyncOnce(m, serverTime) == IF m.synced THEN m ELSE [m EXCEPT !.synced = TRUE, !.anchorSrv = serverTime, !.anchorLocal = mach.time]
Sync(m, serverTime) == [m EXCEPT !.synced = TRUE, !.anchorSrv = serverTime, !.anchorLocal = mach.time]
ClockNow(m) == LET elapsed == mach.time - m.anchorLocal IN m.anchorSrv + (IF elapsed < 0 THEN 0 ELSE elapsed)

Spawn == \E p \in PIDs \ DOMAIN mach.procs, up \in DOMAIN mach.procs, n \in {"bad", "shell"} :
  /\ mach.spawns < MaxSpawns
  /\ mach' = [mach EXCEPT !.procs = (p :> Proc(up, n, mach.births + 1)) @@ @, !.births = @ + 1, !.spawns = @ + 1]
  /\ UNCHANGED <<mon, sent>>
\* An orphan keeps the pid of its parent, or is given to process 1.
Exit == \E p \in (DOMAIN mach.procs) \ {1, Self}, adopt \in BOOLEAN :
  /\ mach' = [mach EXCEPT !.procs = [q \in (DOMAIN @) \ {p} |-> IF adopt /\ @[q].ppid = p THEN [@[q] EXCEPT !.ppid = 1] ELSE @[q]]]
  /\ UNCHANGED <<mon, sent>>
AgentTick == /\ mach.time < MaxSensorTime /\ mach' = [mach EXCEPT !.time = @ + 1] /\ UNCHANGED <<mon, sent>>
Sleep == /\ mach.asleep = 0 /\ mach' = [mach EXCEPT !.asleep = 3] /\ UNCHANGED <<mon, sent>>

\* beat: without an answer the round is over, nothing is enforced or scanned
BeatAnswered == /\ mon.pc = "idle" /\ mon' = [Sync(mon, TrueTime) EXCEPT !.pc = "commands", !.sleptBefore = mach.asleep] /\ UNCHANGED <<mach, sent>>
\* emitProcessTelemetry on what ListProcesses returned
emitProcessTelemetry(m, procs) ==
  IF ~mach.telemetry THEN [m |-> m, new |-> {}]
  ELSE [m |-> [m EXCEPT !.seen = DOMAIN procs, !.baselined = TRUE],
        new |-> IF m.baselined THEN {p \in DOMAIN procs : p \notin m.seen /\ p # Self} ELSE {}]
\* anomaly: nothing is odd during the warm-up; which observation is odd after it is left open
warmup == 3
ObserveProcesses(m, procs, odd) == {p \in odd \ m.flagged : p \in DOMAIN procs /\ m.observed + Cardinality({q \in (DOMAIN procs) \ {Self} : q <= p}) > warmup}
ListProcesses(odd) ==
  /\ mon.pc = "commands"
  /\ LET e == emitProcessTelemetry(mon, mach.procs) a == ObserveProcesses(mon, mach.procs, odd)
     IN /\ mon' = [e.m EXCEPT !.pc = "enforce", !.snap = mach.procs, !.flagged = @ \cup a, !.observed = Min({@ + Cardinality((DOMAIN mach.procs) \ {Self}), warmup})]
        /\ sent' = sent \cup {<<"started", Len(scans), mach.procs[p].birth, parentChain(mach.procs, p)>> : p \in e.new}
                        \cup {<<"odd", Len(scans), p>> : p \in a}
        /\ scans' = Append(scans, mach.procs)
  /\ UNCHANGED mach
ListFails == mon.pc = "commands" /\ mon' = [mon EXCEPT !.pc = "idle"] /\ UNCHANGED <<mach, sent>>
Target(procs, p) == procs[p].path
Decision(m, procs, p) == IF m.synced THEN EvaluateProcess(mach.rules, Target(procs, p), WeekDay(ClockNow(m))) ELSE EvaluateAlways(mach.rules, Target(procs, p))
Blocked(m, procs) == {p \in (DOMAIN procs) \ {Self} : Decision(m, procs, p) # 0}
\* Kill of a pid that is gone, or that the system refuses, fails.
Kill(s, p) == IF p \in DOMAIN s.procs /\ p \notin s.refuse THEN [s EXCEPT !.procs = [q \in (DOMAIN @) \ {p} |-> @[q]]] ELSE s
Enforce(s, p) ==
  LET kids == descendants(mon.snap, p)
      t == FoldSet(LAMBDA k, x : Kill(x, k), s, kids)
      gone == p \in DOMAIN t.procs /\ p \notin t.refuse
  IN IF mach.audit THEN [s EXCEPT !.told = @ \cup {<<"audit", p>>}]
     ELSE [Kill(t, p) EXCEPT !.told = @ \cup {<<IF gone THEN "killed" ELSE "not killed", p, kids>>}]
Tick(refuse) ==
  /\ mon.pc = "enforce"
  /\ LET end == FoldLeft(Enforce, [procs |-> mach.procs, refuse |-> refuse, told |-> {}], SetToSortSeq(Blocked(mon, mon.snap), <))
     IN /\ mach' = [mach EXCEPT !.procs = end.procs]
        /\ sent' = sent \cup {<<e[1], Len(scans), mon.snap[e[2]].birth, Decision(mon, mon.snap, e[2])>> : e \in end.told}
        /\ mon' = [mon EXCEPT !.pc = IF Self \in DOMAIN end.procs THEN "idle" ELSE "dead"]
  /\ UNCHANGED scans
MonitorNext ==
  \/ (Spawn \/ Exit \/ AgentTick \/ Sleep \/ BeatAnswered \/ ListFails) /\ UNCHANGED scans
  \/ Len(scans) < MaxSweeps /\ \E odd \in {{}, {3}} : ListProcesses(odd)
  \/ \E refuse \in {{}, {3}} : Tick(refuse)

-----------------------------------------------------------------------------
(* The trackers.  A scan sees each item as 0 (absent, or unreadable), 1 or 2. *)
Items == {"a", "b"}
Worlds == [Items -> 0..2]
Live(w) == {i \in Items : w[i] # 0}
Trackers == {"conn", "usb", "persistence", "dns", "net", "fim", "dlp", "content"}
TrkInit == trk \in {[baselined |-> FALSE, seen |-> <<>>, policy |-> p, safe |-> z, linux |-> l, blocked |-> {}] :
  p \in IF sense = "usb" THEN {"audit", "block"} ELSE {"audit"}, z \in IF sense = "usb" THEN BOOLEAN ELSE {FALSE}, l \in IF sense = "conn" THEN BOOLEAN ELSE {FALSE}}
Saw(t, seen) == [t EXCEPT !.baselined = TRUE, !.seen = seen]
\* Three trackers replace what they saw by what they see, and start with a baseline.
NewSince(t, live) == IF t.baselined THEN live \ t.seen ELSE {}
\* netconn: an item seen as 2 is two connections of one process to the same end
Conns(linux, w) ==
            LET line(i, l) == [proto |-> "TCP", state |-> "ESTABLISHED", rip |-> i, rport |-> 443, lport |-> l, pid |-> 7]
                table == SetToSeq({line(i, l) : i \in Live(w) \cup {"127.0.0.1"}, l \in {1, 2}} \ {line(i, 2) : i \in {x \in Items : w[x] = 1}})
            IN IF linux THEN parseProcNetTcp(table) ELSE parseNetstat(table)
reportConns(t, w) ==
  LET keys == {ConnKey(c) : c \in Range(Conns(t.linux, w))}
  IN [t |-> Saw(t, keys), told |-> {<<c.rip, c.lport>> : c \in {x \in Range(Conns(t.linux, w)) : ConnKey(x) \in NewSince(t, keys)}}]
reportDrives(t, w, fails) ==
  LET new == NewSince(t, Live(w)) cut == IF t.policy = "block" /\ ~t.safe /\ ~fails THEN new ELSE {}
  IN [t |-> [Saw(t, Live(w)) EXCEPT !.blocked = @ \cup cut], told |-> {<<d, IF d \in cut THEN 1 ELSE 0>> : d \in new}]
\* persistence: the key holds the value, so a changed entry is a new one
persistenceDiff(t, w) == LET live == {<<i, w[i]>> : i \in Live(w)} IN [t |-> Saw(t, live), told |-> NewSince(t, live)]
\* dns, discovery: what was seen once is never new again; discovery has no baseline
NameOf(i) == IF i = "a" THEN <<<<"c", "c", "c", "c", "c", "v", "v", "c">>, <<"c", "v">>>> ELSE <<<<"v", "c">>, <<"c", "v">>>>
dnsReport(t, w) ==
  [t |-> Saw(t, (IF t.baselined THEN t.seen ELSE {}) \cup Live(w)),
   told |-> {<<i, IF ScoreDomain(NameOf(i), 20) THEN 2 ELSE 1>> : i \in NewSince(t, Live(w))}]
NewTracker(auth) == auth \ {""}
discoveryObserve(t, w) ==
  LET known == IF t.baselined THEN t.seen ELSE {}
      macs == {i \in Items : w[i] = 1} \* a neighbour without a MAC is passed over
  IN [t |-> Saw(t, known \cup macs), told |-> {<<i, IF i \in NewTracker({"a", ""}) THEN 0 ELSE 1>> : i \in macs \ known}]
\* fim: paths with their hashes
fimScan(w) == [i \in Live(w) |-> w[i]]
fimKeepsBaseline(t, w) ==
  LET now == fimScan(w)
  IN [t |-> IF t.baselined THEN t ELSE Saw(t, now), told |-> IF t.baselined THEN {<<p, "modified", now[p]>> : p \in {x \in (DOMAIN now) \cap (DOMAIN t.seen) : now[x] # t.seen[x]}} ELSE {}]
fimDiff(t, w) ==
  LET now == fimScan(w) old == t.seen
      ch == {<<p, "added", now[p]>> : p \in (DOMAIN now) \ (DOMAIN old)}
            \cup {<<p, "modified", now[p]>> : p \in {x \in (DOMAIN now) \cap (DOMAIN old) : now[x] # old[x]}}
            \cup {<<p, "deleted", 0>> : p \in (DOMAIN old) \ (DOMAIN now)}
  IN [t |-> Saw(t, now), told |-> IF t.baselined THEN ch ELSE {}]
\* dlp, content: a file seen as 2 holds what is looked for; told once, whatever becomes of the file
dlpScanPass(t, w) ==
  LET seen == IF t.baselined THEN t.seen ELSE {}
      text(v) == IF v = 2 THEN <<[word |-> "email", d |-> <<>>]>> ELSE <<[word |-> "digits", d |-> <<1, 2>>]>>
      found == {i \in Live(w) \ seen : dlpScan(text(w[i])) # <<>>}
  IN [t |-> Saw(t, seen \cup found), told |-> {<<i, 1>> : i \in found}]
ScanRules == <<[name |-> "r1", cond |-> "any", num |-> <<>>, sev |-> "", pats |-> <<"p1", "p2">>], [name |-> "r2", cond |-> "all", num |-> <<>>, sev |-> "HIGH", pats |-> <<"p1", "p2">>]>>
contentPass(t, w) ==
  LET seen == IF t.baselined THEN t.seen ELSE {}
      data(v) == IF v = 2 THEN {"p1", "p2"} ELSE {"p1"}
      found == UNION {{<<i, m.rule>> : m \in contentScan(ScanRules, data(w[i]))} : i \in Live(w)}
  IN [t |-> Saw(t, seen \cup found), told |-> found \ seen]
Report(w, fails) ==
  CASE sense = "conn" -> reportConns(trk, w) [] sense = "usb" -> reportDrives(trk, w, fails)
    [] sense = "persistence" -> persistenceDiff(trk, w) [] sense = "dns" -> dnsReport(trk, w)
    [] sense = "net" -> discoveryObserve(trk, w) [] sense = "fim" -> fimDiff(trk, w)
    [] sense = "dlp" -> dlpScanPass(trk, w) [] sense = "content" -> contentPass(trk, w)
TrackerNext == \E w \in Worlds, fails \in BOOLEAN :
  /\ Len(scans) < MaxScans
  /\ LET r == Report(w, fails) IN trk' = r.t /\ sent' = sent \cup {<<Len(scans) + 1, e>> : e \in r.told}
  /\ scans' = Append(scans, w)

-----------------------------------------------------------------------------
(* Decisions *)
Decisions == {"setup", "script", "window", "tree", "number", "path", "rules", "output", "levels"}
Digits(n, S) == [1..n -> S]
Tckn(d) == LET ten == CHOOSE c \in 0..9 : \E e \in 0..9 : tcknValid(d \o <<c, e>>) IN d \o <<ten, CHOOSE e \in 0..9 : tcknValid(d \o <<ten, e>>)>>
Iban(n) == LET of(a, b) == <<29, 27, a, b>> \o [i \in 1..22 |-> (i * n) % 10] c == CHOOSE x \in (0..9) \X (0..9) : ibanValidTR(of(x[1], x[2])) IN of(c[1], c[2])
Signals == [{"disk", "firewall", "lock"} -> {"on", "off", "unknown"}]
Probes ==
  CASE sense = "window" -> {<<<<d, t>>, s, e, days>> : d \in 0..6, t \in 0..(DayLen - 1), s \in 0..3, e \in 0..3, days \in {{}, {0}, {6}, {0, 6}, {1, 2}}}
    [] sense = "setup" -> [anomalyOff : BOOLEAN, model : [sigBy : {"absent", "", "k", "other"}], anomalyPub : {"", "k"}, yaraPaths : {{}, {"p"}}, yaraPub : {"", "k"},
                           yaraFile : {[rules |-> <<ScanRules[1]>>, sigBy |-> by] : by \in {"", "k", "other"}}, updateKeys : {{"malformed"}, {"k", "malformed"}}, safeMode : BOOLEAN, wipeArmed : BOOLEAN]
    [] sense = "script" -> {"windows", "linux"} \X {"sh", "bash", "cmd", "python"} \X {"", "k"} \X [by : {"k", "other"}, of : {"sh", "bash", "cmd", "python"}]
    [] sense = "tree" -> [1..3 -> 0..4]
    [] sense = "number" -> {<<"luhn", d>> : d \in Digits(4, {0, 1, 4, 5, 9})} \cup {<<"tckn", Tckn(<<7>> \o d)>> : d \in Digits(8, {0, 7})} \cup {<<"iban", Iban(n)>> : n \in 1..5}
    [] sense = "path" -> UNION {Digits(n, {"var", "kut", "KUT", "x", "..", "."}) : n \in 1..3}
    [] sense = "rules" -> {[name |-> n, cond |-> c, num |-> k, sev |-> "", pats |-> p] :
                             n \in {"", "r"}, c \in {"", "any", "all", "n"}, k \in {<<>>, <<1>>, <<2>>, <<1, 0>>, <<11>>}, p \in {<<>>, <<"">>, <<"p1">>, <<"p1", "", "p2">>, <<"junk hex">>}}
    [] sense = "output" -> Digits(3, 0..4)
    [] sense = "levels" -> Signals
    [] OTHER -> {<<>>}

SensorInit ==
  /\ sense \in {"enforce"} \cup Trackers \cup Decisions
  /\ sent = {} /\ scans = <<>> /\ probe \in Probes
  /\ IF sense = "enforce" THEN MachInit ELSE mach = <<>> /\ mon = MonitorIdle
  /\ IF sense \in Trackers THEN TrkInit ELSE trk = <<>>
SensorNext ==
  /\ UNCHANGED <<sense, probe>>
  /\ \/ sense = "enforce" /\ MonitorNext /\ UNCHANGED trk
     \/ sense \in Trackers /\ TrackerNext /\ UNCHANGED <<mach, mon>>
SensorSpec == SensorInit /\ [][SensorNext]_sensorVars

-----------------------------------------------------------------------------
Enforcing == sense = "enforce"
\* The processes below p: the least set closed under "child of".
Below(procs, p) == {q \in DOMAIN procs : \A S \in SUBSET DOMAIN procs :
                     (\A c \in DOMAIN procs : procs[c].ppid \in S \cup {p} /\ procs[c].ppid # 0 => c \in S) => q \in S} \ {p}
BirthsIn(procs) == {procs[p].birth : p \in DOMAIN procs}
StartedIn(n) == {e[3] : e \in {x \in sent : x[1] = "started" /\ x[2] = n}}
\* Every process that appears after the first listing is told once, with its pid's ancestors, unless
\* its pid belonged to another process in the listing before.
StartsToldOnce == Enforcing /\ mach.telemetry =>
  \A k \in 1..Len(scans) : \A p \in (DOMAIN scans[k]) \ {Self} :
    LET b == scans[k][p].birth
        first == k > 1 /\ \A j \in 1..(k - 1) : b \notin BirthsIn(scans[j])
        reused == k > 1 /\ p \in DOMAIN scans[k - 1]
    IN b \in StartedIn(k - 1) <=> first /\ ~reused
\* A pid is called odd once, and not while the model is warming up.
OddOnce == Enforcing => \A e \in sent : e[1] = "odd" =>
  /\ \A f \in sent : f[1] = "odd" /\ f[3] = e[3] => f = e
  /\ FoldFunction(+, 0, [j \in 1..(e[2] + 1) |-> Cardinality((DOMAIN scans[j]) \ {Self})]) > warmup

\* What enforcement kills is a blocked process or one below it; audit mode kills nothing; what it
\* leaves of the blocked ones it tells; a time rule acts in its window of server time, unless the
\* machine slept since the answer it took the time from.
EnforcementBounds ==
  LET slept == mon.sleptBefore # mach.asleep
      inside(p) == EvaluateProcess(mach.rules, mon.snap[p].path, WeekDay(TrueTime)) # 0
      now == {p \in (DOMAIN mon.snap) \ {Self} : inside(p)}
      killed == (DOMAIN mach.procs) \ (DOMAIN mach'.procs)
      left(p) == p \in DOMAIN mach'.procs /\ mach'.procs[p].birth = mon.snap[p].birth
  IN Enforcing /\ mon.pc = "enforce" /\ mon'.pc # "enforce" /\ ~slept =>
       /\ killed \subseteq now \cup UNION {Below(mon.snap, p) : p \in now}
       /\ mach.audit => killed = {}
       /\ ~mach.audit => \A p \in now : left(p) => \E e \in sent' : e[1] = "not killed" /\ e[2] = Len(scans) /\ e[3] = mon.snap[p].birth
EnforcementHolds == [][EnforcementBounds]_sensorVars
\* The agent's own process is never killed by its enforcement.
AgentNeverKilled == mon.pc # "dead"

ToldAt(k) == {e[2] : e \in {x \in sent : x[1] = k}}
\* Each appearance of a connection, a drive or an autostart entry after the first scan is told once.
AppearancesTold == sense \in {"conn", "usb", "persistence"} =>
  LET present(k) == IF sense = "persistence" THEN {<<i, scans[k][i]>> : i \in Live(scans[k])} ELSE Live(scans[k])
      told(k) == IF sense = "persistence" THEN ToldAt(k) ELSE {e[1] : e \in ToldAt(k)}
  IN \A k \in 1..Len(scans) : told(k) = IF k = 1 THEN {} ELSE present(k) \ present(k - 1)
\* The changes told, applied to the first scan, give the last one.
FimReplays == sense = "fim" /\ scans # <<>> =>
  LET apply(files, e) == IF e[2] = "deleted" THEN [files EXCEPT ![e[1]] = 0] ELSE [files EXCEPT ![e[1]] = e[3]]
  IN FoldLeft(LAMBDA files, k : FoldSet(LAMBDA e, f : apply(f, e), files, ToldAt(k)), scans[1], [k \in 1..Len(scans) |-> k]) = scans[Len(scans)]
\* A name, a neighbour or a find is told once, in the first scan that sees it (for names, after the baseline).
ToldOnceEver == sense \in {"dns", "net", "dlp", "content"} =>
  LET seen(k) == CASE sense = "dns" -> Live(scans[k]) [] sense = "net" -> {i \in Items : scans[k][i] = 1}
                   [] sense = "dlp" -> {i \in Items : scans[k][i] = 2}
                   [] sense = "content" -> {<<i, "r1">> : i \in Live(scans[k])} \cup {<<i, "r2">> : i \in {x \in Items : scans[k][x] = 2}}
      told(k) == IF sense = "content" THEN ToldAt(k) ELSE {e[1] : e \in ToldAt(k)}
  IN \A k \in 1..Len(scans) : told(k) = IF k = 1 /\ sense = "dns" THEN {} ELSE seen(k) \ UNION {seen(j) : j \in 1..(k - 1)}
\* A drive is cut off only under the blocking policy, never in safe mode, and then its event says so.
DrivesSafe == sense = "usb" => \A d \in Items : d \in trk.blocked => trk.policy = "block" /\ ~trk.safe /\ \E k \in 1..Len(scans) : <<k, <<d, 1>>>> \in sent

\* A window is the minutes of the week it covers, those after midnight with the day it began on.
WindowIsWeek == sense = "window" =>
  LET now == probe[1][1] * DayLen + probe[1][2] week == 7 * DayLen
      length == (probe[3] - probe[2] + DayLen) % DayLen
  IN inWindow(probe[1], probe[2], probe[3], probe[4]) <=> \E d \in probe[4], i \in 0..(length - 1) : (d * DayLen + probe[2] + i) % week = now
\* The descendants are the processes below; the chain holds ancestors only, each once, nearest first, within its depth.
TreesRight == sense = "tree" =>
  LET procs == [p \in DOMAIN probe |-> [ppid |-> probe[p]]]
  IN \A p \in DOMAIN procs :
       LET chain == parentChain(procs, p)
       IN /\ descendants(procs, p) = Below(procs, p)
          /\ IsInjective(chain) /\ p \notin Range(chain) /\ Len(chain) <= maxChainDepth
          /\ \A i \in DOMAIN chain : p \in Below(procs, chain[i])
\* No single wrong digit passes a check, in a card, an identity or an account number.
WrongDigitCaught == sense = "number" =>
  LET valid(d) == CASE probe[1] = "luhn" -> luhnValid(d) [] probe[1] = "tckn" -> tcknValid(d) [] probe[1] = "iban" -> ibanValidTR(d)
      d == probe[2]
  IN /\ probe[1] # "luhn" => valid(d)
     /\ valid(d) => \A i \in DOMAIN d, c \in 0..9 : c # d[i] => ~valid([d EXCEPT ![i] = c])
\* Whether a file may be collected does not depend on how its path is spelled.
SpellingIsNothing == sense = "path" =>
  \A dir \in {<<"var", "kut">>, <<"var", ".", "kut">>}, win \in BOOLEAN, k \in 0..Len(probe), ins \in {<<".">>, <<"x", "..">>, <<"">>} :
    LET ok(p) == collectFile(p, dir, win, 1, 3) respelled == SubSeq(probe, 1, k) \o ins \o SubSeq(probe, k + 1, Len(probe))
    IN /\ ok(probe) <=> ok(respelled)
       /\ win => (ok(probe) <=> ok(LowerPath(probe)))
       /\ Range(probe) \cap {".", ".."} = {} => (ok(probe) <=> ~IsPrefix(<<"var", "kut">>, IF win THEN LowerPath(probe) ELSE probe))
\* Rules are loaded whole, signed by the agent's key, or not at all; more content never loses a match, and a match is earned.
RulesFailClosed == sense = "rules" =>
  \A by \in {"", "k", "other"} :
    LET rs == LoadSigned([rules |-> <<probe>>, sigBy |-> by], "k")
    IN /\ rs # Refused => by = "k" /\ probe.name # "" /\ "junk hex" \notin Range(probe.pats)
       /\ \A d1, d2 \in SUBSET {"p1", "p2"} : d1 \subseteq d2 => \A m \in contentScan(rs, d1) : m.hits > 0 /\ \E x \in contentScan(rs, d2) : x.rule = m.rule
\* A script's output is what it wrote, up to the limit, however it is cut into chunks.
OutputCapped == sense = "output" =>
  \A max \in 1..6 : LET total == FoldLeft(+, 0, probe) r == scriptRun("/bin/sh", probe, "ok", max) IN r.out = IF total > max THEN max ELSE total
\* A signal that gets better never makes the report worse, and what is unknown is no failure.
BetterIsBetter == sense = "levels" =>
  \A c \in DOMAIN probe : LET better == [probe EXCEPT ![c] = "on"] rep == complianceEvaluate(probe) up == complianceEvaluate(better)
    IN /\ ScorePct(up) >= ScorePct(rep) \/ probe[c] = "unknown"
       /\ reportCompliance(better)[1] = "SECURITY" => reportCompliance(probe)[1] = "SECURITY"
       /\ reportCompliance([probe EXCEPT ![c] = "unknown"])[1] = "SECURITY" => reportCompliance(probe)[1] = "SECURITY"
\* What start-up puts in force is signed by the key it was given, or is not in force; in safe mode no
\* action reaches the system, and a wipe needs arming besides.
SetupFailsClosed == sense = "setup" =>
  /\ anomalyScorer(probe) = "model" => probe.model.sigBy = probe.anomalyPub /\ probe.anomalyPub # ""
  /\ contentRules(probe) # Refused => probe.yaraFile.sigBy = probe.yaraPub
  /\ "malformed" \notin updateKeys(probe)
  /\ doDeviceAction(probe, selectWipeFn(probe)) = "wipe" => ~probe.safeMode /\ probe.wipeArmed
  /\ probe.safeMode => isolatorFor(probe) = "noop" /\ doDeviceAction(probe, "lock") = "told only"
\* A script runs when the agent has a key and the signature is over that script, by an interpreter found
\* at one of its fixed places, with none of the agent's own settings in its environment.
ScriptsTrusted == sense = "script" =>
  LET os == probe[1] name == probe[2] verdict == runSignedScript(probe[3], name, probe[4])
      places == {"/usr/bin/sh", "/bin/bash", "/usr/bin/bash", "System32/cmd", "ComSpec"}
  IN /\ verdict = "run" => probe[3] # "" /\ probe[4] = [by |-> probe[3], of |-> name]
     /\ \A present \in SUBSET places :
          LET exe == resolveInterpreter(os, name, present)
          IN /\ exe # "" => exe \in present /\ (\A more \in SUBSET places : present \subseteq more => resolveInterpreter(os, name, more) # "")
             /\ name = "python" => scriptRun(exe, <<1>>, "ok", 4).res = "error"
     /\ minimalEnv(os, {"PATH", "TEMP", "KUT_ENROLL_TOKEN"}) \subseteq {"PATH", "TEMP"}
\* No defence, switched on, lowers the level that is reported; a list of programs is cut but counted whole.
LevelsMonotone == sense = "levels" =>
  LET on == {c \in DOMAIN probe : probe[c] = "on"} order == <<"none", "userland", "kernel">> hard == <<"weak", "medium", "strong">>
      rank(q, x) == CHOOSE i \in 1..3 : q[i] = x
      pose(S) == [noNewPrivs |-> "disk" \in S, seccomp |-> IF "lock" \in S THEN "filter" ELSE "off"]
  IN /\ \A S \in SUBSET on, k \in BOOLEAN : rank(order, Assess(S, FALSE)) <= rank(order, Assess(on, k)) /\ rank(hard, Summarize(pose(S))) <= rank(hard, Summarize(pose(on)))
     /\ \A mem, disk \in {89, 90} : reportResource([ok |-> TRUE, mem |-> mem, disk |-> disk])[1] = "SECURITY" <=> 90 \in {mem, disk}
     /\ reportInventory(<<"a", "b", "", "a">>, 1) = <<"SYSTEM", [shown |-> 1, total |-> 2]>>
SensorInvariant ==
  /\ SetupFailsClosed /\ ScriptsTrusted /\ LevelsMonotone
  /\ StartsToldOnce /\ OddOnce /\ AppearancesTold /\ FimReplays /\ ToldOnceEver /\ DrivesSafe
  /\ WindowIsWeek /\ TreesRight /\ WrongDigitCaught /\ SpellingIsNothing /\ RulesFailClosed /\ OutputCapped /\ BetterIsBetter
=============================================================================
