----------------------------- MODULE AgentChecks -----------------------------
(* What the agent decides without keeping state: policy rules in time, process *)
(* trees, check digits and content rules, compliance and posture levels, paths *)
(* it may collect, interpreters it may run, and what its start-up switches on.  *)
(* A day has DayLen minutes; a path is a sequence of names; a file or a label   *)
(* is what the tests on it can tell apart.                                      *)
EXTENDS Integers, SequencesExt, FiniteSetsExt

DayLen == 4
Lower(s) == CASE s = "BAD" -> "bad" [] s = "KUT" -> "kut" [] OTHER -> s

(* policy: convert.go, engine.go; a time that does not parse is -1 *)
ruleTypeFromProto(t) == IF t \in {"APP_TIME_BLOCK", "APP_BLOCK_ALWAYS", "NETWORK_RULE"} THEN t ELSE "unspecified"
FromProto(rules) ==
  [i \in DOMAIN rules |-> [type |-> ruleTypeFromProto(rules[i].type), target |-> rules[i].target,
     start |-> IF rules[i].start = -1 THEN 0 ELSE rules[i].start, end |-> IF rules[i].end = -1 THEN 0 ELSE rules[i].end,
     days |-> {d \in rules[i].days : d <= 6}]]
baseName(p) == IF p = <<>> THEN "" ELSE Lower(Last(p))
LowerPath(p) == [i \in DOMAIN p |-> Lower(p[i])]
matchesTarget(proc, target) == target # <<>> /\ (LowerPath(proc) = LowerPath(target) \/ baseName(proc) = baseName(target))
\* now is <<weekday, minute>>; over midnight the window belongs to the day it begins on
inWindow(now, start, end, days) ==
  LET wd == now[1] t == now[2] prev == (wd + 6) % 7
  IN IF start = end THEN FALSE
     ELSE IF start < end THEN wd \in days /\ start <= t /\ t < end
     ELSE (wd \in days /\ t >= start) \/ (prev \in days /\ t < end)
FirstOf(hits) == IF hits = {} THEN 0 ELSE Min(hits)
\* The decision is the first rule that blocks, 0 for none.
EvaluateProcess(rules, proc, now) ==
  FirstOf({i \in DOMAIN rules : /\ matchesTarget(proc, rules[i].target)
                                /\ \/ rules[i].type = "APP_BLOCK_ALWAYS"
                                   \/ rules[i].type = "APP_TIME_BLOCK" /\ inWindow(now, rules[i].start, rules[i].end, rules[i].days)})
EvaluateAlways(rules, proc) == FirstOf({i \in DOMAIN rules : rules[i].type = "APP_BLOCK_ALWAYS" /\ matchesTarget(proc, rules[i].target)})

(* enforce: a process table maps a pid to [ppid, name, ...] *)
maxChainDepth == 3
parentChain(procs, pid) ==
  LET up[i \in 0..maxChainDepth] ==
        IF i = 0 THEN [chain |-> <<>>, cur |-> procs[pid].ppid, seen |-> {pid}]
        ELSE LET s == up[i - 1]
             IN IF s.cur = 0 \/ s.cur \in s.seen \/ s.cur \notin DOMAIN procs THEN s
                ELSE [chain |-> Append(s.chain, s.cur), cur |-> procs[s.cur].ppid, seen |-> s.seen \cup {s.cur}]
  IN IF pid \notin DOMAIN procs THEN <<>> ELSE up[maxChainDepth].chain
descendants(procs, pid) ==
  LET children(S) == {c \in DOMAIN procs : procs[c].ppid # 0 /\ procs[c].ppid \in S}
      level[n \in 0..Cardinality(DOMAIN procs)] == IF n = 0 THEN {pid} ELSE level[n - 1] \cup children(level[n - 1])
  IN level[Cardinality(DOMAIN procs)] \ {pid}

(* dlp: digits are numbers; a letter of an IBAN is its number 10..35 *)
luhnValid(d) ==
  LET val(i) == IF (Len(d) - i) % 2 = 0 THEN d[i] ELSE IF 2 * d[i] > 9 THEN 2 * d[i] - 9 ELSE 2 * d[i]
  IN FoldLeft(LAMBDA a, i : a + val(i), 0, [i \in DOMAIN d |-> i]) % 10 = 0
tcknValid(d) ==
  /\ Len(d) = 11 /\ d[1] # 0
  /\ ((d[1] + d[3] + d[5] + d[7] + d[9]) * 7 - (d[2] + d[4] + d[6] + d[8])) % 10 = d[10]
  /\ FoldLeft(+, 0, SubSeq(d, 1, 10)) % 10 = d[11]
mod97(s) == FoldLeft(LAMBDA rem, c : IF c > 9 THEN (rem * 100 + c) % 97 ELSE (rem * 10 + c) % 97, 0, s)
ibanValidTR(s) == Len(s) = 26 /\ s[1] = 29 /\ s[2] = 27 /\ mod97(SubSeq(s, 5, 26) \o SubSeq(s, 1, 4)) = 1
\* the kinds found in a text, given its candidate words
dlpScan(words) ==
  LET found(k) == \E w \in Range(words) :
        CASE k = "credit_card" -> w.word = "digits" /\ Len(w.d) \in 13..19 /\ luhnValid(w.d)
          [] k = "tckn" -> w.word = "digits" /\ Len(w.d) = 11 /\ tcknValid(w.d)
          [] k = "iban" -> w.word = "iban" /\ ibanValidTR(w.d)
          [] k = "email" -> w.word = "email"
  IN SelectSeq(<<"credit_card", "tckn", "iban", "email">>, found)

(* dnsmon: a label is a sequence of "v"owels, "c"onsonants and "d"igits; entropy in tenths of a bit *)
maxConsonantRun(l) ==
  FoldLeft(LAMBDA s, c : IF c = "c" THEN [cur |-> s.cur + 1, best |-> IF s.cur + 1 > s.best THEN s.cur + 1 ELSE s.best] ELSE [s EXCEPT !.cur = 0],
           [cur |-> 0, best |-> 0], l).best
secondLevelLabel(parts) == IF Len(parts) < 2 THEN Last(parts) ELSE parts[Len(parts) - 1]
ScoreDomain(parts, entropy) ==
  LET l == secondLevelLabel(parts) n == Len(l) of(c) == Len(SelectSeq(l, LAMBDA x : x = c))
  IN n > 0 /\ \/ n >= 10 /\ entropy >= 35 /\ 10 * of("v") <= 3 * n
              \/ n >= 8 /\ 10 * of("d") >= 3 * n /\ entropy >= 30
              \/ n >= 8 /\ maxConsonantRun(l) >= 5

(* contentscan: a condition is "", "any", "all" or a sequence of characters, digits as numbers, any other character above 9 *)
atoiSafe(s) == IF \E c \in Range(s) : c \notin 0..9 THEN 0 ELSE FoldLeft(LAMBDA n, c : n * 10 + c, 0, s)
threshold(r) ==
  LET n == Len(r.pats) k == atoiSafe(r.num)
  IN IF n = 0 THEN 0
     ELSE IF r.cond \in {"", "any"} THEN 1
     ELSE IF r.cond = "all" THEN n
     ELSE IF k <= 0 THEN 0 ELSE IF k > n THEN n ELSE k
\* data is the set of patterns it contains; an empty pattern is never searched
contentScan(rules, data) ==
  LET hits(r) == Cardinality({i \in DOMAIN r.pats : r.pats[i] # "" /\ r.pats[i] \in data})
  IN {[rule |-> r.name, sev |-> IF r.sev = "" THEN "MEDIUM" ELSE r.sev, hits |-> hits(r)] : r \in {x \in Range(rules) : threshold(x) # 0 /\ hits(x) >= threshold(x)}}
Refused == <<>>
ParseRules(rf) ==
  LET pats(r) == SelectSeq(r.pats, LAMBDA p : p # "")
  IN IF \E r \in Range(rf) : r.name = "" \/ "junk hex" \in Range(r.pats) \/ pats(r) = <<>> THEN Refused
     ELSE [i \in DOMAIN rf |-> [rf[i] EXCEPT !.pats = pats(rf[i])]]
\* a file is [rules, sigBy]: who signed its bytes, "" for no signature
LoadSigned(f, pub) == IF f.sigBy = "" \/ pub = "" \/ f.sigBy # pub THEN Refused ELSE ParseRules(f.rules)
LoadModelSigned(f, pub) == f.sigBy # "" /\ pub # "" /\ f.sigBy = pub

(* compliance *)
statusFor(signal) == CASE signal \in {"on", "current"} -> "pass" [] signal \in {"off", "outdated"} -> "fail" [] OTHER -> "unknown"
Severity == [firewall |-> "HIGH", disk |-> "HIGH", patch |-> "HIGH", lock |-> "MEDIUM", banner |-> "LOW"]
extendedCatalog(signals) == {c \in DOMAIN signals : c \notin {"disk", "firewall"}}
complianceEvaluate(signals) ==
  LET of(s) == {c \in {"disk", "firewall"} \cup extendedCatalog(signals) : statusFor(signals[c]) = s}
  IN [passed |-> Cardinality(of("pass")), failed |-> of("fail"), unknown |-> Cardinality(of("unknown"))]
ScorePct(rep) == LET denom == rep.passed + Cardinality(rep.failed) IN IF denom = 0 THEN 100 ELSE (rep.passed * 100) \div denom
HasFailure(rep) == \E c \in rep.failed : Severity[c] \in {"HIGH", "MEDIUM"}
reportCompliance(signals) == LET rep == complianceEvaluate(signals) IN IF HasFailure(rep) THEN <<"SECURITY", "MEDIUM", rep.failed>> ELSE <<"SYSTEM", "INFO", {}>>
reportResource(s) == IF ~s.ok THEN <<>> ELSE IF s.mem >= 90 \/ s.disk >= 90 THEN <<"SECURITY", "MEDIUM">> ELSE <<"SYSTEM", "INFO">>
\* the list is cut to maxPackages, the total is of all
invNormalize(names, maxPackages) == LET uniq == Range(names) \ {""} IN [shown |-> IF Cardinality(uniq) > maxPackages THEN maxPackages ELSE Cardinality(uniq), total |-> Cardinality(uniq)]
reportInventory(names, maxPackages) == LET inv == invNormalize(names, maxPackages) IN IF inv.total = 0 THEN <<>> ELSE <<"SYSTEM", inv>>

(* tamperprotect, hardening *)
Assess(d, kernel) == IF kernel THEN "kernel" ELSE IF d # {} THEN "userland" ELSE "none"
Summarize(p) ==
  IF p.noNewPrivs /\ p.seccomp \in {"filter", "strict"} THEN "strong"
  ELSE IF p.noNewPrivs \/ p.seccomp = "filter" THEN "medium" ELSE "weak"

(* collection: an absolute path as written, with "." and ".." *)
Clean(p) == FoldLeft(LAMBDA out, c : CASE c \in {".", ""} -> out [] c = ".." -> (IF out = <<>> THEN out ELSE Front(out)) [] OTHER -> Append(out, c), <<>>, p)
protectedCollectPath(path, dataDir, windows) ==
  LET fold(p) == IF windows THEN LowerPath(Clean(p)) ELSE Clean(p)
  IN dataDir # <<>> /\ IsPrefix(fold(dataDir), fold(path))
\* what an upload reads, "" for none; a file is found by walking the tree, size as the agent stats it
collectFile(path, dataDir, windows, size, maxCollectBytes) ==
  /\ path # <<>> /\ ~protectedCollectPath(path, dataDir, windows) /\ size # -1 /\ size <= maxCollectBytes

(* scripts *)
interpreterSpecs(os) ==
  IF os = "windows" THEN [powershell |-> <<"System32/powershell">>, cmd |-> <<"ComSpec", "System32/cmd">>, bash |-> <<"System32/bash", "Git/bash">>, node |-> <<"nodejs/node">>]
  ELSE [sh |-> <<"/bin/sh", "/usr/bin/sh">>, bash |-> <<"/bin/bash", "/usr/bin/bash", "/usr/local/bin/bash">>,
        node |-> <<"/usr/bin/node", "/usr/local/bin/node">>, powershell |-> <<"/usr/bin/pwsh", "/usr/local/bin/pwsh">>]
resolveInterpreter(os, name, present) ==
  IF name \notin DOMAIN interpreterSpecs(os) THEN ""
  ELSE LET found == SelectSeq(interpreterSpecs(os)[name], LAMBDA c : c \in present) IN IF found = <<>> THEN "" ELSE found[1]
\* the writer is told everything was written; a chunk is its length
cappedWrite(len, p, max) == IF max - len <= 0 THEN len ELSE IF p > max - len THEN max ELSE len + p
minimalEnv(os, env) == {"PATH"} \cup (IF os = "windows" THEN env \cap {"SystemRoot", "ComSpec", "TEMP"} ELSE {})
\* runs: what the process does: "ok", "exit", "hang", "nostart"
scriptRun(exe, chunks, runs, maxOutput) ==
  LET out == FoldLeft(LAMBDA len, p : cappedWrite(len, p, maxOutput), 0, chunks)
  IN IF exe = "" THEN [res |-> "error", code |-> 0, out |-> 0]
     ELSE CASE runs = "hang" -> [res |-> "timed out", code |-> -1, out |-> out]
            [] runs = "exit" -> [res |-> "done", code |-> 1, out |-> out]
            [] runs = "nostart" -> [res |-> "error", code |-> 0, out |-> 0]
            [] runs = "ok" -> [res |-> "done", code |-> 0, out |-> out]
scriptVerify(pub, s, sig) == sig.by = pub /\ sig.of = s
\* the verdict of a RUN_SCRIPT command: nothing, an event, or a run
runSignedScript(pub, s, sig) == IF pub = "" THEN "skipped" ELSE IF ~scriptVerify(pub, s, sig) THEN "refused" ELSE "run"

(* start-up: what the environment switches on *)
anomalyScorer(env) == IF env.anomalyOff THEN "off" ELSE IF env.model.sigBy # "absent" /\ LoadModelSigned(env.model, env.anomalyPub) THEN "model" ELSE "statistics"
contentRules(env) == IF env.yaraPaths = {} \/ env.yaraPub = "" THEN Refused ELSE LoadSigned(env.yaraFile, env.yaraPub)
\* an update verifier needs a well-formed key, and holds every well-formed one of the list
updateKeys(env) == env.updateKeys \ {"malformed"}
isolatorFor(env) == IF env.safeMode THEN "noop" ELSE "system"
selectWipeFn(env) == IF env.wipeArmed THEN "wipe" ELSE "ErrWipeNotArmed"
doDeviceAction(env, fn) == IF env.safeMode THEN "told only" ELSE fn

(* netconn: a line of the table is [proto, state, rip, rport, lport, pid] *)
isLoopbackOrEmpty(ip) == ip \in {"", "0.0.0.0", "*", "::", "127.0.0.1", "::1"}
parseNetstat(lines) == SelectSeq(lines, LAMBDA f : f.proto = "TCP" /\ f.state = "ESTABLISHED" /\ ~isLoopbackOrEmpty(f.rip))
parseProcNetTcp(lines) == LET kept == SelectSeq(lines, LAMBDA f : f.state = "ESTABLISHED" /\ ~isLoopbackOrEmpty(f.rip)) IN [i \in DOMAIN kept |-> [kept[i] EXCEPT !.pid = 0]]
ConnKey(c) == <<c.rip, c.rport, c.pid>>
=============================================================================
