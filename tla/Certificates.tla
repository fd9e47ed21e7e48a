----------------------------- MODULE Certificates -----------------------------
(* The life of an agent's certificate: enrolment with a one-time token, renewal *)
(* over mTLS, revocation by an administrator and the server's cached list of    *)
(* revoked fingerprints.  Every call on the store and every file the agent      *)
(* writes is a step; calls may fail, answers may be lost, both sides restart.   *)
(* Keys are numbered: certificate n is over key n.                              *)
EXTENDS Integers, FiniteSetsExt

CONSTANTS MaxCertTime, CertTTL, MaxFaults, MaxCerts

ASSUME CertAssumption == CertTTL \in Nat \ {0} /\ MaxCertTime \in Nat /\ MaxFaults \in Nat /\ MaxCerts \in Nat

Store == INSTANCE DbStore

VARIABLES certdb,   \* the store
          signed,   \* certificate -> [dev, from, to]
          cache,    \* revocation.Cache
          serving,  \* the listeners are open
          calls,    \* requests the server is working on: key -> step
          agent,    \* files, certificate in use, window it knows
          certTime, faults,
          buys,     \* ghost: token -> certificates it bought
          cut       \* ghost: revoked while no request was under way, and not enrolled since
certVars == <<certdb, signed, cache, serving, calls, agent, certTime, faults, buys, cut>>

-----------------------------------------------------------------------------
(* transport, certrenew *)
ServerKey == "spki1"
\* blank pins are dropped; no pins: no pinning
SetServerPins(pins) == pins \ {""}
pinVerifier(pins, key) == SetServerPins(pins) = {} \/ key \in SetServerPins(pins)
\* the last third of the life, and any window that is empty or over
ShouldRenew(from, to, now) == to - from <= 0 \/ to - now <= 0 \/ 3 * (to - now) <= to - from
\* a certificate is only used with the key it is over
NewCertHolder(crt, key) == crt = key /\ crt # 0

(* revocation: without a client certificate there is nothing to check (enrolment) *)
IsRevoked(fp) == fp \in cache
VerifyConnection(fp) == fp = 0 \/ ~IsRevoked(fp)
VerifyPeerCertificate(fp) == fp = 0 \/ ~IsRevoked(fp)
\* buildTLS: the chain is verified, so is the period, whenever a certificate is given
Accepted(fp) == /\ fp # 0 => fp \in DOMAIN signed /\ certTime <= signed[fp].to
                /\ VerifyPeerCertificate(fp) /\ VerifyConnection(fp)
NewAgentServer(fp) == serving /\ fp # 0 /\ Accepted(fp)
NewEnrollServer(fp) == serving /\ Accepted(fp)

-----------------------------------------------------------------------------
Tokens == {"tok1", "tok2"}
Mac == "mac1"
NoFiles == [key |-> 0, crt |-> 0, did |-> ""]
CertInit ==
  /\ certdb = [Store!EmptyStore EXCEPT !.tok = [t \in Tokens |-> [by |-> "root", tenant |-> "acme", used |-> FALSE, expired |-> FALSE]]]
  /\ signed = <<>> /\ cache = {} /\ serving = FALSE /\ calls = <<>> /\ certTime = 0 /\ faults = 0
  /\ \E t \in Tokens, p \in {{"", "spki1"}, {""}, {"spki2"}} :
       agent = [pc |-> "down", token |-> t, pins |-> p, files |-> NoFiles, held |-> 0, from |-> 0, to |-> 0, key |-> 0, got |-> 0]
  /\ buys = [t \in Tokens |-> {}] /\ cut = FALSE

Drop(f, k) == [x \in (DOMAIN f) \ {k} |-> f[x]]
Fault == faults < MaxFaults /\ faults' = faults + 1
serverSide == <<certdb, signed, cache, serving, calls, buys, cut>>

(* The agent *)
NewKey == 1 + Max((DOMAIN signed) \cup (DOMAIN calls) \cup {0})
\* ensureEnrolled: with all files there the identity is loaded, the token is only used without
loadIdentity == agent.files.key # 0 /\ agent.files.crt # 0 /\ agent.files.did # ""
AgentStart ==
  /\ agent.pc = "down" /\ loadIdentity
  /\ agent' = IF NewCertHolder(agent.files.crt, agent.files.key)
              THEN [agent EXCEPT !.pc = "running", !.held = agent.files.crt, !.from = signed[agent.files.crt].from, !.to = signed[agent.files.crt].to]
              ELSE [agent EXCEPT !.pc = "broken"]
  /\ UNCHANGED <<serverSide, certTime, faults>>
ensureEnrolled ==
  /\ agent.pc = "down" /\ ~loadIdentity /\ NewEnrollServer(0) /\ pinVerifier(agent.pins, ServerKey)
  /\ NewKey <= MaxCerts /\ agent' = [agent EXCEPT !.pc = "enrolling", !.key = NewKey]
  /\ calls' = Store!Put(calls, NewKey, [op |-> "enroll", pc |-> "token", token |-> agent.token, dev |-> "", tenant |-> ""])
  /\ UNCHANGED <<certdb, signed, cache, serving, certTime, faults, buys, cut>>
\* runCertRenewal over the same connection settings, with the certificate in use
runCertRenewal ==
  /\ agent.pc = "running" /\ ShouldRenew(agent.from, agent.to, certTime)
  /\ NewEnrollServer(agent.held) /\ pinVerifier(agent.pins, ServerKey)
  /\ NewKey <= MaxCerts /\ agent' = [agent EXCEPT !.pc = "renewing", !.key = NewKey]
  /\ calls' = Store!Put(calls, NewKey, [op |-> "renew", pc |-> "check", token |-> "", dev |-> signed[agent.held].dev, tenant |-> ""])
  /\ UNCHANGED <<certdb, signed, cache, serving, certTime, faults, buys, cut>>
\* The files are written one by one; a renewal writes the certificate first.
WriteKey ==
  /\ \/ agent.pc = "key first" /\ agent' = [agent EXCEPT !.files.key = agent.key, !.pc = "crt"]
     \/ agent.pc = "key last" /\ agent' = [agent EXCEPT !.files.key = agent.key, !.pc = "running", !.from = certTime, !.to = signed[agent.got].to]
  /\ UNCHANGED <<serverSide, certTime, faults>>
WriteCrt ==
  /\ \/ agent.pc = "crt" /\ agent' = [agent EXCEPT !.files.crt = agent.got, !.pc = "did"]
     \/ agent.pc = "crt first" /\ agent' = [agent EXCEPT !.files.crt = agent.got, !.pc = "key last"]
  /\ UNCHANGED <<serverSide, certTime, faults>>
WriteId ==
  /\ agent.pc = "did" /\ agent' = [agent EXCEPT !.files.did = signed[agent.got].dev, !.pc = "down"]
  /\ UNCHANGED <<serverSide, certTime, faults>>
AgentCrash ==
  /\ agent.pc \notin {"down", "broken"} /\ Fault /\ agent' = [agent EXCEPT !.pc = "down", !.held = 0]
  /\ UNCHANGED <<serverSide, certTime>>

(* The service *)
Goto(k, pc) == calls' = [calls EXCEPT ![k].pc = pc]
Enroll(k) ==
  LET c == calls[k] r == Store!ConsumeEnrollmentToken(certdb, c.token)
      u == Store!UpsertEnrollingDevice(certdb, "", "dev1", Mac, c.tenant)
  IN /\ c.op = "enroll"
     /\ \/ c.pc = "token" /\ certdb' = r.s
           /\ calls' = [calls EXCEPT ![k] = IF r.r = "invalid token" THEN [@ EXCEPT !.pc = "refused"] ELSE [@ EXCEPT !.pc = "device", !.tenant = r.r]]
        \/ c.pc = "device" /\ certdb' = u.s /\ calls' = [calls EXCEPT ![k].pc = "sign", ![k].dev = u.r]
     /\ UNCHANGED <<signed, cache, serving, agent, certTime, faults, buys, cut>>
RenewUnchecked(k) ==
  /\ calls[k].op = "renew" /\ calls[k].pc = "check" /\ Goto(k, "sign")
  /\ UNCHANGED <<certdb, signed, cache, serving, agent, certTime, faults, buys, cut>>
Renew(k) ==
  /\ calls[k].op = "renew" /\ calls[k].pc = "check"
  /\ Goto(k, IF Store!DeviceHasActiveCert(certdb, calls[k].dev) THEN "sign" ELSE "refused")
  /\ UNCHANGED <<certdb, signed, cache, serving, agent, certTime, faults, buys, cut>>
\* Signed and saved; what is not saved is not answered.
SaveCertificate(k) ==
  /\ calls[k].pc = "sign" /\ certdb' = Store!SaveCertificate(certdb, k, calls[k].dev).s /\ Goto(k, "answer")
  /\ signed' = Store!Put(signed, k, [dev |-> calls[k].dev, from |-> certTime, to |-> certTime + CertTTL])
  /\ buys' = IF calls[k].op = "enroll" THEN [buys EXCEPT ![calls[k].token] = @ \cup {k}] ELSE buys
  /\ cut' = (cut /\ calls[k].op = "renew")
  /\ UNCHANGED <<cache, serving, agent, certTime, faults>>
StoreFails(k) ==
  /\ calls[k].pc \in {"token", "device", "check", "sign"} /\ Fault /\ Goto(k, "refused")
  /\ UNCHANGED <<certdb, signed, cache, serving, agent, certTime, buys, cut>>
\* The answer reaches the agent that still waits for it, or nobody.
Answer(k) ==
  LET waits == agent.pc \in {"enrolling", "renewing"} /\ agent.key = k
      ok == calls[k].pc = "answer"
  IN /\ calls[k].pc \in {"answer", "refused"} /\ calls' = Drop(calls, k)
     /\ agent' = CASE ~waits -> agent
                   [] waits /\ agent.pc = "enrolling" -> IF ok THEN [agent EXCEPT !.pc = "key first", !.got = k] ELSE [agent EXCEPT !.pc = "down"]
                   [] waits /\ agent.pc = "renewing" -> IF ok THEN [agent EXCEPT !.pc = "crt first", !.got = k, !.held = k] ELSE [agent EXCEPT !.pc = "running"]
     /\ UNCHANGED <<certdb, signed, cache, serving, certTime, faults, buys, cut>>
AnswerLost(k) ==
  /\ calls[k].pc = "answer" /\ Fault /\ calls' = Drop(calls, k)
  /\ agent' = IF agent.key = k /\ agent.pc \in {"enrolling", "renewing"} THEN [agent EXCEPT !.pc = IF @ = "enrolling" THEN "down" ELSE "running"] ELSE agent
  /\ UNCHANGED <<certdb, signed, cache, serving, certTime, buys, cut>>

(* Revocation and restarts *)
RevokeDevice ==
  /\ Store!CertsByDevice(certdb, "dev1") # {} /\ \E c \in Store!CertsByDevice(certdb, "dev1") : ~c[2]
  /\ certdb' = Store!RevokeDeviceCerts(certdb, "dev1").s
  /\ cut' = (cut \/ \A k \in DOMAIN calls : calls[k].pc \notin {"sign"})
  /\ UNCHANGED <<signed, cache, serving, calls, agent, certTime, faults, buys>>
Replace == cache' = Store!RevokedFingerprints(certdb)
\* Run: a round that cannot read the list keeps the old one
Run == serving /\ Replace /\ UNCHANGED <<certdb, signed, serving, calls, agent, certTime, faults, buys, cut>>
\* Prime: the list is read before the listeners open
Prime == ~serving /\ Replace /\ serving' = TRUE /\ UNCHANGED <<certdb, signed, calls, agent, certTime, faults, buys, cut>>
ServerCrash ==
  /\ serving /\ Fault /\ serving' = FALSE /\ cache' = {} /\ calls' = <<>>
  /\ agent' = IF agent.pc = "enrolling" THEN [agent EXCEPT !.pc = "down"] ELSE IF agent.pc = "renewing" THEN [agent EXCEPT !.pc = "running"] ELSE agent
  /\ UNCHANGED <<certdb, signed, certTime, buys, cut>>
CertTick == certTime < MaxCertTime /\ certTime' = certTime + 1 /\ UNCHANGED <<serverSide, agent, faults>>

CertNext ==
  \/ AgentStart \/ ensureEnrolled \/ runCertRenewal \/ WriteKey \/ WriteCrt \/ WriteId \/ AgentCrash
  \/ \E k \in DOMAIN calls : Enroll(k) \/ Renew(k) \/ SaveCertificate(k) \/ StoreFails(k) \/ Answer(k) \/ AnswerLost(k)
  \/ RevokeDevice \/ Run \/ Prime \/ ServerCrash \/ CertTick
CertSpec == CertInit /\ [][CertNext]_certVars

-----------------------------------------------------------------------------
\* A token buys one certificate, however often it is presented.
TokenBuysOne == \A t \in Tokens : Cardinality(buys[t]) <= 1
\* A device whose certificates were revoked while no request on it was past its check gets no
\* active one again but by a token.
OnlyTokenReadmits == cut => ~Store!DeviceHasActiveCert(certdb, "dev1")
\* What an agent uses is stored under its device: a revocation reaches it, and it is used with its own key.
RevocationReaches ==
  /\ agent.held # 0 => agent.held \in DOMAIN certdb.cert /\ certdb.cert[agent.held].dev = signed[agent.held].dev
  /\ agent.pc = "running" => agent.held # 0
\* A server that accepts connections knows every revocation from before it started.
ListKnownAtStart == [][(~serving /\ serving') => \A fp \in Store!RevokedFingerprints(certdb) : ~NewAgentServer(fp)']_certVars
\* The files stop fitting only in a crash between the two writes of a renewal; then the agent cannot start again.
FilesFit == agent.pc = "broken" => faults > 0 /\ agent.files.crt > agent.files.key
\* A token buys one certificate, only a token readmits, a revocation reaches the certificate in use, and
\* the agent's files fit unless a crash cut a renewal.
CertInvariant == TokenBuysOne /\ OnlyTokenReadmits /\ RevocationReaches /\ FilesFit
=============================================================================
