------------------------------ MODULE TrustChain ------------------------------
(* Package cmdenvelope: the chain of trust statements and a device that keeps  *)
(* its last accepted one, receives statements and commands in any order, early *)
(* or late or never, and verifies commands with the keys of that statement.    *)
EXTENDS Envelope

CONSTANT MaxClock     \* the last instant of the device's clock; 0 is a clock never set
ASSUME TrustAssumption == MaxClock \in Nat

VARIABLES trust, \* the statement the device holds and the floors it has seen
          clock, \* its clock
          pins,  \* the keys pinned into it
          ran    \* the last command it accepted, if any
trustVars == <<trust, clock, pins, ran>>

(********************************* statements *********************************)

MaxStatementKeys == 4
MaxVerifyMode == 2
NoStatement == [Epoch |-> 0]

Key(id, role, before, after) == [KeyID |-> id, Role |-> role, NotBefore |-> before, NotAfter |-> after]
inWindow(k, at) == at >= k.NotBefore /\ (k.NotAfter = 0 \/ at <= k.NotAfter)
rootsOf(keys) == {k \in Elements(keys) : k.Role = "root"}
nonRootsOf(keys) == {k \in Elements(keys) : k.Role \in {"command", "approver"}}
sameKeySet(a, b) == {k.KeyID : k \in a} = {k.KeyID : k \in b}

StatementValid(st) ==
  /\ st.Epoch # 0 /\ st.IssuedAt > 0 /\ st.MinVerifyMode <= MaxVerifyMode
  /\ Len(st.Keys) \in 1..MaxStatementKeys
  /\ \A i, j \in DOMAIN st.Keys : st.Keys[i].KeyID = st.Keys[j].KeyID => i = j
  /\ \A k \in Elements(st.Keys) : /\ ~IsWeakPublicKey(k.KeyID) /\ k.Role \in {"root", "command", "approver"}
                                  /\ k.Role # "root" => k.NotAfter # 0
                                  /\ k.NotAfter # 0 => k.NotAfter > k.NotBefore
  /\ st.RootThreshold \in 1..Cardinality(rootsOf(st.Keys))
  /\ Len(st.Signatures) <= MaxDSSESignatures

\* Keys are written in the order of their ids, so the order they were given in is not signed.
KeyOrder == <<"a", "b", "c", "d", "k1", "k2", "v", "x">>
RoleOrder == <<"root", "command", "approver">>
cellsOf(k) == <<CHOOSE i \in DOMAIN KeyOrder : KeyOrder[i] = k.KeyID, CHOOSE i \in DOMAIN RoleOrder : RoleOrder[i] = k.Role, k.NotBefore, k.NotAfter>>
encodeStatement(st) ==
  LET keys == SortSeq([i \in DOMAIN st.Keys |-> cellsOf(st.Keys[i])], LAMBDA x, y : x[1] < y[1])
  IN  <<st.Epoch, st.RootThreshold, st.IssuedAt, st.MinVerifyMode, st.MinAgentBuild, Len(keys)>> \o FlattenSeq(keys)
\* The empty sequence stands for the error.
CanonicalStatement(st) == IF StatementValid(st) THEN encodeStatement(st) ELSE <<>>

\* The reader refuses keys out of order or twice, a cell too many or too few, and whatever Validate refuses.
ParseStatement(b) ==
  LET keyAt(i) == Key(KeyOrder[b[4 * i + 3]], RoleOrder[b[4 * i + 4]], b[4 * i + 5], b[4 * i + 6])
      st == [Epoch |-> b[1], RootThreshold |-> b[2], IssuedAt |-> b[3], MinVerifyMode |-> b[4], MinAgentBuild |-> b[5],
             Keys |-> [i \in 1..b[6] |-> keyAt(i)], Signatures |-> <<>>]
      sorted == \A i \in 2..b[6] : b[4 * i - 1] < b[4 * i + 3]
  IN  IF Len(b) < 6 THEN NoStatement
      ELSE IF b[6] > MaxStatementKeys \/ Len(b) # 6 + 4 * b[6] THEN NoStatement
      ELSE IF sorted /\ StatementValid(st) THEN st ELSE NoStatement

Signed(st) == PAE(PayloadTypeTrust, encodeStatement(st))
SignStatement(priv, st) ==
  LET s == SignDSSE(priv, PayloadTypeTrust, CanonicalStatement(st))
      at == {i \in DOMAIN st.Signatures : st.Signatures[i].KeyID = priv}
  IN  [st EXCEPT !.Signatures = IF at = {} THEN Append(@, s) ELSE [@ EXCEPT ![CHOOSE i \in at : TRUE] = s]]

DSSEOf(st) == [PayloadType |-> PayloadTypeTrust, Payload |-> CanonicalStatement(st), Signatures |-> st.Signatures]

\* Mutant: every valid signature counts, a signer's second one too.
validSignersTwice(msg, sigs, signers, at) ==
  Cardinality({i \in DOMAIN sigs : \E k \in signers : /\ inWindow(k, at) /\ sigs[i].KeyID = k.KeyID
                                                      /\ ed25519Verify(k.KeyID, msg, sigs[i].Sig)})
\* Distinct signers whose window is open at the given instant.
validSigners(msg, sigs, signers, at) ==
  Cardinality({k \in signers : inWindow(k, at) /\ \E s \in Elements(sigs) : s.KeyID = k.KeyID /\ ed25519Verify(k.KeyID, msg, s.Sig)})

quorum(st, roots, need, at, commands) ==
  LET got == validSigners(Signed(st), st.Signatures, roots, at)
  IN  IF got >= need THEN "ok"
      ELSE IF got = 0 /\ validSigners(Signed(st), st.Signatures, commands, at) > 0 THEN "signer_not_root" ELSE "threshold_not_met"

pinSigned(st, pinned) ==
  \E s \in Elements(st.Signatures) : s.KeyID \in pinned /\ ~IsWeakPublicKey(s.KeyID) /\ ed25519Verify(s.KeyID, Signed(st), s.Sig)

ApplyStatement(local, st, pinned, now) ==
  LET epoch == IF local = NoStatement THEN 0 ELSE local.Epoch
      self == quorum(st, rootsOf(st.Keys), st.RootThreshold, st.IssuedAt, nonRootsOf(st.Keys))
      old == quorum(st, rootsOf(local.Keys), local.RootThreshold, st.IssuedAt, nonRootsOf(local.Keys))
  IN  IF ~StatementValid(st) \/ (local # NoStatement /\ ~StatementValid(local)) THEN "malformed_statement"
      ELSE IF now # 0 /\ st.IssuedAt > now + ClockSkew THEN "not_yet_valid"
      ELSE IF st.Epoch <= epoch THEN "stale_epoch"
      ELSE IF pinSigned(st, pinned) THEN "ok"
      ELSE IF now = 0 THEN "clock_unsynced"
      ELSE IF local = NoStatement THEN IF pinned # {} THEN "pin_required" ELSE self
      ELSE IF st.Epoch # local.Epoch + 1 THEN "epoch_skipped"
      ELSE IF st.IssuedAt < local.IssuedAt THEN "backdated_statement"
      ELSE IF old # "ok" THEN old
      ELSE IF sameKeySet(rootsOf(local.Keys), rootsOf(st.Keys)) THEN "ok" ELSE self

\* Stops at the first statement that is refused and keeps what was accepted before it.
ApplyChain(local, sts, pinned, now) ==
  FoldLeft(LAMBDA r, st : LET v == ApplyStatement(r.state, st, pinned, now)
                          IN  IF r.err # "ok" THEN r
                              ELSE IF v = "ok" THEN [r EXCEPT !.state = st, !.applied = @ + 1] ELSE [r EXCEPT !.err = v],
           [state |-> local, applied |-> 0, err |-> "ok"], sts)

ParseStatementDSSE(d) ==
  IF d.PayloadType # PayloadTypeTrust THEN <<IF d.PayloadType = "trust.v3" THEN "unsupported_version" ELSE "bad_payload_type", NoStatement>>
  ELSE LET st == ParseStatement(d.Payload)
       IN  IF ~validateShape(d) \/ st = NoStatement THEN <<"malformed_statement", NoStatement>>
           ELSE <<"ok", [st EXCEPT !.Signatures = d.Signatures]>>
ApplyStatementDSSE(local, d, pinned, now) ==
  LET p == ParseStatementDSSE(d) IN IF p[1] # "ok" THEN p[1] ELSE ApplyStatement(local, p[2], pinned, now)
\* Entries of another payload type are passed over.
ApplyChainDSSE(local, entries, pinned, now) ==
  FoldLeft(LAMBDA r, d : LET v == ApplyStatementDSSE(r.state, d, pinned, now)
                         IN  IF r.err # "ok" \/ d.PayloadType # PayloadTypeTrust THEN r
                             ELSE IF v = "ok" THEN [r EXCEPT !.state = ParseStatementDSSE(d)[2], !.applied = @ + 1] ELSE [r EXCEPT !.err = v],
           [state |-> local, applied |-> 0, err |-> "ok"], entries)

VerifyChain(sts, pinned, now) ==
  LET r == ApplyChain(NoStatement, sts, pinned, now)
  IN  IF sts = <<>> \/ \E i \in DOMAIN sts : sts[i].Epoch # i THEN "chain_incomplete" ELSE r.err

ChainKeyValid(current, keyID, now) ==
  LET ks == {k \in Elements(current.Keys) : k.KeyID = keyID}
      k == CHOOSE k \in ks : TRUE
  IN  IF ks = {} \/ k.Role # "command" THEN "key_not_in_chain"
      ELSE IF now = 0 THEN "clock_unsynced"
      ELSE IF now < k.NotBefore THEN "not_yet_valid"
      ELSE IF k.NotAfter = 0 \/ now > k.NotAfter THEN "key_expired" ELSE "ok"
ActiveKeyValid(chain, pinned, pub, now) ==
  LET v == VerifyChain(chain, pinned, now) IN IF v # "ok" THEN v ELSE ChainKeyValid(Last(chain), pub, now)

\* Floors only rise.
Raise(f, st) == [MinVerifyMode |-> IF st.MinVerifyMode > f.MinVerifyMode THEN st.MinVerifyMode ELSE f.MinVerifyMode,
                 MinAgentBuild |-> IF st.MinAgentBuild > f.MinAgentBuild THEN st.MinAgentBuild ELSE f.MinAgentBuild]

(************************* what the operators published ***********************)

\* Three epochs: the second retires root a and command key k1, the third adds an
\* approver v; the pin p has signed the first and the third.  Root c has leaked.
Unsigned(e, keys, t, at, mode) ==
  [Epoch |-> e, Keys |-> keys, RootThreshold |-> t, IssuedAt |-> at, MinVerifyMode |-> mode, MinAgentBuild |-> e, Signatures |-> <<>>]
SignAll(st, privs) == FoldLeft(LAMBDA s, p : SignStatement(p, s), st, privs)
Roots1 == <<Key("a", "root", 0, 2), Key("b", "root", 0, 0), Key("c", "root", 0, 0)>>
Roots2 == <<Key("b", "root", 0, 0), Key("c", "root", 0, 0), Key("d", "root", 0, 0)>>
Honest == << SignAll(Unsigned(1, Append(Roots1, Key("k1", "command", 0, 3)), 2, 1, 0), <<"p", "a", "b">>),
             SignAll(Unsigned(2, Append(Roots2, Key("k2", "command", 0, 3)), 2, 2, 2), <<"a", "b", "d">>),
             SignAll(Unsigned(3, <<Key("b", "root", 0, 0), Key("d", "root", 0, 0), Key("k2", "command", 0, 3), Key("v", "approver", 0, 3)>>,
                              2, 3, 1), <<"p", "b", "d">>) >>
\* Statements the leaked root and an unknown key x can sign.
Leaked == UNION {LET st == Unsigned(e, ks, t, at, 0)
                 IN  {[st EXCEPT !.Signatures = [i \in DOMAIN q |-> SignDSSE(q[i], PayloadTypeTrust, encodeStatement(st))]] :
                        q \in {<<"c">>, <<"x">>, <<"c", "c">>, <<"c", "x">>, <<"k1", "k2">>}} :
                 e \in 1..4, t \in 1..2, at \in {1, 3},
                 ks \in {Append(Roots1, Key("x", "command", 0, 3)), Append(Roots2, Key("x", "command", 0, 3)),
                         <<Key("c", "root", 0, 0), Key("x", "root", 0, 0)>>}}

\* Commands for device 1 and device 2: what each key signed.
Order(id, ps) == [CommandID |-> id, TenantID |-> <<1>>, Type |-> <<1>>, RequestedBy |-> <<1>>, ApprovedBy |-> <<>>, CorrelationID |-> <<>>,
                  Sequence |-> 1, Nonce |-> id, IssuedAt |-> 2, ExpiresAt |-> 3, Params |-> ps]
ParamSets == {<<>>, <<StringParam(<<1>>, <<2>>)>>}
Orders == UNION {{Order(<<1>>, ps), Order(<<2>>, ps)} : ps \in ParamSets}
Issued == {SignV2(k, d, o) : k \in {"k1", "k2"}, d \in {<<1>>, <<2>>}, o \in Orders}
            \cup {CoSign("v", SignV2("k2", <<1>>, o)) : o \in Orders}
\* What may be put in front of the device: any body with any signature ever made, by
\* root keys and for other payload types too.
Presented ==
  Issued \cup {[d EXCEPT !.Signatures = <<SignDSSE(k, t, d.Payload)>>] : d \in Issued, k \in {"c", "x"}, t \in {PayloadTypeCommand}}
         \cup {[d EXCEPT !.Signatures = e.Signatures] : d, e \in Issued} \cup {CoSign("a", d) : d \in Issued}
         \cup {[DSSEOf(Honest[i]) EXCEPT !.PayloadType = t] : i \in 1..3, t \in {PayloadTypeCommand, "cmd.v3"}}

(********************************* the device *********************************)

TrustInit ==
  /\ pins \in {{"p"}, {}}
  /\ trust = [local |-> IF pins = {} THEN Honest[1] ELSE NoStatement, floors |-> [MinVerifyMode |-> 0, MinAgentBuild |-> 0]]
  /\ clock = 0 /\ ran = {}

Accept(st) == trust' = [local |-> st, floors |-> Raise(trust.floors, st)]

ReceiveStatement(st) ==
  /\ ApplyStatement(trust.local, st, pins, clock) = "ok"
  /\ Accept(st) /\ UNCHANGED <<clock, pins, ran>>

\* A stretch of the published chain, with an entry of a later format in between.
Chain(i, j) == SubSeq([n \in 1..3 |-> DSSEOf(Honest[n])], i, j)
ReceiveChain(i, j) ==
  LET r == ApplyChainDSSE(trust.local, <<[DSSEOf(Honest[i]) EXCEPT !.PayloadType = "trust.v3"]>> \o Chain(i, j), pins, clock)
  IN  /\ r.applied > 0
      /\ Accept(r.state) /\ UNCHANGED <<clock, pins, ran>>

ReceiveCommand(d, params, min) ==
  /\ trust.local # NoStatement
  /\ VerifyV2(d, params, [DeviceID |-> <<1>>, ExpectTenant |-> <<1>>, Keys |-> trust.local.Keys, Now |-> clock, MinSignatures |-> min]) = "accepted"
  /\ ran' = {[d |-> d, params |-> params, min |-> min, epoch |-> trust.local.Epoch]}
  /\ UNCHANGED <<trust, clock, pins>>

\* The clock is set for the first time or moves on.
Tick == clock < MaxClock /\ clock' \in (clock + 1)..MaxClock /\ UNCHANGED <<trust, pins, ran>>

TrustNext ==
  \/ \E st \in Elements(Honest) \cup Leaked : ReceiveStatement(st)
  \/ \E i \in 1..3 : \E j \in i..3 : ReceiveChain(i, j)
  \/ \E d \in Presented, ps \in ParamSets, min \in {0, 2} : ReceiveCommand(d, ps, min)
  \/ Tick

(********************************* properties *********************************)

\* A device only ever trusts a statement the operators published, although one root key
\* leaked and the statement may come in any order, twice, cut short or signed twice by one key.
OnlyPublishedTrust == trust.local # NoStatement => \E st \in Elements(Honest) : encodeStatement(st) = encodeStatement(trust.local)

\* No refused or accepted statement leaves the device in a corner: whatever it holds, once its clock
\* is set the published chain, unknown entries included, brings it to the newest epoch.
NeverStuck ==
  LET from == IF trust.local = NoStatement THEN 1 ELSE trust.local.Epoch + 1
      all == <<[DSSEOf(Honest[1]) EXCEPT !.PayloadType = "trust.v3"]>> \o Chain(from, 3)
      last == ApplyChainDSSE(trust.local, all, pins, clock).state
  IN  clock = MaxClock => last # NoStatement /\ encodeStatement(last) = encodeStatement(Honest[3])

\* The check over a whole chain passes exactly the keys a device that walked the chain would hold as
\* command keys in their window.
WholeChainAgrees ==
  \A n \in 1..3, k \in {"k1", "k2", "c", "v"} :
    LET r == ApplyChainDSSE(NoStatement, Chain(1, n), pins, clock)
    IN  ActiveKeyValid(SubSeq(Honest, 1, n), pins, k, clock) = "ok" <=>
          /\ clock # 0 /\ r.err = "ok"
          /\ \E x \in Elements(r.state.Keys) : x.KeyID = k /\ x.Role = "command" /\ x.NotAfter # 0 /\ inWindow(x, clock)

\* A command that ran was signed for this very device, with these very parameters, by a command
\* key of the epoch the device was in; when two signatures are asked for, an approver signed too.
RanWasOrdered ==
  \A x \in ran : \E o \in Orders, Q \in SUBSET nonRootsOf(Honest[x.epoch].Keys) :
    /\ x.d.Payload = CanonicalV2(<<1>>, o) /\ x.params = o.Params
    /\ \A k \in Q : SignDSSE(k.KeyID, PayloadTypeCommand, x.d.Payload) \in Elements(x.d.Signatures)
    /\ Cardinality(Q) >= x.min /\ \E k \in Q : k.Role = "command"
=============================================================================
