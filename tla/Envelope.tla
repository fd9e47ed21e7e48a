------------------------------- MODULE Envelope -------------------------------
(* Package cmdenvelope: the version 2 command envelope, its length-prefixed    *)
(* wire form, the DSSE wrapper and VerifyV2.  A string is a sequence of small  *)
(* numbers; an integer field takes one cell of the wire whatever its width.  A *)
(* signature is the record of what was signed and by whom: ed25519 accepts it  *)
(* for that key and that text only.  The package's limits are scaled down.     *)
EXTENDS Naturals, Sequences, FiniteSets, SequencesExt

(********************************* characters *********************************)

NUL == 0            \* the zero byte
Blank == 9          \* a blank: valid text, not a printable character
Upper == 7          \* an upper-case letter; its lower-case form is 1
Elements(s) == {s[i] : i \in DOMAIN s}

printableASCII(s) == Elements(s) \cap {NUL, Blank} = {}
validText(s) == NUL \notin Elements(s)

(********************************** limits ************************************)

MaxDeviceIDLen == 2
MaxTenantIDLen == 1
MaxPrincipalLen == 1
MaxParamKeys == 2
MaxParamKeyLen == 1
MaxParamStringBytes == 2
MaxParamsTotalBytes == 3
MaxParamListItems == 2
MaxLifetime == 3
ClockSkew == 1
MaxDSSESignatures == 3

ValidDeviceID(s) == Len(s) \in 1..MaxDeviceIDLen /\ printableASCII(s) /\ Upper \notin Elements(s)
(*********************************** reader ***********************************)

reader(b) == [b |-> b, err |-> FALSE, v |-> <<>>]
take(r, n) ==
  IF r.err \/ n > Len(r.b)
    THEN [r EXCEPT !.err = TRUE, !.v = <<>>]
    ELSE [r EXCEPT !.v = SubSeq(r.b, 1, n), !.b = SubSeq(r.b, n + 1, Len(r.b))]
u32(r) == LET t == take(r, 1) IN [t EXCEPT !.v = IF t.err THEN 0 ELSE t.v[1]]
u64(r) == u32(r)
byte1(r) == u32(r)
lp(r, max) ==
  LET n == u32(r)
  IN  IF n.err \/ n.v > max THEN [n EXCEPT !.err = TRUE, !.v = <<>>] ELSE take(n, n.v)
\* mutant: whatever follows the last parameter is accepted
doneLax(r) == ~r.err
done(r) == ~r.err /\ r.b = <<>>

appendLP(b, s) == b \o <<Len(s)>> \o s
appendU32(b, n) == Append(b, n)

(********************************* parameters *********************************)

StringParam(key, value) == [Key |-> key, IsList |-> FALSE, Value |-> value, List |-> <<>>]
ListParam(key, items) == [Key |-> key, IsList |-> TRUE, Value |-> <<>>, List |-> items]

validParamKey(k) == Len(k) \in 1..MaxParamKeyLen /\ Elements(k) \subseteq {1, 2}
checkParamString(s) == Len(s) <= MaxParamStringBytes /\ validText(s)

Strings(p) == IF p.IsList THEN p.List ELSE <<p.Value>>
paramLen(p) == Len(p.Key) + Len(FlattenSeq(Strings(p)))
ValidateParams(ps) ==
  /\ Len(ps) <= MaxParamKeys
  /\ \A p \in Elements(ps) : /\ validParamKey(p.Key)
                             /\ IF p.IsList THEN p.Value = <<>> /\ Len(p.List) <= MaxParamListItems ELSE p.List = <<>>
                             /\ \A s \in Elements(Strings(p)) : checkParamString(s)
  /\ \A i, j \in DOMAIN ps : ps[i].Key = ps[j].Key => i = j
  /\ FoldLeft(LAMBDA n, p : n + paramLen(p), 0, ps) <= MaxParamsTotalBytes

DomainParamsV2 == <<3>>
paramTagString == 1
paramTagList == 2
keyBefore(a, b) == a[1] < b[1]    \* keys have one character here

EncodeParams(ps) ==
  LET one(b, p) == LET k == appendLP(b, p.Key)
                   IN  IF p.IsList THEN FoldLeft(appendLP, appendU32(appendU32(k, paramTagList), Len(p.List)), p.List)
                                   ELSE appendLP(appendU32(k, paramTagString), p.Value)
  IN  FoldLeft(one, appendU32(appendLP(<<>>, DomainParamsV2), Len(ps)),
               SortSeq(ps, LAMBDA a, b : keyBefore(a.Key, b.Key)))

\* A digest differs whenever the encodings do.
ParamsDigest(ps) == EncodeParams(ps)

ParseParams(b) ==
  LET tag == lp(reader(b), Len(DomainParamsV2))
      n == u32(tag)
      item(l, j) == LET x == lp(l.r, MaxParamStringBytes) IN [r |-> x, out |-> Append(l.out, x.v)]
      list(c) == IF c.err \/ c.v > MaxParamListItems THEN [r |-> [c EXCEPT !.err = TRUE], out |-> <<>>]
                 ELSE FoldLeft(item, [r |-> c, out |-> <<>>], [j \in 1..c.v |-> j])
      one(s, i) ==
        LET key == lp(s.r, MaxParamKeyLen)
            t == byte1(key)
            str == lp(t, MaxParamStringBytes)
            l == list(u32(t))
            late == ~key.err /\ s.out # <<>> /\ (key.v = <<>> \/ ~keyBefore(s.out[Len(s.out)].Key, key.v))
        IN  IF key.err \/ late \/ key.v = <<>> \/ t.v \notin {paramTagString, paramTagList} THEN [s EXCEPT !.r.err = TRUE]
            ELSE IF t.v = paramTagString THEN [r |-> str, out |-> Append(s.out, StringParam(key.v, str.v))]
                                         ELSE [r |-> l.r, out |-> Append(s.out, ListParam(key.v, l.out))]
      end == FoldLeft(one, [r |-> n, out |-> <<>>], [i \in 1..n.v |-> i])
  IN  IF tag.v = DomainParamsV2 /\ ~n.err /\ n.v <= MaxParamKeys /\ done(end.r) /\ ValidateParams(end.out)
        THEN [ok |-> TRUE, out |-> end.out] ELSE [ok |-> FALSE, out |-> <<>>]

(*********************************** fields ***********************************)

KnownType(type) == type \in {<<1>>, <<2>>}    \* two of the names of the type registry

FieldsValid(f) ==
  /\ Len(f.CommandID) = 1 /\ ValidDeviceID(f.DeviceID)
  /\ Len(f.TenantID) <= MaxTenantIDLen /\ printableASCII(f.TenantID) /\ KnownType(f.Type)
  /\ Len(f.RequestedBy) \in 1..MaxPrincipalLen /\ printableASCII(f.RequestedBy)
  /\ Len(f.ApprovedBy) <= MaxPrincipalLen /\ printableASCII(f.ApprovedBy)
  /\ f.ApprovedBy # <<>> => f.ApprovedBy # f.RequestedBy
  /\ Len(f.CorrelationID) <= MaxPrincipalLen /\ printableASCII(f.CorrelationID)
  /\ Len(f.Nonce) = 1
  /\ f.IssuedAt > 0 /\ f.ExpiresAt > f.IssuedAt /\ f.ExpiresAt - f.IssuedAt <= MaxLifetime

DomainEnvelopeV2 == <<2>>
DigestLen == 40
\* The fields in wire order; 0 marks an integer, any other number the limit of a string.
Layout == << <<"CommandID", 1>>, <<"DeviceID", MaxDeviceIDLen>>, <<"TenantID", MaxTenantIDLen>>, <<"Type", 1>>,
             <<"RequestedBy", MaxPrincipalLen>>, <<"ApprovedBy", MaxPrincipalLen>>, <<"CorrelationID", MaxPrincipalLen>>,
             <<"Sequence", 0>>, <<"Nonce", 1>>, <<"IssuedAt", 0>>, <<"ExpiresAt", 0>>, <<"ParamsDigest", DigestLen>> >>

EncodeUnvalidated(f) ==
  FoldLeft(LAMBDA b, x : IF x[2] = 0 THEN appendU32(b, f[x[1]]) ELSE appendLP(b, f[x[1]]), appendLP(<<>>, DomainEnvelopeV2), Layout)
\* The empty sequence stands for the error.
Encode(f) == IF FieldsValid(f) THEN EncodeUnvalidated(f) ELSE <<>>

ParseCanonicalV2(b) ==
  LET tag == lp(reader(b), Len(DomainEnvelopeV2))
      next(s, x) == LET y == IF x[2] = 0 THEN u64(s.r) ELSE lp(s.r, x[2]) IN [r |-> y, out |-> Append(s.out, y.v)]
      end == FoldLeft(next, [r |-> tag, out |-> <<>>], Layout)
      f == [n \in {x[1] : x \in Elements(Layout)} |-> end.out[CHOOSE i \in DOMAIN Layout : Layout[i][1] = n]]
  IN  IF tag.v = DomainEnvelopeV2 /\ done(end.r) /\ FieldsValid(f) THEN [ok |-> TRUE, f |-> f] ELSE [ok |-> FALSE, f |-> <<>>]

\* Envelope.Fields: the body bound to one device and to the parameters.
EnvelopeFields(deviceID, e) ==
  [n \in {x[1] : x \in Elements(Layout)} |->
     CASE n = "DeviceID" -> deviceID [] n = "ParamsDigest" -> ParamsDigest(e.Params) [] OTHER -> e[n]]
CanonicalV2(deviceID, e) == IF ValidateParams(e.Params) THEN Encode(EnvelopeFields(deviceID, e)) ELSE <<>>

(************************************ DSSE ************************************)

PayloadTypeCommand == "cmd.v2"
PayloadTypeTrust == "trust.v2"

PAE(payloadType, payload) == <<payloadType, payload>>

SignDSSE(priv, payloadType, payload) == [KeyID |-> priv, Sig |-> <<priv, PAE(payloadType, payload)>>]
ed25519Verify(pub, msg, sig) == sig = <<pub, msg>>

\* A second signature of the same key takes the place of its first.
CoSign(priv, d) ==
  LET s == SignDSSE(priv, d.PayloadType, d.Payload)
      at == {i \in DOMAIN d.Signatures : d.Signatures[i].KeyID = priv}
  IN  CASE at # {} -> [d EXCEPT !.Signatures[CHOOSE i \in at : \A j \in at : i <= j] = s]
        [] at = {} /\ Len(d.Signatures) < MaxDSSESignatures -> [d EXCEPT !.Signatures = Append(@, s)]
        [] OTHER -> d
validateShape(d) == d.Payload # <<>> /\ Len(d.Signatures) \in 1..MaxDSSESignatures

SignV2(priv, deviceID, e) ==
  LET payload == CanonicalV2(deviceID, e)
  IN  [PayloadType |-> PayloadTypeCommand, Payload |-> payload, Signatures |-> <<SignDSSE(priv, PayloadTypeCommand, payload)>>]

(********************************* verification *******************************)

RequiredSignatures(type) == 1

IsWeakPublicKey(pub) == pub = "weak"

\* Command and approver keys by id; an id that occurs twice names no key.
signerKeyIndex(keys) ==
  LET usable == {i \in DOMAIN keys : keys[i].Role \in {"command", "approver"} /\ ~IsWeakPublicKey(keys[i].KeyID)}
  IN  {keys[i] : i \in {j \in usable : \A k \in usable : keys[k].KeyID = keys[j].KeyID => k = j}}

VerifyV2(d, params, in) ==
  LET parsed == ParseCanonicalV2(d.Payload)
      f == parsed.f
      idx == signerKeyIndex(in.Keys)
      msg == PAE(d.PayloadType, d.Payload)
      live(k) == k.NotAfter # 0 /\ f.IssuedAt \in k.NotBefore..k.NotAfter
      ok(k, i) == live(k) /\ ed25519Verify(k.KeyID, msg, d.Signatures[i].Sig)
      by(i) == {k \in idx : k.KeyID = d.Signatures[i].KeyID}
      good == {k \in idx : \E i \in DOMAIN d.Signatures : k \in by(i) /\ ok(k, i)}
      command == {k \in good : k.Role = "command"}
      sawExpired == \E i \in DOMAIN d.Signatures : \E k \in by(i) : ~live(k)
      sawBad == \E i \in DOMAIN d.Signatures : \E k \in by(i) : live(k) /\ \A j \in 1..i : k \in by(j) => ~ok(k, j)
      required == IF in.MinSignatures <= 0 THEN RequiredSignatures(f.Type) ELSE in.MinSignatures
  IN  IF d.PayloadType # PayloadTypeCommand THEN IF d.PayloadType = "cmd.v3" THEN "unsupported_version" ELSE "bad_payload_type"
      ELSE IF ~ValidDeviceID(in.DeviceID) THEN "bad_device_id"
      ELSE IF ~validateShape(d) \/ ~parsed.ok THEN "malformed_envelope"
      ELSE IF f.DeviceID # in.DeviceID THEN "wrong_device"
      ELSE IF in.ExpectTenant # f.TenantID THEN "wrong_tenant"
      ELSE IF ~ValidateParams(params) THEN "malformed_params"
      ELSE IF Cardinality(good) < required \/ command = {}
             THEN IF sawBad THEN "bad_signature"
                  ELSE IF good # {} THEN "insufficient_signatures"
                  ELSE IF sawExpired THEN "key_expired" ELSE "unknown_key"
      ELSE IF ParamsDigest(params) # f.ParamsDigest THEN "bad_signature"
      ELSE IF in.Now = 0 THEN "clock_unsynced"
      ELSE IF f.IssuedAt > in.Now + ClockSkew THEN "not_yet_valid"
      ELSE IF in.Now > f.ExpiresAt THEN "expired"
      ELSE "accepted"
=============================================================================
