------------------------------- MODULE LogIngest -------------------------------
(* Log normalisation: JSON, CEF, LEEF, syslog and Windows events become one    *)
(* record each, with a device derived from the source and the tenant, and an   *)
(* identity derived from the record for deduplication.                        *)
(*                                                                            *)
(* A line is given as the fields its separators cut it into.  A time is a      *)
(* number; 0 stands for no time and -1 for one no layout reads.  Severities are *)
(* numbers or words.  A JSON value of a Windows event is a record with its     *)
(* type in t.                                                                 *)
EXTENDS Analytics

CONSTANT MaxWinDepth   \* maxWinDepth: nesting of a Windows event that is read
ASSUME IngestAssumption == MaxWinDepth \in Nat

validCategory == {"SYSTEM", "SECURITY", "NETWORK_DISCOVERY", "POLICY_VIOLATION", "AGENT_UPDATE", "PROCESS", "NETWORK_CONN"}
Words == DOMAIN severityWeight
normCategory(s) == IF s \in validCategory THEN s ELSE "SYSTEM"
normSeverity(s) == IF s \in Words THEN s ELSE "INFO"
cefSeverity(s) ==
  IF ~s.num THEN normSeverity(s.word)
  ELSE IF s.n >= 9 THEN "CRITICAL" ELSE IF s.n >= 7 THEN "HIGH" ELSE IF s.n >= 4 THEN "MEDIUM" ELSE IF s.n >= 1 THEN "LOW" ELSE "INFO"
syslogSeverity(n) == IF n <= 2 THEN "CRITICAL" ELSE IF n = 3 THEN "HIGH" ELSE IF n = 4 THEN "MEDIUM" ELSE IF n = 5 THEN "LOW" ELSE "INFO"

\* SHA-1 of a name space and the parts: a value of its own for every list of parts.
SourceUUID(source) == <<"src", source>>
CanonicalTenant(id) == IF id = "" THEN "default" ELSE id
TenantDeviceID(tenant, device) == IF CanonicalTenant(tenant) = "default" THEN device ELSE <<"ten", tenant, device>>
SourceIDTenant(explicit, deploy) ==
  IF explicit = "" \/ CanonicalTenant(explicit) = CanonicalTenant(deploy) THEN "" ELSE explicit

parseFlexTime(t, fallback) == IF t > 0 THEN t ELSE fallback
\* The source and the type go into the details unless those are no object.
stampCanonical(ev, source, type) ==
  LET add == [k \in {x \in {"source", "event_type"} : (x = "source" /\ source # "") \/ (x = "event_type" /\ type # "")} |-> IF k = "source" THEN source ELSE type]
  IN [ev EXCEPT !.source = source, !.type = type, !.details = IF @.object THEN [object |-> TRUE, map |-> add @@ @.map] ELSE @]
Record(source, category, severity, message, at, details, type) ==
  [device |-> SourceUUID(source),
   event |-> stampCanonical([category |-> category, severity |-> severity, message |-> <<source, message>>, at |-> at, details |-> details, source |-> "", type |-> ""], source, type)]
NoDetails == [object |-> TRUE, map |-> <<>>]
Bad == [ok |-> FALSE, out |-> <<>>]

\* One record without a source or a message refuses the whole array.
NormalizeJSON(raws, now) ==
  IF \E i \in DOMAIN raws : raws[i].source = "" \/ raws[i].message = "" THEN Bad
  ELSE [ok |-> TRUE, out |-> [i \in DOMAIN raws |-> LET r == raws[i] IN
          Record(r.source, normCategory(r.category), normSeverity(r.severity), r.message, parseFlexTime(r.at, now), r.details, "")]]

Lookup(f, k, none) == IF k \in DOMAIN f THEN f[k] ELSE none
cefExtField(ext, key) == Lookup(ext, key, 0)
\* parts: version, vendor, product, version, id, name, severity and, eighth, the extension
NormalizeCEF(line, now) ==
  IF line.kind # "CEF" \/ Len(line.parts) < 7 THEN Bad
  ELSE LET ext == IF Len(line.parts) = 8 THEN line.parts[8] ELSE <<>>
       IN [ok |-> TRUE, out |-> <<Record(line.parts[2] \o "/" \o line.parts[3], "SECURITY", cefSeverity(line.parts[7]), line.parts[6], parseFlexTime(cefExtField(ext, "rt"), now),
                                         [object |-> TRUE, map |-> IF ext = <<>> THEN <<>> ELSE [cef_extension |-> ext]], "")>>]

decodeLEEFDelim(f) == IF f = "x5E" THEN "^" ELSE IF f = "" THEN "tab" ELSE f
\* Cut at another separator, the attributes are one pair: the first key with the rest as its value.
parseLEEFAttrs(attrs, delim) ==
  LET ps == IF attrs.sep = delim THEN attrs.pairs ELSE <<[k |-> attrs.pairs[1].k, v |-> IF Len(attrs.pairs) = 1 THEN attrs.pairs[1].v ELSE [num |-> FALSE, n |-> 0, word |-> "joined"]]>>
  IN [k \in {ps[i].k : i \in DOMAIN ps} \ {""} |-> Last(SelectSeq(ps, LAMBDA p : p.k = k)).v]
NoValue == [num |-> FALSE, n |-> 0, word |-> ""]
leefDevTime(kv) == LET v == Lookup(kv, "devTime", NoValue) IN IF v # NoValue THEN v.n ELSE Lookup(kv, "devtime", NoValue).n
\* LEEF 2.0 names its delimiter before the attributes.
NormalizeLEEF(line, now) ==
  IF line.kind # "LEEF" \/ Len(line.parts) < 6 THEN Bad
  ELSE LET two == line.parts[1] = "2.0" /\ Len(line.parts) >= 7 /\ line.parts[6].pairs = <<>>
           kv == IF two THEN parseLEEFAttrs(line.parts[7], decodeLEEFDelim(line.parts[6].sep)) ELSE parseLEEFAttrs(line.parts[6], "tab")
           sev == IF Lookup(kv, "sev", NoValue) # NoValue THEN kv["sev"] ELSE Lookup(kv, "severity", NoValue)
       IN [ok |-> TRUE, out |-> <<Record(line.parts[2] \o "/" \o line.parts[3], "SECURITY", cefSeverity(sev), IF Lookup(kv, "msg", NoValue) # NoValue THEN kv["msg"].word ELSE line.parts[5],
                                         parseFlexTime(leefDevTime(kv), now), [object |-> TRUE, map |-> kv], "")>>]

deNil(f) == IF f = "-" THEN "" ELSE f
\* the fields from the n-th on, or nothing
nthFieldIndex(fields, n) == IF Len(fields) > n THEN SubSeq(fields, n + 1, Len(fields)) ELSE <<>>
NormalizeSyslog(line, now) ==
  IF line.kind # "<" \/ line.pri \notin 0..191 THEN Bad
  ELSE LET f == line.parts
           v1 == Len(f) >= 5 /\ f[1] = "1"
           source == IF v1 THEN (IF deNil(f[3]) # "" THEN f[3] ELSE IF deNil(f[4]) # "" THEN f[4] ELSE "syslog") ELSE IF Len(f) >= 5 THEN f[4] ELSE "syslog"
           msg == IF v1 /\ nthFieldIndex(f, 6) # <<>> THEN nthFieldIndex(f, 6) ELSE f
       IN [ok |-> TRUE, out |-> <<Record(source, "SECURITY", syslogSeverity(line.pri % 8), IF msg = <<>> THEN <<"(empty)">> ELSE msg,
                                         IF v1 THEN parseFlexTime(line.time, now) ELSE now, NoDetails, "")>>]

\* a text body's lines, each by its own marker; a line no parser reads is dropped
NormalizeLine(line, now) ==
  CASE line.kind = "LEEF" -> NormalizeLEEF(line, now) [] line.kind = "<" -> NormalizeSyslog(line, now) [] OTHER -> NormalizeCEF(line, now)
NormalizeText(lines, now) == FlattenSeq([i \in DOMAIN lines |-> NormalizeLine(lines[i], now).out])

-----------------------------------------------------------------------------
(* Windows events *)
winCatalog == (1102 :> <<"SECURITY", "CRITICAL">>) @@ (4625 :> <<"SECURITY", "MEDIUM">>)
winSysmon == (1 :> <<"PROCESS", "INFO">>) @@ (8 :> <<"SECURITY", "HIGH">>)
winPowerShell == 4104 :> <<"PROCESS", "MEDIUM">>
winDefender == 5001 :> <<"SECURITY", "HIGH">>
ChannelTable(ch) == CASE ch = "sysmon" -> winSysmon [] ch = "powershell" -> winPowerShell [] ch = "defender" -> winDefender [] OTHER -> <<>>
\* The channel's own table first: event numbers mean different things on different channels.
WinEventClass(id, ch) ==
  IF id \in DOMAIN ChannelTable(ch) THEN ChannelTable(ch)[id]
  ELSE IF id \in DOMAIN winCatalog THEN winCatalog[id]
  ELSE CASE ch \in {"security", "sysmon"} -> <<"SECURITY", "INFO">> [] ch = "powershell" -> <<"PROCESS", "INFO">> [] ch = "defender" -> <<"SECURITY", "MEDIUM">> [] OTHER -> <<"SYSTEM", "INFO">>

Nil == [t |-> "nil"]
Put(out, k, v) == [x \in DOMAIN out \cup {k} |-> IF x = k THEN v ELSE out[x]]
PutNew(out, k, v) == IF k \in DOMAIN out /\ out[k] # Nil THEN out ELSE Put(out, k, v)
RECURSIVE winFlattenPlain(_, _, _, _)
winFlattenPlain(m, out, depth, order) ==
  LET Elem(o, el) ==
        IF el.t # "map" \/ "@name" \notin DOMAIN el.m \/ "#text" \notin DOMAIN el.m THEN o ELSE PutNew(o, el.m["@name"].s, el.m["#text"])
      Key(o, k) == CASE m[k].t = "map" -> winFlattenPlain(m[k].m, o, depth + 1, order) [] m[k].t = "list" -> FoldLeft(Elem, o, m[k].l) [] OTHER -> PutNew(o, k, m[k])
  IN IF depth >= MaxWinDepth THEN out ELSE FoldLeft(Key, out, SelectSeq(order, LAMBDA k : k \in DOMAIN m))
\* Nested objects move up; a #text or a named list element overwrites, a plain value only fills a
\* gap.  Go walks a map in any order: `order` lists the keys in the order of this walk.
RECURSIVE winFlatten(_, _, _, _)
winFlatten(m, out, depth, order) ==
  LET Elem(o, el) ==
        IF el.t # "map" THEN o
        ELSE IF "@name" \in DOMAIN el.m THEN (IF "#text" \in DOMAIN el.m THEN Put(o, el.m["@name"].s, el.m["#text"]) ELSE o)
        ELSE winFlatten(el.m, o, depth + 1, order)
      Key(o, k) ==
        CASE m[k].t = "map" ->
               LET text == IF "#text" \in DOMAIN m[k].m THEN Put(o, k, m[k].m["#text"]) ELSE o
                   named == IF k = "provider" /\ "@name" \in DOMAIN m[k].m THEN Put(text, "provider_name", m[k].m["@name"]) ELSE text
               IN winFlatten(m[k].m, named, depth + 1, order)
          [] m[k].t = "list" -> FoldLeft(Elem, o, m[k].l)
          [] OTHER -> PutNew(o, k, m[k])
  IN IF depth >= MaxWinDepth THEN out ELSE FoldLeft(Key, out, SelectSeq(order, LAMBDA k : k \in DOMAIN m))

First(flat, keys, Good(_)) == LET ks == SelectSeq(keys, LAMBDA k : k \in DOMAIN flat /\ Good(flat[k])) IN IF ks = <<>> THEN Nil ELSE flat[ks[1]]
winStr(flat, keys) == LET v == First(flat, keys, LAMBDA x : x.t # "nil" /\ x # [t |-> "str", s |-> ""]) IN IF v.t = "str" THEN v.s ELSE IF v.t = "num" THEN ToString(v.n) ELSE ""
winInt(flat, keys) == LET v == First(flat, keys, LAMBDA x : x.t = "num") IN IF v = Nil THEN 0 ELSE v.n
winTime(flat, fallback) == LET v == First(flat, <<"@timestamp", "systemtime">>, LAMBDA x : x.t = "num") IN IF v = Nil THEN fallback ELSE parseFlexTime(v.n, fallback)
winEnrichKeys == [target_user |-> <<"targetusername">>, src_ip |-> <<"ipaddress", "ip_address">>]
WinDetails(flat, id) ==
  [k \in {x \in DOMAIN winEnrichKeys : winStr(flat, winEnrichKeys[x]) # ""} |-> winStr(flat, winEnrichKeys[k])]
  @@ [event_id |-> id, provider |-> winStr(flat, <<"provider_name", "sourcename">>)]
WinRecordOf(flat, id, class, host, now) ==
  [ok |-> id # 0, out |-> <<Record(IF host = "" THEN "winlog" ELSE host, class[1], class[2], <<id, winStr(flat, <<"message">>)>>,
                                   winTime(flat, now), [object |-> TRUE, map |-> WinDetails(flat, id)], "winevent")>>]
WinRecordFrom(flat, id, now) == WinRecordOf(flat, id, WinEventClass(id, winStr(flat, <<"channel">>)), winStr(flat, <<"computer", "host">>), now)
WinRecordAt(flat, now) == WinRecordFrom(flat, winInt(flat, <<"event_id", "eventid">>), now)
WinRecord(m, now, order) == WinRecordAt(winFlatten(m, <<>>, 0, order), now)
Batch(rs) == IF \E i \in DOMAIN rs : ~rs[i].ok THEN Bad ELSE [ok |-> TRUE, out |-> FlattenSeq([i \in DOMAIN rs |-> rs[i].out])]
NormalizeWinEvent(objs, now, order) == Batch([i \in DOMAIN objs |-> WinRecord(objs[i], now, order)])

\* SHA-256 over tenant, device, sequence, time, category and message; log records carry no sequence.
EnsureID(tenant, device, ev) == <<tenant, device, ev.at, ev.category, ev.message>>

-----------------------------------------------------------------------------
(* what is sent *)
Str(x) == [t |-> "str", s |-> x]
Num(x) == [t |-> "num", n |-> x]
Obj(x) == [t |-> "map", m |-> x]
JsonItems == {[timed |-> a > 0, source |-> o, category |-> "odd", severity |-> v, message |-> "m", at |-> a, details |-> d] :
                o \in {"fw", ""}, v \in {"HIGH", "odd"}, a \in {-1, 0, 5}, d \in {NoDetails, [object |-> FALSE, map |-> <<>>], [object |-> TRUE, map |-> [source |-> "ids"]]}}
Sev(n) == [num |-> TRUE, n |-> n, word |-> ""]
CefLine(n, ext) == [timed |-> ext # <<>>, level |-> n, kind |-> "CEF", parts |-> <<"0", "v", "p", "1", "100", "name", Sev(n)>> \o (IF ext = <<>> THEN <<>> ELSE <<ext>>)]
LeefAttrs(n) == [sep |-> "^", pairs |-> <<[k |-> "sev", v |-> Sev(n)], [k |-> "devTime", v |-> Sev(7)]>>]
LeefLine(version, delim, n) == [timed |-> delim # "tab", level |-> IF delim = "tab" THEN -1 ELSE n, kind |-> "LEEF", parts |-> <<version, "v", "p", "1", "login", [sep |-> delim, pairs |-> <<>>], LeefAttrs(n)>>]
SysLine(pri, f, time) == [timed |-> time > 0, level |-> 10 - (pri % 8), kind |-> "<", pri |-> pri, parts |-> f, time |-> time]
LineItems == {CefLine(n, e) : n \in {0, 5, 9, 10}, e \in {<<>>, [rt |-> 6]}} \cup {LeefLine("2.0", d, n) : d \in {"^", "x5E", "tab"}, n \in {3, 9}}
             \cup {SysLine(p, <<"1", "ts", h, "app", "pid", "id", "sd", "msg">>, t) : p \in {11, 14}, h \in {"-", "h1"}, t \in {0, 8}}
             \cup {SysLine(200, <<>>, 0), [timed |-> FALSE, level |-> -1, kind |-> "CEF", parts |-> <<"0", "v">>], SysLine(13, <<"Jan", "2", "10:00", "h2", "sshd">>, 0)}
WinItems == {[timed |-> "@timestamp" \in DOMAIN m, clash |-> c, obj |-> m] : <<c, m>> \in
  {<<FALSE, [event_id |-> Num(4625), channel |-> Str("security"), computer |-> Str("h1")] @@ ("@timestamp" :> Num(9))>>,
   <<FALSE, [provider |-> Obj("@name" :> Str("Sysmon")), winlog |-> Obj([event_id |-> Num(8), channel |-> Str("sysmon"), computer |-> Str("h2")])]>>,
   <<FALSE, [event_id |-> Num(5001), channel |-> Str("defender"), data |-> [t |-> "list", l |-> <<Obj(("@name" :> Str("ipaddress")) @@ ("#text" :> Str("10.0.0.1"))), Str("x")>>], ipaddress |-> Str("none")]>>,
   <<TRUE, [event_id |-> Num(1), channel |-> Str("sysmon"), host |-> Str("h1"), winlog |-> Obj([host |-> Str("h3")])]>>,
   <<FALSE, [eventid |-> Obj([u |-> Str("v")] @@ ("#text" :> Num(1102))), channel |-> Str("security"), a |-> Obj([a |-> Obj([host |-> Str("deep")])])]>>,
   <<FALSE, [channel |-> Str("security")]>>}}
SourceItems == [explicit : {"", "default", "acme", "globex"}, source : {"fw", "ids"}]
SentOf == [json |-> JsonItems, line |-> LineItems, win |-> WinItems, source |-> SourceItems]
WinKeys == <<"event_id", "eventid", "channel", "computer", "host", "winlog", "data", "ipaddress", "a", "u", "provider", "@timestamp">>

\* One more record of a batch.
Receive == algo \in DOMAIN SentOf /\ Len(input) < 2 /\ \E x \in SentOf[algo] : input' = Append(input, x) /\ UNCHANGED algo

\* the batch as normalised at a given time
Normalised(now) ==
  CASE algo = "json" -> NormalizeJSON(input, now)
    [] algo = "line" -> [ok |-> TRUE, out |-> NormalizeText(input, now)]
    [] algo = "win" -> NormalizeWinEvent([i \in DOMAIN input |-> input[i].obj], now, WinKeys)
    [] OTHER -> Bad
Alone(x, now) ==
  CASE algo = "json" -> NormalizeJSON(<<x>>, now) [] algo = "line" -> NormalizeLine(x, now) [] OTHER -> WinRecord(x.obj, now, WinKeys)

AddsUp(whole, each) ==
  /\ algo # "line" => (whole.ok <=> \A i \in DOMAIN each : each[i].ok)
  /\ algo # "line" /\ whole.ok => Len(whole.out) = Len(each)
  /\ whole.ok => whole.out = FlattenSeq([i \in DOMAIN each |-> each[i].out])
\* A batch is the records of its elements in their order: for JSON and Windows events it is refused
\* whole when one element is, from text only that line is missing.
BatchesAddUp == algo \in {"json", "line", "win"} => AddsUp(Normalised(10), [i \in DOMAIN input |-> Alone(input[i], 10)])

KnownAgain(timed, a, b) ==
  a.ok => /\ EnsureID("t", a.out[1].device, a.out[1].event) = EnsureID("t", b.out[1].device, b.out[1].event) <=> timed
          /\ a.out[1].event.at = 10 <=> ~timed
\* A record that is sent again later has the same identity, so that deduplication drops it, iff it
\* carries a readable time of its own; and no other time than its own or that of its arrival.
RetryKnownByTime ==
  algo \in {"json", "line", "win"} => \A i \in DOMAIN input : KnownAgain(input[i].timed, Alone(input[i], 10), Alone(input[i], 20))

Stamped(n) ==
  n.ok => \A i \in DOMAIN n.out : LET r == n.out[i] IN
    /\ r.event.details.object => SourceUUID(r.event.details.map["source"]) = r.device
    /\ r.event.category \in validCategory /\ r.event.severity \in Words
\* The details name the source the record's device was derived from, whatever source they claimed;
\* category and severity are ones the rules know.
SourceStamped == Stamped(Normalised(10))

NotLower(a, b) == a.ok /\ b.ok => rank(a.out[1].event.severity) <= rank(b.out[1].event.severity)
\* A higher number in CEF and LEEF, a lower one in syslog, never has a lower severity.
SeverityFollowsNumber ==
  algo = "line" /\ Len(input) = 2 /\ input[1].kind = input[2].kind /\ input[1].level >= 0 /\ input[1].level <= input[2].level =>
    NotLower(NormalizeLine(input[1], 10), NormalizeLine(input[2], 10))

Steady(x, a, b) ==
  /\ ~x.clash => a = b
  /\ (a.ok /\ "data" \in DOMAIN x.obj) => a.out[1].event.details.map["src_ip"] = "10.0.0.1"
\* Go's map order does not show in a Windows event, unless two levels hold the same plain key; a
\* named element wins over a plain key.
WinlogSteady ==
  algo = "win" => \A i \in DOMAIN input :
    Steady(input[i], WinRecord(input[i].obj, 10, WinKeys), WinRecord(input[i].obj, 10, Reverse(WinKeys)))

DeviceOf(x, deploy) == TenantDeviceID(SourceIDTenant(x.explicit, deploy), SourceUUID(x.source))
TenantOf(x, deploy) == CanonicalTenant(IF x.explicit = "" THEN deploy ELSE x.explicit)
\* Two sources share a device iff they have one name and one tenant.  The tenant `default` in a
\* deployment of another tenant is left out: its sources keep the plain id the deployment's have.
TenantsApart ==
  algo = "source" => \A deploy \in {"", "default", "acme"}, i, j \in DOMAIN input :
    (CanonicalTenant(deploy) = "default" \/ "default" \notin {input[i].explicit, input[j].explicit}) =>
      (DeviceOf(input[i], deploy) = DeviceOf(input[j], deploy) <=> input[i].source = input[j].source /\ TenantOf(input[i], deploy) = TenantOf(input[j], deploy))
=============================================================================
