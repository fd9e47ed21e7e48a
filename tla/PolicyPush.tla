------------------------------- MODULE PolicyPush -------------------------------
(***************************************************************************)
(* Policy distribution to ONE device: the console operations AssignPolicy  *)
(* and AddPolicyRule (server/internal/admin/service.go), the tables behind *)
(* them (server/internal/db/policy.go, admin.go), the wake-up channels of  *)
(* policypush.Notifier, the StreamPolicies handler with streamPolicyLoop   *)
(* (agent_handler.go) and the agent's runPolicyStream (main.go).           *)
(*                                                                         *)
(* A version is the label the agent and the server compare: a label an     *)
(* administrator typed, or a millisecond time stamp of BumpPolicyVersion.  *)
(* CurrentPolicy reads the label and the rules with two statements.        *)
(***************************************************************************)
EXTENDS Naturals, Sequences, FiniteSets

CONSTANTS
    Policies,   \* policies that exist; all of them fit the device's tenant
    Rules,      \* rules that administrators add, each by a call of its own
    Streams,    \* StreamPolicies calls that may exist at the same time
    NoStream, NoPolicy,
    TypedLabels \* bound: labels 1 .. TypedLabels are typed by administrators

ASSUME SetsAssumption == IsFiniteSet(Policies) /\ IsFiniteSet(Rules)
ASSUME NullsAssumption == NoStream \notin Streams /\ NoPolicy \notin Policies
ASSUME LabelAssumption == TypedLabels \in Nat \ {0}

VARIABLES
    version,    \* policies.version
    updated,    \* order of policies.updated_at
    home,       \* policy_rules: the policy of an inserted rule
    assigned,   \* device_policies
    stamp,      \* the label now() would give
    ruleCall,   \* where the AddPolicyRule call of a rule is
    assignCall, \* where the AssignPolicy call of a policy is
    spc,        \* where streamPolicyLoop is; "closed" when there is no call
    notify,     \* subscription channel of a stream holds a wake-up
    lastVer,    \* lastVer of the loop
    read,       \* what the first statement of CurrentPolicy returned
    wire,       \* bundles sent on a stream and not received yet
    conn,       \* stream the agent reads from
    engine,     \* the agent's policy.Engine
    labelOf     \* history: label the bump for a rule produced; 0 before

dbVars     == <<version, updated, home, assigned, stamp>>
callVars   == <<ruleCall, assignCall, labelOf>>
streamVars == <<spc, notify, lastVer, read, wire>>
receiverVars  == <<conn, engine>>
policyVars       == <<dbVars, callVars, streamVars, receiverVars>>

EmptyEngine == [ver |-> 0, pol |-> NoPolicy, rules |-> {}]
Labels == 0 .. (TypedLabels + Cardinality(Rules))
Bundles == [ver : Labels, pol : Policies \cup {NoPolicy}, rules : SUBSET Rules]

\* Mutant: the rules come from a copy that is refreshed by Publish.
RulesOfPublished(p) == {r \in Rules : home[r] = p /\ ruleCall[r] = "done"}

\* The rows of policy_rules for a policy.
RulesOf(p) == {r \in Rules : home[r] = p}

PolicyTypeOK ==
    /\ version \in [Policies -> Labels \ {0}]
    /\ updated \in [Policies -> Nat]
    /\ \A p, q \in Policies : updated[p] = updated[q] => p = q
    /\ home \in [Rules -> Policies \cup {NoPolicy}]
    /\ assigned \subseteq Policies
    /\ stamp \in Labels
    /\ ruleCall \in [Rules -> {"none", "bump", "publish", "done", "failed"}]
    /\ assignCall \in [Policies -> {"none", "publish", "done"}]
    /\ spc \in [Streams -> {"closed", "query", "rules", "select"}]
    /\ notify \in [Streams -> BOOLEAN]
    /\ lastVer \in [Streams -> Labels]
    /\ read \in [Streams -> [ver : Labels, pol : Policies \cup {NoPolicy}]]
    /\ wire \in [Streams -> Seq(Bundles)]
    /\ conn \in Streams \cup {NoStream}
    /\ engine \in Bundles
    /\ labelOf \in [Rules -> Labels]

NothingRead == [ver |-> 0, pol |-> NoPolicy]

PolicyInit ==
    /\ version \in [Policies -> 1 .. TypedLabels]
    /\ updated \in [Policies -> 1 .. Cardinality(Policies)]
    /\ \A p, q \in Policies : updated[p] = updated[q] => p = q
    /\ home = [r \in Rules |-> NoPolicy]
    /\ assigned = {}
    /\ stamp = TypedLabels
    /\ ruleCall = [r \in Rules |-> "none"]
    /\ assignCall = [p \in Policies |-> "none"]
    /\ spc = [s \in Streams |-> "closed"]
    /\ notify = [s \in Streams |-> FALSE]
    /\ lastVer = [s \in Streams |-> 0]
    /\ read = [s \in Streams |-> NothingRead]
    /\ wire = [s \in Streams |-> <<>>]
    /\ conn = NoStream
    /\ engine = EmptyEngine
    /\ labelOf = [r \in Rules |-> 0]

-----------------------------------------------------------------------------
(* Notifier *)

Subscribed == {s \in Streams : spc[s] # "closed"}

\* Mutant: the wake-up is sent only to a loop that waits for it.
PublishToWaiting == [s \in Streams |-> notify[s] \/ (spc[s] = "select")]

\* Publish: one coalesced wake-up for every open subscription.
Publish == [s \in Streams |-> notify[s] \/ s \in Subscribed]

-----------------------------------------------------------------------------
(* Console *)

\* AssignPolicy: INSERT INTO device_policies ...
AssignPolicy(p) ==
    /\ assignCall[p] = "none"
    /\ assigned' = assigned \cup {p}
    /\ assignCall' = [assignCall EXCEPT ![p] = "publish"]
    /\ UNCHANGED <<version, updated, home, stamp, ruleCall, labelOf, streamVars, receiverVars>>

\* ... and, after the audit entry, Publish.
PublishAssignment(p) ==
    /\ assignCall[p] = "publish"
    /\ notify' = Publish
    /\ assignCall' = [assignCall EXCEPT ![p] = "done"]
    /\ UNCHANGED <<dbVars, ruleCall, labelOf, spc, lastVer, read, wire, receiverVars>>

\* AddPolicyRule: INSERT INTO policy_rules.
InsertRule(r, p) ==
    /\ ruleCall[r] = "none"
    /\ home' = [home EXCEPT ![r] = p]
    /\ ruleCall' = [ruleCall EXCEPT ![r] = "bump"]
    /\ UNCHANGED <<version, updated, assigned, stamp, assignCall, labelOf, streamVars, receiverVars>>

\* BumpPolicyVersion: the label is the time in milliseconds, so two bumps may get
\* the same one (elapsed = 0).
BumpPolicyVersion(r, elapsed) ==
    /\ ruleCall[r] = "bump"
    /\ stamp + elapsed > TypedLabels
    /\ stamp' = stamp + elapsed
    /\ version' = [version EXCEPT ![home[r]] = stamp']
    /\ updated' = [updated EXCEPT ![home[r]] =
                     1 + CHOOSE n \in {updated[p] : p \in Policies} :
                             \A p \in Policies : updated[p] <= n]
    /\ labelOf' = [labelOf EXCEPT ![r] = stamp']
    /\ ruleCall' = [ruleCall EXCEPT ![r] = "publish"]
    /\ UNCHANGED <<home, assigned, assignCall, streamVars, receiverVars>>

\* DevicesForPolicy, and Publish if the device is among them.
PublishRule(r) ==
    /\ ruleCall[r] = "publish"
    /\ notify' = IF home[r] \in assigned THEN Publish ELSE notify
    /\ ruleCall' = [ruleCall EXCEPT ![r] = "done"]
    /\ UNCHANGED <<dbVars, assignCall, labelOf, spc, lastVer, read, wire, receiverVars>>

\* BumpPolicyVersion or DevicesForPolicy returns an error: the rule stays, the
\* call returns.
AddPolicyRuleFails(r) ==
    /\ ruleCall[r] \in {"bump", "publish"}
    /\ ruleCall' = [ruleCall EXCEPT ![r] = "failed"]
    /\ UNCHANGED <<dbVars, assignCall, labelOf, streamVars, receiverVars>>

-----------------------------------------------------------------------------
(* StreamPolicies *)

\* The agent (re)connects with its version; the handler subscribes, then loops.
StreamPolicies(s) ==
    /\ conn = NoStream /\ spc[s] = "closed"
    /\ conn' = s
    /\ spc' = [spc EXCEPT ![s] = "query"]
    /\ notify' = [notify EXCEPT ![s] = FALSE]
    /\ lastVer' = [lastVer EXCEPT ![s] = engine.ver]
    /\ UNCHANGED <<dbVars, callVars, read, wire, engine>>

\* ORDER BY updated_at DESC LIMIT 1.
Current == CHOOSE p \in assigned : \A q \in assigned : updated[q] <= updated[p]

\* CurrentPolicy, first statement; without a row the bundle is nil.
ReadVersion(s) ==
    /\ spc[s] = "query"
    /\ read' = [read EXCEPT ![s] = IF assigned = {} THEN NothingRead
                                   ELSE [ver |-> version[Current], pol |-> Current]]
    /\ spc' = [spc EXCEPT ![s] = IF assigned = {} THEN "select" ELSE "rules"]
    /\ UNCHANGED <<dbVars, callVars, notify, lastVer, wire, receiverVars>>

\* CurrentPolicy, second statement, and the rest of sendIfNewer.
SendIfNewer(s) ==
    /\ spc[s] = "rules"
    /\ spc' = [spc EXCEPT ![s] = "select"]
    /\ LET b == [ver |-> read[s].ver, pol |-> read[s].pol, rules |-> RulesOf(read[s].pol)]
       IN  IF b.ver = lastVer[s]
             THEN UNCHANGED <<wire, lastVer>>
             ELSE /\ wire' = IF conn = s THEN [wire EXCEPT ![s] = Append(@, b)] ELSE wire
                  /\ lastVer' = [lastVer EXCEPT ![s] = b.ver]
    /\ read' = [read EXCEPT ![s] = NothingRead]
    /\ UNCHANGED <<dbVars, callVars, notify, receiverVars>>

\* case <-notify.
Wake(s) ==
    /\ spc[s] = "select" /\ notify[s]
    /\ notify' = [notify EXCEPT ![s] = FALSE]
    /\ spc' = [spc EXCEPT ![s] = "query"]
    /\ UNCHANGED <<dbVars, callVars, lastVer, read, wire, receiverVars>>

\* The call ends (ctx done or an error of CurrentPolicy or send): cancel().  The
\* agent's Recv fails with it.
StreamEnds(s) ==
    /\ spc[s] # "closed"
    /\ spc' = [spc EXCEPT ![s] = "closed"]
    /\ notify' = [notify EXCEPT ![s] = FALSE]
    /\ lastVer' = [lastVer EXCEPT ![s] = 0]
    /\ read' = [read EXCEPT ![s] = NothingRead]
    /\ wire' = [wire EXCEPT ![s] = <<>>]
    /\ conn' = IF conn = s THEN NoStream ELSE conn
    /\ UNCHANGED <<dbVars, callVars, engine>>

-----------------------------------------------------------------------------
(* Agent *)

\* stream.Recv and engine.Store.
Recv ==
    /\ conn # NoStream
    /\ wire[conn] # <<>>
    /\ engine' = Head(wire[conn])
    /\ wire' = [wire EXCEPT ![conn] = Tail(@)]
    /\ UNCHANGED <<dbVars, callVars, spc, notify, lastVer, read, conn>>

\* Recv fails at the agent first; the server's side lives on until it notices.
ConnectionLost ==
    /\ conn # NoStream
    /\ wire' = [wire EXCEPT ![conn] = <<>>]
    /\ conn' = NoStream
    /\ UNCHANGED <<dbVars, callVars, spc, notify, lastVer, read, engine>>

\* The agent restarts with an empty bundle.
ReceiverRestarts ==
    /\ engine' = EmptyEngine
    /\ conn' = NoStream
    /\ wire' = [s \in Streams |-> <<>>]
    /\ UNCHANGED <<dbVars, callVars, spc, notify, lastVer, read>>

PolicyNext ==
    \/ \E p \in Policies : AssignPolicy(p) \/ PublishAssignment(p)
    \/ \E r \in Rules :
          \/ \E p \in Policies : InsertRule(r, p)
          \/ \E elapsed \in {0, 1} : BumpPolicyVersion(r, elapsed)
          \/ PublishRule(r) \/ AddPolicyRuleFails(r)
    \/ \E s \in Streams : \/ StreamPolicies(s) \/ ReadVersion(s) \/ SendIfNewer(s)
                          \/ Wake(s) \/ StreamEnds(s)
    \/ Recv \/ ConnectionLost \/ ReceiverRestarts

\* Every goroutine that can step does; the agent reconnects 5 s after a loss.
CallFairness ==
    /\ \A p \in Policies : WF_policyVars(PublishAssignment(p))
    /\ \A r \in Rules : WF_policyVars(PublishRule(r) \/ AddPolicyRuleFails(r) \/ BumpPolicyVersion(r, 1))
    /\ \A s \in Streams : /\ WF_policyVars(ReadVersion(s) \/ SendIfNewer(s) \/ Wake(s))
                          /\ WF_policyVars(conn # s /\ StreamEnds(s))
    /\ WF_policyVars(Recv)
Reconnect == \E s \in Streams : StreamPolicies(s)

PolicySpec == PolicyInit /\ [][PolicyNext]_policyVars

-----------------------------------------------------------------------------
(* Properties *)

\* No console call is between its change of the tables and its Publish, and none
\* gave up on the way.
CallsSettled ==
    /\ \A r \in Rules : ruleCall[r] \in {"none", "done"}
    /\ \A p \in Policies : assignCall[p] \in {"none", "done"}

\* The agent's stream has nothing left to do.
StreamIdle ==
    /\ conn # NoStream
    /\ spc[conn] = "select" /\ ~notify[conn] /\ wire[conn] = <<>>

\* No lost wake-up: once the calls have returned and the agent's stream waits with
\* an empty channel, the agent holds the label of the current policy, however
\* the calls, the two reads of CurrentPolicy, old streams and reconnects were
\* interleaved.
NoLostWakeup ==
    CallsSettled /\ StreamIdle /\ assigned # {} => engine.ver = version[Current]

\* AddPolicyRule inserts before it bumps, CurrentPolicy reads the label before the
\* rules: an agent that holds the label of a rule's bump has the rule, unless the
\* same label was handed out twice.
LabelImpliesRules ==
    \A r \in Rules :
        (/\ labelOf[r] # 0 /\ engine.ver = labelOf[r]
         /\ \A q \in Rules \ {r} : labelOf[q] # labelOf[r]) => r \in engine.rules

\* What keeps the agent from the current policy.
Disturbance ==
    \/ ConnectionLost \/ ReceiverRestarts
    \/ \E r \in Rules : AddPolicyRuleFails(r)
    \/ \E s \in Streams : conn = s /\ StreamEnds(s)

\* When the disturbances are over, the label of the current policy reaches the
\* agent and stays.
PolicyArrives ==
    <>[][~Disturbance]_policyVars /\ [](\A r \in Rules : ruleCall[r] # "failed")
      => <>[](assigned # {} => engine.ver = version[Current])

\* agent_handler.go, comment of StreamPolicies: a change of the policy pushes the
\* new bundle at once.  So a settled agent enforces the current policy's rules.
PushedPolicyIsCurrent ==
    CallsSettled /\ StreamIdle /\ assigned # {}
      => engine.pol = Current /\ engine.rules = RulesOf(Current)
=============================================================================
