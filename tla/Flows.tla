-------------------------------- MODULE Flows --------------------------------
(* The three streams that live as long as the process: the events an agent      *)
(* sends, the policies the server sends, and the tap that copies processed      *)
(* events to the telemetry plane.  They share no state; a behaviour exercises    *)
(* one of them, and an idle one has no step that fairness would demand.          *)
EXTENDS EventForwarding, PolicyPush, TelemetryPlane

VARIABLE flow   \* the stream at work
flowVars == <<flow, eventVars, policyVars, vars>>

\* Policies are interchangeable: the order they start with is one of the possible ones.
FlowInit ==
  /\ flow \in {"events", "policy", "tap"}
  /\ EventInit /\ PolicyInit /\ Init
  /\ updated = CHOOSE u \in [Policies -> 1 .. Cardinality(Policies)] : \A p, q \in Policies : u[p] = u[q] => p = q

EventsFlow == flow = "events" /\ EventNext /\ UNCHANGED <<flow, policyVars, vars>>
PolicyFlows == flow = "policy" /\ PolicyNext /\ UNCHANGED <<flow, eventVars, vars>>
TapFlows == flow = "tap" /\ Next /\ UNCHANGED <<flow, eventVars, policyVars>>

FlowNext == EventsFlow \/ PolicyFlows \/ TapFlows

\* An agent reconnects to the stream of policies only while that stream is at work.
FlowFairness ==
  /\ EventFairness /\ CallFairness /\ Fairness
  /\ WF_policyVars(flow = "policy" /\ Reconnect)

FlowSpec == FlowInit /\ [][FlowNext]_flowVars /\ FlowFairness
=============================================================================
