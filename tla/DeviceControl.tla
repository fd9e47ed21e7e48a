----------------------------- MODULE DeviceControl -----------------------------
(* What the server makes a device do beside running commands: containment,      *)
(* policies and new versions of the agent.  The three share no state; a          *)
(* behaviour exercises one of them while the others rest.                        *)
EXTENDS DeviceStatus, PolicyPush, AgentUpdate

VARIABLE way   \* the one at work
controlVars == <<way, allVars, policyVars, updateVars>>

\* A part that rests does so in one of its possible first states.
ControlInit ==
  /\ way \in {"containment", "policy", "update"}
  /\ DeviceInit /\ PolicyInit /\ UpdateInit
  /\ way # "policy" => updated = CHOOSE f \in [Policies -> 1 .. Cardinality(Policies)] : \A p, q \in Policies : f[p] = f[q] => p = q
  /\ way # "update" => sameDisk /\ dpc[CHOOSE w \in Watchdogs : TRUE] = "loop"

ContainmentFlows == way = "containment" /\ DeviceNext /\ UNCHANGED <<way, policyVars, updateVars>>
PolicyFlows == way = "policy" /\ PolicyNext /\ UNCHANGED <<way, allVars, updateVars>>
UpdateFlows == way = "update" /\ UpdateNext /\ UNCHANGED <<way, allVars, policyVars>>

ControlNext == ContainmentFlows \/ PolicyFlows \/ UpdateFlows
ControlSpec == ControlInit /\ [][ControlNext]_controlVars
=============================================================================
