---------------------------- MODULE SecurityFabric ----------------------------
(* The security contracts side by side.  They share no state, so a behaviour   *)
(* exercises one of them: trust statements and envelopes, grants and intents,  *)
(* limits and replay guards, decisions and life cycles, the graphs of the AI   *)
(* agents, or the wire codec.                                                  *)
EXTENDS TrustChain, Contracts, Limits, Access, AgentSecurity

CONSTANT MaxWire      \* cells of a parameter block
ASSUME FabricAssumption == MaxWire \in Nat

VARIABLES part,  \* the contract at work
          wire   \* bytes that reach ParseParams
fabricVars == <<part, wire, trustVars, contractVars, limitVars, accessVars, agentVars>>

Parts == {"trust", "contract", "limit", "access", "agents", "codec"}

FabricInit ==
  /\ part \in Parts /\ TrustInit /\ ContractInit /\ LimitInit /\ AccessInit /\ AgentInit
  /\ part # "trust" => pins = {}
  /\ part # "limit" => guard = "limiter"
  /\ part # "access" => life.table = "command"
  /\ part # "agents" => agCase = "console"
  /\ wire = IF part = "codec" THEN appendLP(<<>>, DomainParamsV2) ELSE <<>>

TrustPart == part = "trust" /\ TrustNext /\ UNCHANGED <<part, wire, contractVars, limitVars, accessVars, agentVars>>
ContractPart == part = "contract" /\ ContractNext /\ UNCHANGED <<part, wire, trustVars, limitVars, accessVars, agentVars>>
LimitPart == part = "limit" /\ LimitNext /\ UNCHANGED <<part, wire, trustVars, contractVars, accessVars, agentVars>>
AccessPart == part = "access" /\ AccessNext /\ UNCHANGED <<part, wire, trustVars, contractVars, limitVars, agentVars>>
AgentPart == part = "agents" /\ AgentNext /\ UNCHANGED <<part, wire, trustVars, contractVars, limitVars, accessVars>>
\* The peer may send any bytes.
CodecPart ==
  /\ part = "codec" /\ Len(wire) < MaxWire /\ \E c \in 0..2 : wire' = Append(wire, c)
  /\ UNCHANGED <<part, trustVars, contractVars, limitVars, accessVars, agentVars>>

FabricNext == TrustPart \/ ContractPart \/ LimitPart \/ AccessPart \/ AgentPart \/ CodecPart
FabricSpec == FabricInit /\ [][FabricNext]_fabricVars

\* There is one encoding: bytes that ParseParams accepts are the bytes EncodeParams writes for
\* what it read, so two byte strings never stand for the same signed parameters.
OneEncoding == LET p == ParseParams(wire) IN p.ok => EncodeParams(p.out) = wire

\* A receiver trusts what the roots published and runs what they ordered, in whatever order statements
\* and envelopes arrive beside forged ones, and no statement leaves it stuck.
TrustHolds == part = "trust" => OnlyPublishedTrust /\ NeverStuck /\ WholeChainAgrees /\ RanWasOrdered

\* A grant is used once, an intent exists only for a grant that covered it, and the rate of a capability
\* holds, with executors, policy changes and time passing between each check and each use.
GrantsHold == part = "contract" => GrantedOnce /\ IntentWasGranted /\ RateHolds

\* Tables that forget behave like ones that do not, the limits hold over every window, what may pass
\* once passes once, and slots are neither lost nor invented.
LimitsHold == part = "limit" => ForgettingIsInvisible /\ WithinRate /\ AcceptedOnce /\ ReplayNeedsSweep /\ AdaptiveSound

\* Gates are closed unless somebody opened them, and signed parameters have one encoding.
GatesHold ==
  /\ part = "access" => ClosedByDefault
  /\ part = "codec" => OneEncoding

\* Reports of AI agents count once, in order and for their own tenant only, and the chains found are
\* exactly those from a credential over a distrusted agent to an external sink.
AgentsHold == part = "agents" => AgentInvariant

\* What no step may undo: a denial by a later rule, a final state of a life cycle by any event.
DecisionsStand == DenyIsFinal /\ NoWayBack
=============================================================================
