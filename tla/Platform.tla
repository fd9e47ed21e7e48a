------------------------------- MODULE Platform -------------------------------
(* The parts of the suite beside command delivery that share no state with each *)
(* other: detection, cases and their verification, the agents' certificates,    *)
(* the entity graph, the agent's sensors and the identities at the doors.       *)
(* A behaviour exercises one of them while the others rest.                     *)
EXTENDS Detection, Cases, Certificates, EntityGraph, AgentSensors, Identities

VARIABLE at   \* the part at work
platformVars == <<at, detectionVars, caseVars, certVars, graphVars, sensorVars, idVars>>

PlatformInit ==
  /\ at \in {"detection", "cases", "certificates", "graph", "sensors", "identities"}
  /\ CaseInit /\ (at # "cases" => cases = <<>> /\ cfg.kind = "device_status")
  /\ CertInit /\ (at # "certificates" => agent.token = CHOOSE t \in Tokens : TRUE) /\ (at # "certificates" => agent.pins = {""})
  /\ GraphInit
  /\ idPart \in (IF at = "identities" THEN {"tokens", "scim", "msp"} ELSE {"msp"}) /\ IdInit
  /\ sense \in (IF at = "sensors" THEN {"enforce"} \cup Trackers \cup Decisions ELSE {"fim"}) /\ SensorInit
  /\ part \in (IF at = "detection" THEN Parts ELSE {"bus"}) /\ DetectionInit

DetectionAtWork == at = "detection" /\ DetectionNext /\ UNCHANGED <<at, caseVars, certVars, graphVars, sensorVars, idVars>>
CasesAtWork == at = "cases" /\ CaseNext /\ UNCHANGED <<at, detectionVars, certVars, graphVars, sensorVars, idVars>>
CertificatesAtWork == at = "certificates" /\ CertNext /\ UNCHANGED <<at, detectionVars, caseVars, graphVars, sensorVars, idVars>>
GraphAtWork == at = "graph" /\ GraphNext /\ UNCHANGED <<at, detectionVars, caseVars, certVars, sensorVars, idVars>>
SensorsAtWork == at = "sensors" /\ SensorNext /\ UNCHANGED <<at, detectionVars, caseVars, certVars, graphVars, idVars>>
IdentitiesAtWork == at = "identities" /\ IdNext /\ UNCHANGED <<at, detectionVars, caseVars, certVars, graphVars, sensorVars>>

PlatformNext == DetectionAtWork \/ CasesAtWork \/ CertificatesAtWork \/ GraphAtWork \/ SensorsAtWork \/ IdentitiesAtWork
PlatformSpec == PlatformInit /\ [][PlatformNext]_platformVars

-----------------------------------------------------------------------------
\* Detection computes what its reference definitions say on every short input, concurrent events pass
\* the gates as the rules say, and nothing is lost, repeated or told to the wrong tenant between the
\* ingest door, the analysers and the consoles.
DetectionHolds == at = "detection" => AlgorithmsRight /\ NormalisationRight /\ GatesHold /\ PathsKeep
\* The entity graph's counters, budgets, tenants and paths agree with its edges.
GraphHolds == at = "graph" => GraphInvariant
\* What the agent's sensors tell, and what they switch on, is what happened and what was signed; who
\* gets in by an account or a token of the API gets no further than the tenant.
SensorsAndIdentitiesHold == (at = "sensors" => SensorInvariant) /\ (at = "identities" => IdentityInvariant)
\* Cases and certificates keep their own invariants, CaseInvariant and CertInvariant, at work and at rest.

\* What no step may do: lower a device's aggregate or a message's technique, miss a burst that was seen
\* whole, change cases of two tenants or shorten a time line, open the listeners without the list of
\* revoked certificates, keep an edge the sweep should have dropped, leave a blocked program running.
StepsKeep ==
  /\ AggregateGrows /\ GraverOnly /\ BurstsReported
  /\ CaseStaysInTenant /\ ListKnownAtStart /\ SweepForgets /\ EnforcementHolds
=============================================================================
