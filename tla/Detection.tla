------------------------------ MODULE Detection ------------------------------
(* The detection side of the server: what normalisation and the algorithms      *)
(* compute, the stateful gates an alert passes, and the paths an event takes     *)
(* to and from them.  The parts share no state; a behaviour exercises one.       *)
EXTENDS LogIngest, Gates, IngestPath

VARIABLE part   \* the part at work
detectionVars == <<part, analyticsVars, gateVars, chainVars, pathVars>>

Parts == {"algorithm", "normalise", "gates", "chain", "ingest", "analyser", "bus"}

DetectionInit ==
  /\ part \in Parts /\ input = <<>> /\ GatesInit /\ ChainInit /\ IngInit /\ ScanInit /\ LiveInit
  /\ algo \in CASE part = "algorithm" -> Algorithms [] part = "normalise" -> DOMAIN SentOf [] OTHER -> {"none"}
  /\ part # "ingest" => ing.dlq /\ ing.dedup
  /\ part # "analyser" => scan.lookup = "" /\ scan.stamps = {} /\ scan.enforce /\ scan.every = 1 /\ scan.loop = "dns"

AlgorithmPart == part = "algorithm" /\ AnalyticsNext /\ UNCHANGED <<part, gateVars, chainVars, pathVars>>
NormalisePart == part = "normalise" /\ Receive /\ UNCHANGED <<part, gateVars, chainVars, pathVars>>
GatesPart == part = "gates" /\ GatesNext /\ UNCHANGED <<part, analyticsVars, pathVars>>
ChainPart == part = "chain" /\ ChainNext /\ UNCHANGED <<part, analyticsVars, pathVars>>
IngestPart == part = "ingest" /\ IngNext /\ UNCHANGED <<part, analyticsVars, gateVars, chainVars, scan, live>>
AnalyserPart == part = "analyser" /\ ScanNext /\ UNCHANGED <<part, analyticsVars, gateVars, chainVars, ing, live>>
BusPart == part = "bus" /\ LiveNext /\ UNCHANGED <<part, analyticsVars, gateVars, chainVars, ing, scan>>

DetectionNext == AlgorithmPart \/ NormalisePart \/ GatesPart \/ ChainPart \/ IngestPart \/ AnalyserPart \/ BusPart
DetectionSpec == DetectionInit /\ [][DetectionNext]_detectionVars

\* Each part's state keeps its shape; the bounded tables stay within their bounds.
DetectionTypeOK ==
  /\ part \in Parts /\ hits <= MaxHits /\ gateClock <= MaxGateClock
  /\ \A h \in Handlers : job[h].pc \in {"idle", "set", "count", "corr", "store"}
  /\ DOMAIN open \subseteq Detections /\ \A k \in DOMAIN ctr : ctr[k].hits < RuleCount[k[1]]
  /\ Len(ing.queue) <= QueueMax /\ ing.batch \subseteq Records /\ ing.answer \in {0, 1, 200, 500}
  /\ \A s \in Subs : Len(live.sub[s].buf) <= BusCap

\* What matching, sequences, indicators, bursts, beacons, tunnels, administrators, scores, fusion and
\* the rule registry compute is what their reference definitions say, on every short input.
AlgorithmsRight ==
  part = "algorithm" =>
  /\ MatcherRight /\ SequenceRight /\ PrefilterInvisible /\ IndicatorsRight /\ BurstsRight /\ BeaconsRight
  /\ TunnelsRight /\ AdminsRight /\ ScoresRise /\ FusionExplains /\ VersionsKept
\* A log line keeps its number, source, severity and tenant, and a repeated line its identity, in every
\* format and however a batch is cut.
NormalisationRight ==
  part = "normalise" => BatchesAddUp /\ RetryKnownByTime /\ SourceStamped /\ SeverityFollowsNumber /\ WinlogSteady /\ TenantsApart
\* Concurrent events pass the gates as the rules say: bits that must be set were, a threshold counts a hit
\* once, two alerts are a window apart, a chain fires once.
GatesHold == part \in {"gates", "chain"} => BitsGateHolds /\ HitsCountOnce /\ AlertsApart /\ ChainsFireOnce
\* From the ingest door to the store, the analysers and the consoles nothing is lost, processed twice or
\* told to the wrong tenant, and every bounded table stays within its bound.
PathsKeep == DetectionTypeOK /\ IngestKeeps /\ ProcessedOnce /\ FindingsOnceInTenant /\ ConsolesIndependent
=============================================================================
