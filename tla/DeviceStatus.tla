---------------------------- MODULE DeviceStatus ----------------------------
(***************************************************************************)
(* The quarantine of ONE device from the console to its firewall, on top   *)
(* of CommandDelivery: the status column the console shows (admin command, *)
(* AutoQuarantine, ApplyCommandResults, MarkStaleOffline, TouchHeartbeat), *)
(* the agent's quarantine.Manager and the operating system's firewall.     *)
(*                                                                         *)
(* Every action of CommandDelivery is conjoined with what the same code    *)
(* does to the variables below.                                            *)
(***************************************************************************)
EXTENDS CommandDelivery

CONSTANTS
    TypeOf,     \* type of each command; the other types touch nothing below
    Platform    \* "windows" (netsh) or "linux" (iptables): which Isolator is built

ASSUME TypeOfAssumption == TypeOf \in [Cmds -> {"QUARANTINE", "UNQUARANTINE"}]
ASSUME PlatformAssumption == Platform \in {"windows", "linux"}

VARIABLES
    status,     \* devices.status
    toReflect,  \* admin calls between EnqueueCommand and SetDeviceStatus
    results,    \* cmdlog.results (memory only)
    hbResults,  \* CommandResults of the request in progress
    active,     \* quarantine.Manager.active (memory only)
    firewall,   \* "open", "isolated" (C2 only) or "cut" (not even C2)
    succeeded   \* history: commands whose execution reported success

deviceVars == <<status, toReflect, results, hbResults, active, firewall, succeeded>>
allVars == <<vars, deviceVars>>
Statuses == {"ACTIVE", "OFFLINE", "QUARANTINE_PENDING", "QUARANTINED"}
Contained == {"QUARANTINE_PENDING", "QUARANTINED"}
Result(c, ok) == [id |-> c, ok |-> ok]
Quarantines == {c \in Cmds : TypeOf[c] = "QUARANTINE"}
Releases == {c \in Cmds : TypeOf[c] = "UNQUARANTINE"}

DeviceTypeOK ==
    /\ TypeOK
    /\ status \in Statuses
    /\ toReflect \subseteq Cmds
    /\ results \subseteq [id : Cmds, ok : BOOLEAN]
    /\ hbResults \subseteq [id : Cmds, ok : BOOLEAN]
    /\ active \in BOOLEAN
    /\ firewall \in {"open", "isolated", "cut"}
    /\ succeeded \subseteq Cmds

DeviceInit ==
    /\ Init
    /\ status = "ACTIVE" /\ toReflect = {}
    /\ results = {} /\ hbResults = {}
    /\ active = FALSE /\ firewall = "open" /\ succeeded = {}

-----------------------------------------------------------------------------
(* Server *)

\* Service.command and AutoQuarantine: enqueue first, the status write follows.
IssueCommand(c) ==
    /\ EnqueueCommand(c)
    /\ toReflect' = toReflect \cup {c}
    /\ UNCHANGED <<status, results, hbResults, active, firewall, succeeded>>

\* Mutant: the desired status is shown as the effective one.
ReflectedStatusEager(c) == IF TypeOf[c] = "QUARANTINE" THEN "QUARANTINED" ELSE "ACTIVE"

ReflectedStatus(c) == IF TypeOf[c] = "QUARANTINE" THEN "QUARANTINE_PENDING" ELSE "ACTIVE"

\* SetDeviceStatus(reflectStatus); its error is ignored.
ReflectStatus(c, ok) ==
    /\ c \in toReflect
    /\ toReflect' = toReflect \ {c}
    /\ status' = IF ok THEN ReflectedStatus(c) ELSE status
    /\ UNCHANGED <<vars, results, hbResults, active, firewall, succeeded>>

\* Mutant: the sweep does not spare quarantined devices.
MarkStaleOfflineAny ==
    /\ status # "OFFLINE"
    /\ status' = "OFFLINE"
    /\ UNCHANGED <<vars, toReflect, results, hbResults, active, firewall, succeeded>>

\* The stale-device sweep.
MarkStaleOffline ==
    /\ status = "ACTIVE"
    /\ status' = "OFFLINE"
    /\ UNCHANGED <<vars, toReflect, results, hbResults, active, firewall, succeeded>>

\* The request reaches the server: TouchHeartbeat, then AckCommands.
TouchAndAck(ok) ==
    /\ firewall # "cut"
    /\ AckCommands(ok)
    /\ status' = IF status = "OFFLINE" THEN "ACTIVE" ELSE status
    /\ UNCHANGED <<toReflect, results, hbResults, active, firewall, succeeded>>

EffectiveStatus(c) == IF TypeOf[c] = "QUARANTINE" THEN "QUARANTINED" ELSE "ACTIVE"

\* One UPDATE per successful quarantine result, in the order of a Go map; an
\* error ends the loop and is dropped.
ApplyResults(ok) ==
    /\ ApplyCommandResults
    /\ LET done == {r.id : r \in {x \in hbResults : x.ok}}
       IN  IF ok /\ done # {}
             THEN \E last \in done : status' = EffectiveStatus(last)
             ELSE status' \in {status} \cup {EffectiveStatus(c) : c \in done}
    /\ UNCHANGED <<toReflect, results, hbResults, active, firewall, succeeded>>

Deliver == PendingCommands /\ UNCHANGED deviceVars

-----------------------------------------------------------------------------
(* Agent *)

Beat ==
    /\ Heartbeat
    /\ hbResults' = results
    /\ UNCHANGED <<status, toReflect, results, active, firewall, succeeded>>

\* ConfirmResults(ids of the request).
Confirm ==
    /\ ReceiveReply
    /\ results' = {r \in results : \A s \in hbResults : s.id # r.id}
    /\ hbResults' = {}
    /\ UNCHANGED <<status, toReflect, active, firewall, succeeded>>

BeatFails ==
    /\ HeartbeatFails
    /\ hbResults' = {}
    /\ UNCHANGED <<status, toReflect, results, active, firewall, succeeded>>

\* Where the firewall may be left by an Isolate that returns an error: netsh
\* blocks everything before it allows C2; iptables flushes the chain first.
FailedIsolate ==
    {firewall} \cup (CASE Platform = "windows" -> {IF firewall = "open" THEN "cut" ELSE firewall}
                       [] Platform = "linux" -> {IF firewall = "isolated" THEN "open" ELSE firewall})

\* Manager.Apply and queueResult.
Apply(c) ==
    /\ TypeOf[c] = "QUARANTINE"
    /\ Execute(c)
    /\ \E ok \in IF active THEN {TRUE} ELSE BOOLEAN :
          /\ firewall' \in IF active THEN {firewall}
                           ELSE IF ok THEN {"isolated"} ELSE FailedIsolate
          /\ active' = (active \/ ok)
          /\ results' = {r \in results : r.id # c} \cup {Result(c, ok)}
          /\ succeeded' = IF ok THEN succeeded \cup {c} ELSE succeeded
    /\ UNCHANGED <<status, toReflect, hbResults>>

\* Isolator.Release: netsh reports a failure to restore the policy; the iptables
\* variant drops every error and always returns nil.
ReleaseOutcomes ==
    IF Platform = "windows"
      THEN {[ok |-> TRUE, fw |-> "open"], [ok |-> FALSE, fw |-> firewall]}
      ELSE {[ok |-> TRUE, fw |-> "open"], [ok |-> TRUE, fw |-> firewall]}

\* Manager.Release and queueResult: nothing is done unless active is set.
Release(c) ==
    /\ TypeOf[c] = "UNQUARANTINE"
    /\ Execute(c)
    /\ \E out \in IF active THEN ReleaseOutcomes ELSE {[ok |-> TRUE, fw |-> firewall]} :
          /\ firewall' = out.fw
          /\ active' = (active /\ ~out.ok)
          /\ results' = {r \in results : r.id # c} \cup {Result(c, out.ok)}
          /\ succeeded' = IF out.ok THEN succeeded \cup {c} ELSE succeeded
    /\ UNCHANGED <<status, toReflect, hbResults>>

SkipKnown(c) == SkipExecuted(c) /\ UNCHANGED deviceVars
RecordAck(saved) == Record(saved) /\ UNCHANGED deviceVars

\* The firewall outlives the agent; the queued results and the active flag do not.
AgentDies(fileLost) ==
    /\ Crash(fileLost)
    /\ results' = {} /\ hbResults' = {} /\ active' = FALSE
    /\ UNCHANGED <<status, toReflect, firewall, succeeded>>

\* NewManager starts with active = FALSE and does not look at the firewall.
AgentStarts == Open /\ UNCHANGED deviceVars

TimePasses == Tick /\ UNCHANGED deviceVars

DeviceNext ==
    \/ \E c \in Cmds : IssueCommand(c) \/ SkipKnown(c) \/ Apply(c) \/ Release(c)
    \/ \E c \in Cmds, ok \in BOOLEAN : ReflectStatus(c, ok)
    \/ \E ok \in BOOLEAN : TouchAndAck(ok) \/ ApplyResults(ok) \/ RecordAck(ok) \/ AgentDies(ok)
    \/ MarkStaleOffline \/ Deliver
    \/ Beat \/ Confirm \/ BeatFails
    \/ AgentStarts \/ TimePasses

DeviceSpec == DeviceInit /\ [][DeviceNext]_allVars

-----------------------------------------------------------------------------
(* Properties *)

\* The console never claims an isolation no agent reported: QUARANTINED is shown
\* only if some QUARANTINE command succeeded on the device (QuarantineDevice).
QuarantinedWasReported == status = "QUARANTINED" => Quarantines \cap succeeded # {}

\* The stale-device sweep and the next heartbeat together never turn a
\* (pending) quarantine back to ACTIVE: that takes a release command.
OnlyReleaseEndsQuarantine ==
    [][(status \in Contained /\ status' \notin Contained) => Releases \cap Rows # {}]_allVars

\* manager.go: Release removes the isolation; a successful one leaves none.
ReleaseReleases ==
    [][\A c \in Releases : c \in succeeded' \ succeeded => firewall' = "open"]_allVars
=============================================================================
