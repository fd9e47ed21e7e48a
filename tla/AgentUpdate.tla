------------------------------ MODULE AgentUpdate ------------------------------
(***************************************************************************)
(* Over-the-air update of the agent on ONE machine: the agent's            *)
(* checkUpdate and update.Prepare stage a signed binary, the watchdog's    *)
(* Supervisor.Run swaps it in between two runs of the agent and rolls back *)
(* a version that crashes on trial (agent/internal/watchdog, update), and  *)
(* the agent's PeerGuard starts a watchdog whose beacon went stale         *)
(* (agent/internal/liveness).                                              *)
(*                                                                         *)
(* A file is None, Torn (a copy that did not finish) or holds the bytes of *)
(* one version.  Every write to the file system is a step of its own, and  *)
(* the machine may lose power between any two.                             *)
(***************************************************************************)
EXTENDS Integers, FiniteSets

CONSTANTS
    MaxVersion, \* bound: versions 1 .. MaxVersion are released in this order
    Agents,     \* bound: agent processes that exist at the same time
    Watchdogs,  \* bound: watchdog processes that exist at the same time
    NoAgent

ASSUME VersionAssumption == MaxVersion \in Nat \ {0}
ASSUME ProcessAssumption == IsFiniteSet(Agents) /\ NoAgent \notin Agents

VARIABLES
    offered,    \* newest row of ota_releases
    sameDisk,   \* os.Rename from the staging directory to the binary works
    bin, bak,   \* the agent binary and binary.bak
    staged,     \* agent-staged
    marker,     \* agent-staged.version
    signed,     \* agent-staged.manifest and .sig: the version they vouch for
    running,    \* version each agent process runs; None when there is none
    prep,       \* how far an agent process is: starting up, idle or inside Prepare
    target,     \* TargetVersion of the manifest Prepare works on
    dpc,        \* where Supervisor.Run of a watchdog is; "off" when there is none
    onTrial,    \* onTrial of Supervisor.Run
    child,      \* the process Runner.Run waits for
    crashed,    \* what Runner.Run returned: "no", "late" or "quick" (in the window)
    standDown,  \* the offboard.standdown marker exists
    respawned,  \* history: PeerGuard has started a watchdog
    fresh       \* history: the binary was swapped in and has not finished a run

fileVars  == <<bin, bak, staged, marker, signed>>
agentVars == <<running, prep, target>>
dogVars   == <<dpc, onTrial, child, crashed>>
updateVars      == <<offered, sameDisk, standDown, fileVars, agentVars, dogVars, respawned, fresh>>

None == 0
Torn == -1
Versions == 1 .. MaxVersion
Contents == Versions \cup {None, Torn}
Steps == {"off", "loop", "verify", "discard", "backup", "backingUp", "install", "copying",
          "unlink", "clean", "start", "running", "exited", "rollback", "rollingBack"}

UpdateTypeOK ==
    /\ offered \in Versions
    /\ sameDisk \in BOOLEAN /\ standDown \in BOOLEAN
    /\ bin \in Contents \ {None} /\ bak \in Contents /\ staged \in Contents
    /\ marker \in Versions \cup {None} /\ signed \in Versions \cup {None}
    /\ running \in [Agents -> Versions \cup {None}]
    /\ prep \in [Agents -> {"boot", "no", "download", "marker", "signature"}]
    /\ target \in [Agents -> Versions \cup {None}]
    /\ dpc \in [Watchdogs -> Steps]
    /\ onTrial \in [Watchdogs -> BOOLEAN]
    /\ child \in [Watchdogs -> Agents \cup {NoAgent}]
    /\ \A w \in Watchdogs : dpc[w] = "running" <=> child[w] # NoAgent
    /\ crashed \in [Watchdogs -> {"no", "late", "quick"}]
    /\ respawned \in BOOLEAN /\ fresh \in BOOLEAN

UpdateInit ==
    /\ offered = 1
    /\ sameDisk \in BOOLEAN /\ standDown = FALSE
    /\ bin = 1 /\ bak = None /\ staged = None /\ marker = None /\ signed = None
    /\ running = [a \in Agents |-> None]
    /\ prep = [a \in Agents |-> "no"]
    /\ target = [a \in Agents |-> None]
    /\ \E w \in Watchdogs : dpc = [x \in Watchdogs |-> IF x = w THEN "loop" ELSE "off"]
    /\ onTrial = [w \in Watchdogs |-> FALSE]
    /\ child = [w \in Watchdogs |-> NoAgent]
    /\ crashed = [w \in Watchdogs |-> "no"]
    /\ respawned = FALSE /\ fresh = FALSE

-----------------------------------------------------------------------------
(* Server and agent *)

OfferRelease ==
    /\ offered < MaxVersion
    /\ offered' = offered + 1
    /\ UNCHANGED <<sameDisk, standDown, fileVars, agentVars, dogVars, respawned, fresh>>

\* No valid offboard token was given: PeerGuard and the heartbeat loop start.
Boot(a) ==
    /\ prep[a] = "boot"
    /\ prep' = [prep EXCEPT ![a] = "no"]
    /\ UNCHANGED <<offered, sameDisk, standDown, fileVars, running, target, dogVars, respawned, fresh>>

\* checkUpdate: a version other than ours that is not marked as staged already.
CheckUpdate(a) ==
    /\ running[a] # None /\ prep[a] = "no"
    /\ offered # running[a]
    /\ marker # offered
    /\ target' = [target EXCEPT ![a] = offered]
    /\ prep' = [prep EXCEPT ![a] = "download"]
    /\ UNCHANGED <<offered, sameDisk, standDown, fileVars, running, dogVars, respawned, fresh>>

\* Prepare: the verified payload is renamed into place ...
StageBinary(a) ==
    /\ prep[a] = "download"
    /\ staged' = target[a]
    /\ prep' = [prep EXCEPT ![a] = "marker"]
    /\ UNCHANGED <<offered, sameDisk, standDown, bin, bak, marker, signed, running, target, dogVars, respawned, fresh>>

\* ... then the version marker ...
StageMarker(a) ==
    /\ prep[a] = "marker"
    /\ marker' = target[a]
    /\ prep' = [prep EXCEPT ![a] = "signature"]
    /\ UNCHANGED <<offered, sameDisk, standDown, bin, bak, staged, signed, running, target, dogVars, respawned, fresh>>

\* ... and manifest and signature.
StageSignature(a) ==
    /\ prep[a] = "signature"
    /\ signed' = target[a]
    /\ prep' = [prep EXCEPT ![a] = "no"]
    /\ target' = [target EXCEPT ![a] = None]
    /\ UNCHANGED <<offered, sameDisk, standDown, bin, bak, staged, marker, running, dogVars, respawned, fresh>>

\* A download or a write fails: Prepare returns and leaves what it wrote.
PrepareFails(a) ==
    /\ prep[a] \in {"download", "marker", "signature"}
    /\ prep' = [prep EXCEPT ![a] = "no"]
    /\ target' = [target EXCEPT ![a] = None]
    /\ UNCHANGED <<offered, sameDisk, standDown, fileVars, running, dogVars, respawned, fresh>>

\* Process a ends; Runner.Run of the watchdog that waits for it returns.
Ends(a, how) ==
    /\ running[a] # None
    /\ running' = [running EXCEPT ![a] = None]
    /\ prep' = [prep EXCEPT ![a] = "no"]
    /\ target' = [target EXCEPT ![a] = None]
    /\ dpc' = [w \in Watchdogs |-> IF child[w] = a THEN "exited" ELSE dpc[w]]
    /\ crashed' = [w \in Watchdogs |-> IF child[w] = a THEN how ELSE crashed[w]]
    /\ child' = [w \in Watchdogs |-> IF child[w] = a THEN NoAgent ELSE child[w]]
    /\ UNCHANGED <<offered, sameDisk, fileVars, onTrial, respawned, fresh>>

\* A clean exit, a crash inside the trial window or a later one.
AgentExits(a, how) == Ends(a, how) /\ UNCHANGED standDown

\* checkOffboard finds a valid token at start-up: standdown.Write, then the agent
\* returns.
Offboard(a) == prep[a] = "boot" /\ standDown' = TRUE /\ Ends(a, "no")

\* PeerGuard.Run: the watchdog's beacon is stale, because it died or because the
\* machine was suspended and the guard woke up first, so start another one.
SpawnWatchdog(a, w) ==
    /\ running[a] # None /\ prep[a] # "boot"
    /\ dpc[w] = "off"
    /\ dpc' = [dpc EXCEPT ![w] = "loop"]
    /\ respawned' = TRUE
    /\ UNCHANGED <<offered, sameDisk, standDown, fileVars, agentVars, onTrial, child, crashed, fresh>>

-----------------------------------------------------------------------------
(* Watchdog: Supervisor.Run *)

Goto(w, step) == dpc' = [dpc EXCEPT ![w] = step]
StepOnly == UNCHANGED <<offered, sameDisk, standDown, agentVars, onTrial, child, crashed, respawned, fresh>>

\* The stand-down marker ends the supervision; otherwise PendingStaged.
Loop(w) ==
    /\ dpc[w] = "loop"
    /\ Goto(w, IF standDown THEN "off" ELSE IF staged # None THEN "verify" ELSE "start")
    /\ StepOnly /\ UNCHANGED fileVars

\* Mutant: VerifyStaged trusts Prepare.
VerifyNothing == TRUE

\* VerifyStaged: the signature vouches for the bytes that are there.
Verified == signed # None /\ signed = staged

\* Swap, first part.
Verify(w) ==
    /\ dpc[w] = "verify"
    /\ Goto(w, IF Verified THEN "backup" ELSE "discard")
    /\ staged' = IF Verified THEN staged ELSE None
    /\ StepOnly /\ UNCHANGED <<bin, bak, marker, signed>>

\* The rejected update's other files are removed; Swap returns an error.
Discard(w) ==
    /\ dpc[w] = "discard"
    /\ marker' = None /\ signed' = None
    /\ Goto(w, "start")
    /\ StepOnly /\ UNCHANGED <<bin, bak, staged>>

\* copyFile(binary, binary.bak) truncates its target first.
Backup(w) ==
    /\ dpc[w] = "backup"
    /\ bak' = Torn
    /\ Goto(w, "backingUp")
    /\ StepOnly /\ UNCHANGED <<bin, staged, marker, signed>>

BackupDone(w) ==
    /\ dpc[w] = "backingUp"
    /\ bak' = bin
    /\ Goto(w, "install")
    /\ StepOnly /\ UNCHANGED <<bin, staged, marker, signed>>

\* Some agent still executes the binary.
Busy == \E a \in Agents : running[a] # None

\* os.Rename, or the start of copyFile onto the binary.  If the staged file is gone
\* both fail and Swap returns an error; so they do on a binary being executed
\* where the system forbids it (Windows; a write, but not a rename, on Linux).
Install(w) ==
    /\ dpc[w] = "install"
    /\ \/ /\ staged # None /\ sameDisk
          /\ bin' = staged /\ staged' = None /\ fresh' = TRUE
          /\ onTrial' = [onTrial EXCEPT ![w] = TRUE]
          /\ Goto(w, "clean")
       \/ /\ staged # None /\ ~sameDisk /\ ~Busy
          /\ bin' = Torn
          /\ Goto(w, "copying")
          /\ UNCHANGED <<staged, fresh, onTrial>>
       \/ /\ staged = None \/ Busy
          /\ Goto(w, "start")
          /\ UNCHANGED <<bin, staged, fresh, onTrial>>
    /\ UNCHANGED <<offered, sameDisk, standDown, bak, marker, signed, agentVars, child, crashed, respawned>>

\* The copy is complete; os.Remove(staged) follows.
CopyDone(w) ==
    /\ dpc[w] = "copying" /\ staged # None
    /\ bin' = staged
    /\ fresh' = TRUE
    /\ onTrial' = [onTrial EXCEPT ![w] = TRUE]
    /\ Goto(w, "unlink")
    /\ UNCHANGED <<offered, sameDisk, standDown, bak, staged, marker, signed, agentVars, child, crashed, respawned>>

Unlink(w) ==
    /\ dpc[w] = "unlink"
    /\ staged' = None
    /\ Goto(w, "clean")
    /\ StepOnly /\ UNCHANGED <<bin, bak, marker, signed>>

Clean(w) ==
    /\ dpc[w] = "clean"
    /\ marker' = None /\ signed' = None
    /\ Goto(w, "start")
    /\ StepOnly /\ UNCHANGED <<bin, bak, staged>>

\* A copy fails half way (disk full, or the source vanished): Swap or Rollback
\* returns an error and leaves the truncated target.
CopyFails(w) ==
    /\ dpc[w] \in {"backingUp", "copying", "rollingBack"}
    /\ Goto(w, IF dpc[w] = "rollingBack" THEN "loop" ELSE "start")
    /\ onTrial' = [onTrial EXCEPT ![w] = FALSE]
    /\ UNCHANGED <<offered, sameDisk, standDown, fileVars, agentVars, child, crashed, respawned, fresh>>

\* Mutant: the agent does not look for the marker when it starts.
StaysDownIgnored == FALSE

\* The agent returns at once when it finds the marker.
StaysDown == standDown

\* Runner.Run starts the binary; a torn one fails at once.
Start(w) ==
    /\ dpc[w] = "start"
    /\ \/ /\ bin = Torn \/ StaysDown
          /\ Goto(w, "exited")
          /\ crashed' = [crashed EXCEPT ![w] = IF bin = Torn THEN "quick" ELSE "no"]
          /\ UNCHANGED <<running, prep, child>>
       \/ /\ bin # Torn /\ ~StaysDown
          /\ \E a \in Agents : /\ running[a] = None
                               /\ running' = [running EXCEPT ![a] = bin]
                               /\ prep' = [prep EXCEPT ![a] = "boot"]
                               /\ child' = [child EXCEPT ![w] = a]
          /\ Goto(w, "running")
          /\ UNCHANGED crashed
    /\ UNCHANGED <<offered, sameDisk, standDown, fileVars, target, onTrial, respawned, fresh>>

\* Mutant: a crash at any time rolls back, on trial or not.
RollsBackAlways(w) == crashed[w] = "quick"

\* if onTrial && ran < trialWindow.
RollsBack(w) == crashed[w] = "quick" /\ onTrial[w]

\* After Runner.Run: onTrial is cleared on every path.
Exited(w) ==
    /\ dpc[w] = "exited"
    /\ Goto(w, IF RollsBack(w) THEN "rollback" ELSE "loop")
    /\ onTrial' = [onTrial EXCEPT ![w] = FALSE]
    /\ crashed' = [crashed EXCEPT ![w] = "no"]
    /\ fresh' = FALSE
    /\ UNCHANGED <<offered, sameDisk, standDown, fileVars, agentVars, child, respawned>>

\* Rollback fails without a backup, or on a binary another agent executes, unless
\* that agent's file was renamed away; otherwise it copies over the binary.
Rollback(w) ==
    /\ dpc[w] = "rollback"
    /\ \/ /\ bak # None /\ (sameDisk \/ ~Busy)
          /\ bin' = Torn
          /\ Goto(w, "rollingBack")
       \/ /\ bak = None \/ Busy
          /\ Goto(w, "loop")
          /\ UNCHANGED bin
    /\ StepOnly /\ UNCHANGED <<bak, staged, marker, signed>>

RollbackDone(w) ==
    /\ dpc[w] = "rollingBack"
    /\ bin' = bak
    /\ Goto(w, "loop")
    /\ StepOnly /\ UNCHANGED <<bak, staged, marker, signed>>

-----------------------------------------------------------------------------
(* Failures *)

\* A watchdog is killed; the agent it started lives on.
WatchdogDies(w) ==
    /\ dpc[w] # "off"
    /\ Goto(w, "off")
    /\ onTrial' = [onTrial EXCEPT ![w] = FALSE]
    /\ child' = [child EXCEPT ![w] = NoAgent]
    /\ crashed' = [crashed EXCEPT ![w] = "no"]
    /\ UNCHANGED <<offered, sameDisk, standDown, fileVars, agentVars, respawned, fresh>>

\* The machine stops and boots: the service manager starts one watchdog.  The
\* staged file was renamed without a sync and may be torn.
PowerLoss(w, lost) ==
    /\ staged' = IF lost /\ staged # None THEN Torn ELSE staged
    /\ running' = [a \in Agents |-> None]
    /\ prep' = [a \in Agents |-> "no"]
    /\ target' = [a \in Agents |-> None]
    /\ dpc' = [x \in Watchdogs |-> IF x = w THEN "loop" ELSE "off"]
    /\ onTrial' = [x \in Watchdogs |-> FALSE]
    /\ child' = [x \in Watchdogs |-> NoAgent]
    /\ crashed' = [x \in Watchdogs |-> "no"]
    /\ UNCHANGED <<offered, sameDisk, standDown, bin, bak, marker, signed, respawned, fresh>>

UpdateNext ==
    \/ OfferRelease
    \/ \E a \in Agents :
          \/ Boot(a) \/ CheckUpdate(a) \/ StageBinary(a) \/ StageMarker(a) \/ StageSignature(a)
          \/ PrepareFails(a) \/ Offboard(a)
          \/ \E how \in {"no", "late", "quick"} : AgentExits(a, how)
          \/ \E w \in Watchdogs : SpawnWatchdog(a, w)
    \/ \E w \in Watchdogs :
          \/ Loop(w) \/ Verify(w) \/ Discard(w) \/ Backup(w) \/ BackupDone(w)
          \/ Install(w) \/ CopyDone(w) \/ Unlink(w) \/ Clean(w) \/ CopyFails(w)
          \/ Start(w) \/ Exited(w) \/ Rollback(w) \/ RollbackDone(w)
          \/ WatchdogDies(w)
          \/ \E lost \in BOOLEAN : PowerLoss(w, lost)

UpdateSpec == UpdateInit /\ [][UpdateNext]_updateVars

-----------------------------------------------------------------------------
(* Properties *)

\* A staged file that a power loss tore is never installed, however many watchdogs
\* and agents are at work.
NoTornInstall ==
    [][\A w \in Watchdogs : dpc[w] = "install" /\ dpc'[w] = "clean" => bin' # Torn]_updateVars

\* As long as PeerGuard never started a watchdog, what an install puts in place
\* are the very bytes VerifyStaged accepted and never an older version than the
\* one it replaces, whatever power losses, kills and failed copies intervene.
SoundWithoutRespawn ==
    [][\A w \in Watchdogs :
         ~respawned /\ dpc[w] \in {"install", "copying"} /\ dpc'[w] \in {"clean", "unlink"}
           => bin' = signed /\ bak <= bin']_updateVars

\* A rollback undoes an install: as long as PeerGuard never started a watchdog, no
\* binary that has already finished a run is exchanged for the backup.
RollbackOnlyOnTrial ==
    [][\A w \in Watchdogs :
         ~respawned /\ dpc[w] = "exited" /\ dpc'[w] = "rollback" => fresh]_updateVars

\* After an offboarding no agent starts to work, although a watchdog may be between
\* its look at the marker and Runner.Run.
OffboardIsFinal ==
    [][standDown => \A a \in Agents : running[a] = None => running'[a] = None]_updateVars
=============================================================================
