---------------------------- MODULE AgentUpdateProofs ---------------------------
(***************************************************************************)
(* Updates, rollbacks and offboarding for any number of releases and any   *)
(* sets of agent and watchdog processes: no torn file is installed, an     *)
(* offboarded machine starts no agent, and while one watchdog is alone it  *)
(* installs what it verified and rolls back only what it installed.        *)
(***************************************************************************)
EXTENDS AgentUpdate, TLAPS

\* Every version anybody knows was released.  Whoever stages a file is a running
\* agent, and what is rolled back to exists.
FileInv ==
    /\ bin <= offered /\ bak <= offered /\ staged <= offered
    /\ \A a \in Agents : target[a] <= offered
    /\ \A a \in Agents : prep[a] # "no" => running[a] # None
    /\ \A a \in Agents : prep[a] \in {"download", "marker", "signature"} => target[a] # None
    /\ \A w \in Watchdogs : dpc[w] = "rollingBack" => bak # None

\* What passed VerifyStaged is no torn file, whoever replaces it afterwards.
VerifiedInv == \A w \in Watchdogs : dpc[w] \in {"backup", "backingUp", "install"} => staged # Torn

\* onTrial is set between an install and the end of the run that follows it.
TrialInv == \A w \in Watchdogs : onTrial[w] => dpc[w] \in {"unlink", "clean", "start", "running", "exited"}

\* What a watchdog that shares the machine with no other one can rely on.
AloneInv == ~respawned =>
    /\ \A w, x \in Watchdogs : dpc[w] # "off" /\ dpc[x] # "off" => w = x
    /\ \A w \in Watchdogs :
         /\ onTrial[w] => fresh
         /\ dpc[w] # "off" => \A a \in Agents : running[a] # None => child[w] = a
         /\ dpc[w] \in {"backup", "backingUp", "install", "copying"} => staged = signed /\ signed # None
    /\ staged \in Versions => bin <= staged /\ bak <= staged
    /\ \A a \in Agents : prep[a] \in {"download", "marker", "signature"} => bin <= target[a] /\ bak <= target[a]

UpdateInv == UpdateTypeOK /\ FileInv /\ VerifiedInv /\ TrialInv /\ AloneInv

-----------------------------------------------------------------------------
LEMMA VersionTypes ==
    /\ Contents \subseteq Int /\ Versions \subseteq Nat \ {0} /\ None \notin Versions /\ Torn \notin Versions
    /\ None = 0 /\ Torn = -1 /\ None \in Contents /\ Torn \in Contents /\ Versions \subseteq Contents
    /\ \A v \in Contents : v <= 0 \/ v \in Versions
    /\ 1 \in Versions
  BY VersionAssumption DEF Contents, Versions, None, Torn

LEMMA InitUpdateInv == UpdateInit => UpdateInv
  <1> SUFFICES ASSUME UpdateInit PROVE UpdateInv
    OBVIOUS
  <1> USE VersionTypes, ProcessAssumption DEF UpdateInit
  <1>1. UpdateTypeOK
    <2>1. dpc \in [Watchdogs -> Steps] /\ \A w \in Watchdogs : dpc[w] # "running" /\ child[w] = NoAgent
      BY DEF Steps
    <2> QED
      BY <2>1 DEF UpdateTypeOK
  <1>2. FileInv /\ VerifiedInv /\ TrialInv
    <2>1. \A w \in Watchdogs : dpc[w] \in {"loop", "off"}
      OBVIOUS
    <2> QED
      BY <2>1 DEF FileInv, VerifiedInv, TrialInv
  <1>3. AloneInv
    <2>1. \A w \in Watchdogs : dpc[w] \in {"loop", "off"}
      OBVIOUS
    <2>2. \A w, x \in Watchdogs : dpc[w] # "off" /\ dpc[x] # "off" => w = x
      OBVIOUS
    <2> QED
      BY <2>1, <2>2 DEF AloneInv
  <1> QED
    BY <1>1, <1>2, <1>3 DEF UpdateInv

\* While an agent runs, a lone watchdog waits for it.
LEMMA WaitsForAgent ==
    ASSUME UpdateInv, ~respawned, NEW a \in Agents, running[a] # None
    PROVE  \A w \in Watchdogs : dpc[w] \in {"off", "running"}
  BY ProcessAssumption DEF UpdateInv, UpdateTypeOK, AloneInv

\* Agent steps write files of the staging directory and their own state only.
LEMMA PrepareUpdateInv ==
    ASSUME UpdateInv, NEW a \in Agents,
           Boot(a) \/ CheckUpdate(a) \/ StageBinary(a) \/ StageMarker(a) \/ StageSignature(a) \/ PrepareFails(a)
    PROVE  UpdateInv'
  <1> USE VersionTypes, ProcessAssumption DEF UpdateInv
  <1>1. /\ UNCHANGED <<offered, sameDisk, standDown, bin, bak, running, dpc, onTrial, child, crashed, respawned, fresh>>
        /\ prep[a] # "no" \/ running[a] # None
    BY DEF Boot, CheckUpdate, StageBinary, StageMarker, StageSignature, PrepareFails, fileVars, dogVars
  <1>2. running[a] # None
    BY <1>1 DEF FileInv
  <1>3. PICK p \in {"no", "download", "marker", "signature"}, t \in Versions \cup {None} :
          /\ prep' = [prep EXCEPT ![a] = p] /\ target' = [target EXCEPT ![a] = t]
          /\ p = "download" => t = offered
          /\ t \in {None, offered, target[a]}
          /\ p \in {"marker", "signature"} => t = target[a] /\ prep[a] \in {"download", "marker"}
    <2>1. target = [target EXCEPT ![a] = target[a]] /\ target[a] \in Versions \cup {None} /\ offered \in Versions
      BY DEF UpdateTypeOK
    <2>2. CASE Boot(a)
      BY <2>1, <2>2 DEF Boot
    <2>3. CASE CheckUpdate(a)
      BY <2>1, <2>3 DEF CheckUpdate
    <2>4. CASE StageBinary(a)
      BY <2>1, <2>4 DEF StageBinary
    <2>5. CASE StageMarker(a)
      BY <2>1, <2>5 DEF StageMarker
    <2>6. CASE StageSignature(a) \/ PrepareFails(a)
      BY <2>1, <2>6 DEF StageSignature, PrepareFails
    <2> QED
      BY <2>2, <2>3, <2>4, <2>5, <2>6
  <1>4. /\ prep'[a] = p /\ target'[a] = t
        /\ \A x \in Agents \ {a} : prep'[x] = prep[x] /\ target'[x] = target[x]
    BY <1>3 DEF UpdateTypeOK
  <1>5. staged' = staged \/ (prep[a] = "download" /\ staged' = target[a] /\ target[a] \in Versions)
    BY DEF Boot, CheckUpdate, StageBinary, StageMarker, StageSignature, PrepareFails, fileVars, FileInv, UpdateTypeOK
  <1>6. marker' \in Versions \cup {None} /\ signed' \in Versions \cup {None}
    BY DEF Boot, CheckUpdate, StageBinary, StageMarker, StageSignature, PrepareFails, fileVars, UpdateTypeOK
  <1>7. UpdateTypeOK'
    BY <1>1, <1>3, <1>5, <1>6 DEF UpdateTypeOK
  <1>8. FileInv'
    <2>1. p \in {"download", "marker", "signature"} => t # None
      BY <1>3 DEF FileInv, UpdateTypeOK
    <2>2. t <= offered
      <3>1. offered \in Nat \ {0}
        BY DEF UpdateTypeOK
      <3> QED
        BY <1>3, <3>1 DEF FileInv
    <2>3. staged' <= offered
      BY <1>5 DEF FileInv
    <2> QED
      BY <1>1, <1>2, <1>4, <2>1, <2>2, <2>3 DEF FileInv
  <1>9. VerifiedInv' /\ TrialInv'
    BY <1>1, <1>5 DEF VerifiedInv, TrialInv
  <1>10. AloneInv'
    <2> SUFFICES ASSUME ~respawned PROVE AloneInv'
      BY <1>1 DEF AloneInv
    <2>1. \A w \in Watchdogs : dpc[w] \in {"off", "running"}
      BY <1>2, WaitsForAgent
    <2>2. p \in {"download", "marker", "signature"} => bin <= t /\ bak <= t
      BY <1>3 DEF FileInv, AloneInv
    <2>3. staged' \in Versions => bin <= staged' /\ bak <= staged'
      BY <1>5 DEF AloneInv
    <2>4. \A x \in Agents : prep'[x] \in {"download", "marker", "signature"} => bin <= target'[x] /\ bak <= target'[x]
      BY <1>4, <2>2 DEF AloneInv
    <2> QED
      BY <1>1, <2>1, <2>3, <2>4 DEF AloneInv
  <1> QED
    BY <1>7, <1>8, <1>9, <1>10

\* A release, an end of an agent and a start of a second watchdog.
LEMMA OfferUpdateInv == ASSUME UpdateInv, OfferRelease PROVE UpdateInv'
  <1> USE VersionTypes, ProcessAssumption DEF UpdateInv
  <1>1. /\ offered' \in Versions /\ offered <= offered' /\ offered \in Versions
        /\ UNCHANGED <<sameDisk, standDown, bin, bak, staged, marker, signed, running, prep, target>>
        /\ UNCHANGED <<dpc, onTrial, child, crashed, respawned, fresh>>
    <2>1. offered \in 1 .. MaxVersion
      BY DEF UpdateTypeOK, Versions
    <2>2. offered < MaxVersion /\ offered' = offered + 1
      BY DEF OfferRelease
    <2>3. offered' \in 1 .. MaxVersion /\ offered <= offered'
      BY <2>1, <2>2, VersionAssumption
    <2>4. /\ UNCHANGED <<sameDisk, standDown, bin, bak, staged, marker, signed, running, prep, target>>
          /\ UNCHANGED <<dpc, onTrial, child, crashed, respawned, fresh>>
      BY DEF OfferRelease, fileVars, agentVars, dogVars
    <2> QED
      BY <2>1, <2>3, <2>4 DEF Versions
  <1>2. /\ bin <= offered' /\ bak <= offered' /\ staged <= offered'
        /\ \A a \in Agents : target[a] <= offered'
    <2>1. bin \in Int /\ bak \in Int /\ staged \in Int /\ (\A a \in Agents : target[a] \in Int) /\ offered \in Int /\ offered' \in Int
      <3>1. /\ bin \in Contents /\ bak \in Contents /\ staged \in Contents
            /\ \A a \in Agents : target[a] \in Contents
        BY DEF UpdateTypeOK
      <3> QED
        BY <1>1, <3>1
    <2>2. \A i \in Int : i <= offered => i <= offered'
      BY <1>1, <2>1
    <2>3. bin <= offered /\ bak <= offered /\ staged <= offered /\ \A a \in Agents : target[a] <= offered
      BY DEF FileInv
    <2> QED
      BY <2>1, <2>2, <2>3
  <1> QED
    BY <1>1, <1>2 DEF UpdateTypeOK, FileInv, VerifiedInv, TrialInv, AloneInv

LEMMA EndsUpdateInv ==
    ASSUME UpdateInv, NEW a \in Agents, NEW how \in {"no", "late", "quick"}, Ends(a, how), standDown' \in BOOLEAN
    PROVE  UpdateInv'
  <1> USE VersionTypes, ProcessAssumption DEF UpdateInv
  <1>1. /\ running[a] # None /\ UNCHANGED <<offered, sameDisk, bin, bak, staged, marker, signed, onTrial, respawned, fresh>>
        /\ running' = [running EXCEPT ![a] = None] /\ prep' = [prep EXCEPT ![a] = "no"]
        /\ target' = [target EXCEPT ![a] = None]
    BY DEF Ends, fileVars
  <1>2. /\ running'[a] = None /\ prep'[a] = "no"
        /\ \A x \in Agents \ {a} : running'[x] = running[x] /\ prep'[x] = prep[x] /\ target'[x] = target[x]
    BY <1>1 DEF UpdateTypeOK
  <1>3. ASSUME NEW w \in Watchdogs
        PROVE  \/ child[w] = a /\ dpc[w] = "running" /\ dpc'[w] = "exited" /\ child'[w] = NoAgent /\ crashed'[w] = how
               \/ child[w] # a /\ dpc'[w] = dpc[w] /\ child'[w] = child[w] /\ crashed'[w] = crashed[w]
    BY DEF Ends, UpdateTypeOK
  <1>4. UpdateTypeOK'
    <2>1. dpc' \in [Watchdogs -> Steps] /\ child' \in [Watchdogs -> Agents \cup {NoAgent}]
          /\ crashed' \in [Watchdogs -> {"no", "late", "quick"}]
      BY DEF Ends, UpdateTypeOK, Steps
    <2>2. \A w \in Watchdogs : dpc'[w] = "running" <=> child'[w] # NoAgent
      BY <1>3 DEF UpdateTypeOK
    <2> QED
      BY <1>1, <2>1, <2>2 DEF UpdateTypeOK
  <1>5. FileInv' /\ VerifiedInv' /\ TrialInv'
    <2>1. target'[a] = None /\ None <= offered
      BY <1>1 DEF UpdateTypeOK
    <2> QED
      BY <1>1, <1>2, <1>3, <2>1 DEF FileInv, VerifiedInv, TrialInv
  <1>6. AloneInv'
    <2> SUFFICES ASSUME ~respawned PROVE AloneInv'
      BY <1>1 DEF AloneInv
    <2>1. \A w \in Watchdogs : dpc[w] \in {"off", "running"} /\ (dpc[w] # "off" => child[w] = a)
      BY <1>1, WaitsForAgent DEF AloneInv
    <2>2. \A w \in Watchdogs : dpc'[w] # "off" => \A x \in Agents : running'[x] = None
      BY <1>2, <1>3, <2>1 DEF AloneInv
    <2> QED
      BY <1>1, <1>2, <1>3, <2>1, <2>2 DEF AloneInv
  <1> QED
    BY <1>4, <1>5, <1>6

LEMMA SpawnUpdateInv ==
    ASSUME UpdateInv, NEW a \in Agents, NEW w \in Watchdogs, SpawnWatchdog(a, w)
    PROVE  UpdateInv'
  <1> USE VersionTypes, ProcessAssumption DEF UpdateInv
  <1>1. /\ dpc[w] = "off" /\ dpc' = [dpc EXCEPT ![w] = "loop"] /\ respawned' = TRUE
        /\ UNCHANGED <<offered, sameDisk, standDown, bin, bak, staged, marker, signed, running, prep, target>>
        /\ UNCHANGED <<onTrial, child, crashed, fresh>>
    BY DEF SpawnWatchdog, fileVars, agentVars
  <1>2. dpc'[w] = "loop" /\ \A x \in Watchdogs \ {w} : dpc'[x] = dpc[x]
    BY <1>1 DEF UpdateTypeOK
  <1>3. UpdateTypeOK'
    BY <1>1, <1>2 DEF UpdateTypeOK, Steps
  <1> QED
    BY <1>1, <1>2, <1>3 DEF FileInv, VerifiedInv, TrialInv, AloneInv

\* A lone watchdog that is at work has the machine to itself.
LEMMA AloneAtWork ==
    ASSUME UpdateInv, ~respawned, NEW w \in Watchdogs, dpc[w] \notin {"off", "running"}
    PROVE  /\ \A x \in Watchdogs \ {w} : dpc[x] = "off"
           /\ \A a \in Agents : running[a] = None /\ prep[a] = "no"
  BY ProcessAssumption DEF UpdateInv, UpdateTypeOK, FileInv, AloneInv

\* A watchdog takes its next step in Swap or Rollback.
LEMMA SwapUpdateInv ==
    ASSUME UpdateInv, NEW w \in Watchdogs,
           \/ Loop(w) \/ Verify(w) \/ Discard(w) \/ Backup(w) \/ BackupDone(w)
           \/ Unlink(w) \/ Clean(w) \/ Rollback(w) \/ RollbackDone(w)
    PROVE  UpdateInv'
  <1> USE VersionTypes, ProcessAssumption DEF UpdateInv
  <1>1. /\ dpc[w] \notin {"off", "running"}
        /\ UNCHANGED <<offered, sameDisk, standDown, running, prep, target, onTrial, child, crashed, respawned, fresh>>
    BY DEF Loop, Verify, Discard, Backup, BackupDone, Unlink, Clean, Rollback, RollbackDone, StepOnly, agentVars
  <1>2. PICK n \in Steps \ {"running"} :
          /\ dpc' = [dpc EXCEPT ![w] = n]
          /\ n \in {"backup", "backingUp", "install"} => staged' # Torn
          /\ n \in {"backup", "backingUp", "install"} => staged' = staged /\ signed' = signed
          /\ n = "backup" => staged = signed
          /\ n \in {"backup", "backingUp", "install", "copying"} => dpc[w] \in {"verify", "backup", "backingUp"}
          /\ n \in {"backingUp", "install"} => dpc[w] \in {"backup", "backingUp"}
          /\ n # "copying" /\ (n = "rollingBack" => bak # None /\ bak' = bak)
          /\ onTrial[w] => n \in {"clean", "start"}
    <2>0. signed \in Versions \cup {None} /\ (signed # None => signed # Torn)
      BY DEF UpdateTypeOK
    <2>1. CASE Loop(w)
      BY <2>1 DEF Loop, Goto, Steps, TrialInv
    <2>2. CASE Verify(w)
      BY <2>0, <2>2 DEF Verify, Verified, Goto, Steps, TrialInv
    <2>3. CASE Discard(w) \/ Unlink(w) \/ Clean(w)
      BY <2>3 DEF Discard, Unlink, Clean, Goto, Steps, TrialInv
    <2>4. CASE Backup(w)
      BY <2>4 DEF Backup, Goto, Steps, TrialInv, VerifiedInv
    <2>5. CASE BackupDone(w)
      BY <2>5 DEF BackupDone, Goto, Steps, TrialInv, VerifiedInv
    <2>6. CASE Rollback(w)
      BY <2>6 DEF Rollback, Goto, Steps, TrialInv
    <2>7. CASE RollbackDone(w)
      BY <2>7 DEF RollbackDone, Goto, Steps, TrialInv
    <2> QED
      BY <2>1, <2>2, <2>3, <2>4, <2>5, <2>6, <2>7
  <1>3. dpc'[w] = n /\ \A x \in Watchdogs \ {w} : dpc'[x] = dpc[x]
    BY <1>2 DEF UpdateTypeOK
  <1>4. /\ staged' = staged \/ staged' = None
        /\ bin' = bin \/ bin' = Torn \/ (bin' = bak /\ bak # None)
        /\ bak' = bak \/ bak' = Torn \/ bak' = bin
        /\ marker' \in {marker, None} /\ signed' \in {signed, None}
        /\ bak # None => bak' # None
    BY DEF Loop, Verify, Discard, Backup, BackupDone, Unlink, Clean, Rollback, RollbackDone, fileVars,
       UpdateTypeOK, FileInv
  <1>5. UpdateTypeOK'
    <2>1. dpc' \in [Watchdogs -> Steps] /\ \A x \in Watchdogs : dpc'[x] = "running" <=> child[x] # NoAgent
      BY <1>1, <1>2, <1>3 DEF UpdateTypeOK
    <2>2. /\ bin' \in Contents \ {None} /\ bak' \in Contents /\ staged' \in Contents
          /\ marker' \in Versions \cup {None} /\ signed' \in Versions \cup {None}
      BY <1>4 DEF UpdateTypeOK
    <2> QED
      BY <1>1, <2>1, <2>2 DEF UpdateTypeOK
  <1>6. FileInv'
    <2>1. bin' <= offered /\ bak' <= offered /\ staged' <= offered
      <3>1. Torn <= offered /\ None <= offered
        BY DEF UpdateTypeOK
      <3> QED
        BY <1>4, <3>1 DEF FileInv
    <2>2. \A x \in Watchdogs : dpc'[x] = "rollingBack" => bak' # None
      BY <1>2, <1>3, <1>4 DEF FileInv
    <2> QED
      BY <1>1, <2>1, <2>2 DEF FileInv
  <1>7. VerifiedInv' /\ TrialInv'
    <2>1. \A x \in Watchdogs : onTrial[x] => dpc'[x] \in {"unlink", "clean", "start", "running", "exited"}
      BY <1>2, <1>3 DEF TrialInv
    <2>2. \A x \in Watchdogs : dpc'[x] \in {"backup", "backingUp", "install"} => staged' # Torn
      BY <1>2, <1>3, <1>4 DEF VerifiedInv
    <2> QED
      BY <1>1, <2>1, <2>2 DEF VerifiedInv, TrialInv
  <1>8. AloneInv'
    <2> SUFFICES ASSUME ~respawned PROVE AloneInv'
      BY <1>1 DEF AloneInv
    <2>1. \A x \in Watchdogs \ {w} : dpc'[x] = "off"
      BY <1>1, <1>3, AloneAtWork
    <2>2. \A a \in Agents : running[a] = None /\ prep[a] = "no"
      BY <1>1, AloneAtWork
    <2>3. n \in {"backup", "backingUp", "install", "copying"} => staged' = signed' /\ signed' # None
      <3>1. n = "backup" => signed # None
        BY <1>1, <1>2 DEF Loop, Verify, Verified, Discard, Backup, BackupDone, Unlink, Clean, Rollback, RollbackDone, Goto, UpdateTypeOK
      <3> QED
        BY <1>2, <3>1 DEF AloneInv
    <2>4. staged' \in Versions => bin' <= staged' /\ bak' <= staged'
      <3>1. staged \in Versions => Torn <= staged
        BY DEF UpdateTypeOK
      <3> QED
        BY <1>4, <3>1 DEF AloneInv
    <2> QED
      BY <1>1, <1>3, <2>1, <2>2, <2>3, <2>4 DEF AloneInv
  <1> QED
    BY <1>5, <1>6, <1>7, <1>8

\* The staged file takes the binary's place, or fails to.
LEMMA InstallUpdateInv ==
    ASSUME UpdateInv, NEW w \in Watchdogs, Install(w) \/ CopyDone(w) \/ CopyFails(w)
    PROVE  UpdateInv'
  <1> USE VersionTypes, ProcessAssumption DEF UpdateInv
  <1>1. /\ dpc[w] \in {"install", "copying", "backingUp", "rollingBack"}
        /\ UNCHANGED <<offered, sameDisk, standDown, bak, marker, signed, running, prep, target, child, crashed, respawned>>
    BY DEF Install, CopyDone, CopyFails, fileVars, agentVars
  <1>2. PICK n \in {"clean", "copying", "start", "unlink", "loop"}, t \in BOOLEAN :
          /\ dpc' = [dpc EXCEPT ![w] = n] /\ onTrial' = [onTrial EXCEPT ![w] = t]
          /\ t => n \in {"clean", "unlink", "start"} /\ (fresh' \/ onTrial[w])
          /\ n = "copying" => dpc[w] = "install" /\ staged' = staged
          /\ fresh => fresh'
    <2>1. CASE Install(w)
      <3>1. onTrial = [onTrial EXCEPT ![w] = onTrial[w]] /\ onTrial[w] \in BOOLEAN
        BY DEF UpdateTypeOK
      <3>2. ~onTrial[w]
        BY <2>1 DEF Install, TrialInv
      <3>3. CASE dpc' = [dpc EXCEPT ![w] = "clean"] /\ onTrial' = [onTrial EXCEPT ![w] = TRUE] /\ fresh' = TRUE
        BY <3>3
      <3>4. CASE dpc' = [dpc EXCEPT ![w] = "copying"] /\ onTrial' = onTrial /\ staged' = staged /\ fresh' = fresh
        BY <2>1, <3>1, <3>2, <3>4 DEF Install
      <3>5. CASE dpc' = [dpc EXCEPT ![w] = "start"] /\ onTrial' = onTrial /\ fresh' = fresh
        BY <3>1, <3>2, <3>5
      <3> QED
        BY <2>1, <3>3, <3>4, <3>5 DEF Install, Goto
    <2>2. CASE CopyDone(w)
      BY <2>2 DEF CopyDone, Goto
    <2>3. CASE CopyFails(w)
      BY <2>3 DEF CopyFails, Goto
    <2> QED
      BY <2>1, <2>2, <2>3
  <1>3. /\ dpc'[w] = n /\ onTrial'[w] = t
        /\ \A x \in Watchdogs \ {w} : dpc'[x] = dpc[x] /\ onTrial'[x] = onTrial[x]
    BY <1>2 DEF UpdateTypeOK
  <1>4. /\ staged' = staged \/ staged' = None
        /\ bin' = bin \/ bin' = Torn \/ (bin' = staged /\ staged # None /\ dpc[w] \in {"install", "copying"})
        /\ fresh' \in {fresh, TRUE}
    BY DEF Install, CopyDone, CopyFails, fileVars
  <1>5. UpdateTypeOK'
    <2>1. dpc' \in [Watchdogs -> Steps] /\ \A x \in Watchdogs : dpc'[x] = "running" <=> child[x] # NoAgent
      BY <1>1, <1>2, <1>3 DEF UpdateTypeOK, Steps
    <2>2. bin' \in Contents \ {None} /\ staged' \in Contents
      BY <1>4 DEF UpdateTypeOK
    <2>4. fresh' \in BOOLEAN
      BY <1>4 DEF UpdateTypeOK
    <2>3. onTrial' \in [Watchdogs -> BOOLEAN]
      BY <1>2 DEF UpdateTypeOK
    <2> QED
      BY <1>1, <2>1, <2>2, <2>3, <2>4 DEF UpdateTypeOK
  <1>6. VerifiedInv' /\ TrialInv'
    BY <1>2, <1>3, <1>4 DEF VerifiedInv, TrialInv
  <1>7. FileInv'
    <2>1. bin' <= offered /\ staged' <= offered
      <3>1. Torn <= offered /\ None <= offered
        BY DEF UpdateTypeOK
      <3> QED
        BY <1>4, <3>1 DEF FileInv
    <2>2. \A x \in Watchdogs : dpc'[x] = "rollingBack" => bak # None
      BY <1>2, <1>3 DEF FileInv
    <2> QED
      BY <1>1, <2>1, <2>2 DEF FileInv
  <1>8. AloneInv'
    <2> SUFFICES ASSUME ~respawned PROVE AloneInv'
      BY <1>1 DEF AloneInv
    <2>1. \A x \in Watchdogs \ {w} : dpc'[x] = "off" /\ ~onTrial'[x]
      BY <1>1, <1>3, AloneAtWork DEF TrialInv
    <2>2. \A a \in Agents : running[a] = None /\ prep[a] = "no"
      BY <1>1, AloneAtWork
    <2>3. n = "copying" => staged' = signed /\ signed # None
      BY <1>2 DEF AloneInv
    <2>4. staged' \in Versions => bin' <= staged' /\ bak <= staged'
      <3>1. staged \in Versions => Torn <= staged /\ staged <= staged
        BY DEF UpdateTypeOK
      <3> QED
        BY <1>4, <3>1 DEF AloneInv
    <2>5. t => fresh'
      BY <1>2 DEF AloneInv
    <2> QED
      BY <1>1, <1>2, <1>3, <2>1, <2>2, <2>3, <2>4, <2>5 DEF AloneInv
  <1> QED
    BY <1>5, <1>6, <1>7, <1>8

\* The binary is run, and the watchdog judges how the run ended.
LEMMA RunUpdateInv ==
    ASSUME UpdateInv, NEW w \in Watchdogs, Start(w) \/ Exited(w)
    PROVE  UpdateInv'
  <1> USE VersionTypes, ProcessAssumption DEF UpdateInv
  <1>1. /\ dpc[w] \in {"start", "exited"}
        /\ UNCHANGED <<offered, sameDisk, standDown, bin, bak, staged, marker, signed, target, respawned>>
    BY DEF Start, Exited, fileVars, agentVars
  <1>2. CASE \E a \in Agents : /\ running[a] = None /\ running' = [running EXCEPT ![a] = bin]
                               /\ prep' = [prep EXCEPT ![a] = "boot"] /\ child' = [child EXCEPT ![w] = a]
                               /\ dpc' = [dpc EXCEPT ![w] = "running"] /\ bin # Torn
                               /\ UNCHANGED <<onTrial, crashed, fresh>>
    <2>1. PICK a \in Agents : /\ running[a] = None /\ running' = [running EXCEPT ![a] = bin]
                              /\ prep' = [prep EXCEPT ![a] = "boot"] /\ child' = [child EXCEPT ![w] = a]
                              /\ dpc' = [dpc EXCEPT ![w] = "running"] /\ bin # Torn
                              /\ UNCHANGED <<onTrial, crashed, fresh>>
      BY <1>2
    <2>2. /\ dpc'[w] = "running" /\ child'[w] = a /\ running'[a] = bin /\ prep'[a] = "boot"
          /\ \A x \in Watchdogs \ {w} : dpc'[x] = dpc[x] /\ child'[x] = child[x]
          /\ \A x \in Agents \ {a} : running'[x] = running[x] /\ prep'[x] = prep[x]
          /\ bin \in Versions /\ bin # None
      BY <2>1 DEF UpdateTypeOK, Contents
    <2>3. UpdateTypeOK'
      <3>1. /\ dpc' \in [Watchdogs -> Steps] /\ child' \in [Watchdogs -> Agents \cup {NoAgent}]
            /\ running' \in [Agents -> Versions \cup {None}]
            /\ prep' \in [Agents -> {"boot", "no", "download", "marker", "signature"}]
        BY <2>1, <2>2 DEF UpdateTypeOK, Steps
      <3>2. \A x \in Watchdogs : dpc'[x] = "running" <=> child'[x] # NoAgent
        BY <2>2 DEF UpdateTypeOK
      <3> QED
        BY <1>1, <2>1, <3>1, <3>2 DEF UpdateTypeOK
    <2>4. FileInv' /\ VerifiedInv' /\ TrialInv'
      BY <1>1, <2>1, <2>2 DEF FileInv, VerifiedInv, TrialInv
    <2>5. AloneInv'
      <3> SUFFICES ASSUME ~respawned PROVE AloneInv'
        BY <1>1 DEF AloneInv
      <3>1. /\ \A x \in Watchdogs \ {w} : dpc'[x] = "off"
            /\ \A x \in Agents : running[x] = None /\ prep[x] = "no"
        BY <1>1, <2>2, AloneAtWork
      <3> QED
        BY <1>1, <2>1, <2>2, <3>1 DEF AloneInv
    <2> QED
      BY <2>3, <2>4, <2>5
  <1>3. CASE UNCHANGED <<running, prep, child>>
    <2>1. PICK n \in {"exited", "rollback", "loop"}, t \in BOOLEAN :
            /\ dpc' = [dpc EXCEPT ![w] = n] /\ onTrial' = [onTrial EXCEPT ![w] = t]
            /\ t => n = "exited" /\ onTrial[w]
            /\ fresh' = fresh \/ (~t /\ fresh' = FALSE)
      <3>1. onTrial = [onTrial EXCEPT ![w] = onTrial[w]] /\ onTrial[w] \in BOOLEAN
        BY DEF UpdateTypeOK
      <3>2. CASE Start(w) /\ dpc' = [dpc EXCEPT ![w] = "exited"] /\ onTrial' = onTrial /\ fresh' = fresh
        BY <3>1, <3>2
      <3>3. CASE Start(w) /\ dpc' = [dpc EXCEPT ![w] = "running"] /\ \E a \in Agents : child' = [child EXCEPT ![w] = a]
        <4>1. dpc[w] = "start" /\ child[w] = NoAgent /\ child' = child
          BY <1>3, <3>3 DEF Start, UpdateTypeOK
        <4> QED
          BY <3>3, <4>1 DEF UpdateTypeOK
      <3>4. CASE Exited(w)
        BY <3>4 DEF Exited, Goto
      <3> QED
        BY <3>2, <3>3, <3>4 DEF Start, Goto
    <2>2. /\ dpc'[w] = n /\ onTrial'[w] = t
          /\ \A x \in Watchdogs \ {w} : dpc'[x] = dpc[x] /\ onTrial'[x] = onTrial[x]
      BY <2>1 DEF UpdateTypeOK
    <2>3. UpdateTypeOK'
      <3>1. dpc' \in [Watchdogs -> Steps] /\ \A x \in Watchdogs : dpc'[x] = "running" <=> child[x] # NoAgent
        BY <1>1, <2>1, <2>2 DEF UpdateTypeOK, Steps
      <3>2. crashed' \in [Watchdogs -> {"no", "late", "quick"}]
        BY DEF Start, Exited, UpdateTypeOK
      <3>3. onTrial' \in [Watchdogs -> BOOLEAN] /\ fresh' \in BOOLEAN
        BY <2>1 DEF UpdateTypeOK
      <3> QED
        BY <1>1, <1>3, <3>1, <3>2, <3>3 DEF UpdateTypeOK
    <2>4. FileInv' /\ VerifiedInv' /\ TrialInv'
      BY <1>1, <1>3, <2>1, <2>2 DEF FileInv, VerifiedInv, TrialInv
    <2>5. AloneInv'
      <3> SUFFICES ASSUME ~respawned PROVE AloneInv'
        BY <1>1 DEF AloneInv
      <3>1. /\ \A x \in Watchdogs \ {w} : dpc'[x] = "off" /\ ~onTrial'[x]
            /\ \A x \in Agents : running[x] = None /\ prep[x] = "no"
        BY <1>1, <2>2, AloneAtWork DEF TrialInv
      <3>2. t => fresh'
        BY <2>1 DEF AloneInv
      <3> QED
        BY <1>1, <1>3, <2>1, <2>2, <3>1, <3>2 DEF AloneInv
    <2> QED
      BY <2>3, <2>4, <2>5
  <1> QED
    <2>1. CASE Start(w)
      <3>1. CASE \E a \in Agents : /\ running[a] = None /\ running' = [running EXCEPT ![a] = bin]
                                   /\ prep' = [prep EXCEPT ![a] = "boot"] /\ child' = [child EXCEPT ![w] = a]
        <4>1. PICK a \in Agents : /\ running[a] = None /\ running' = [running EXCEPT ![a] = bin]
                                  /\ prep' = [prep EXCEPT ![a] = "boot"] /\ child' = [child EXCEPT ![w] = a]
          BY <3>1
        <4>2. running' # running
          BY <4>1 DEF UpdateTypeOK
        <4>3. bin # Torn /\ dpc' = [dpc EXCEPT ![w] = "running"] /\ UNCHANGED <<onTrial, crashed, fresh>>
          BY <2>1, <4>2 DEF Start, Goto
        <4> QED
          BY <1>2, <4>1, <4>3
      <3> QED
        BY <1>3, <2>1, <3>1 DEF Start
    <2>2. CASE Exited(w)
      BY <1>3, <2>2 DEF Exited, agentVars
    <2> QED
      BY <2>1, <2>2

\* A watchdog is killed, or the machine stops.
LEMMA FailureUpdateInv ==
    ASSUME UpdateInv, NEW w \in Watchdogs, NEW lost \in BOOLEAN, WatchdogDies(w) \/ PowerLoss(w, lost)
    PROVE  UpdateInv'
  <1> USE VersionTypes, ProcessAssumption DEF UpdateInv
  <1>1. CASE WatchdogDies(w)
    <2>1. /\ dpc' = [dpc EXCEPT ![w] = "off"] /\ onTrial' = [onTrial EXCEPT ![w] = FALSE]
          /\ child' = [child EXCEPT ![w] = NoAgent] /\ crashed' = [crashed EXCEPT ![w] = "no"]
          /\ UNCHANGED <<offered, sameDisk, standDown, bin, bak, staged, marker, signed, running, prep, target>>
          /\ UNCHANGED <<respawned, fresh>>
      BY <1>1 DEF WatchdogDies, Goto, fileVars, agentVars
    <2>2. /\ dpc'[w] = "off" /\ onTrial'[w] = FALSE /\ child'[w] = NoAgent
          /\ \A x \in Watchdogs \ {w} : dpc'[x] = dpc[x] /\ onTrial'[x] = onTrial[x] /\ child'[x] = child[x]
      BY <2>1 DEF UpdateTypeOK
    <2>3. UpdateTypeOK'
      <3>1. /\ dpc' \in [Watchdogs -> Steps] /\ onTrial' \in [Watchdogs -> BOOLEAN]
            /\ child' \in [Watchdogs -> Agents \cup {NoAgent}] /\ crashed' \in [Watchdogs -> {"no", "late", "quick"}]
        BY <2>1 DEF UpdateTypeOK, Steps
      <3>2. \A x \in Watchdogs : dpc'[x] = "running" <=> child'[x] # NoAgent
        BY <2>2 DEF UpdateTypeOK
      <3> QED
        BY <2>1, <3>1, <3>2 DEF UpdateTypeOK
    <2>4. FileInv' /\ VerifiedInv' /\ TrialInv'
      BY <2>1, <2>2 DEF FileInv, VerifiedInv, TrialInv
    <2>5. AloneInv'
      BY <2>1, <2>2 DEF AloneInv
    <2> QED
      BY <2>3, <2>4, <2>5
  <1>2. CASE PowerLoss(w, lost)
    <2>1. /\ UNCHANGED <<offered, sameDisk, standDown, bin, bak, marker, signed, respawned, fresh>>
          /\ \A a \in Agents : running'[a] = None /\ prep'[a] = "no" /\ target'[a] = None
          /\ \A x \in Watchdogs : /\ dpc'[x] = IF x = w THEN "loop" ELSE "off"
                                  /\ onTrial'[x] = FALSE /\ child'[x] = NoAgent
          /\ staged' = staged \/ staged' = Torn
      BY <1>2 DEF PowerLoss
    <2>2. UpdateTypeOK'
      <3>1. /\ dpc' \in [Watchdogs -> Steps] /\ onTrial' \in [Watchdogs -> BOOLEAN]
            /\ child' \in [Watchdogs -> Agents \cup {NoAgent}] /\ crashed' \in [Watchdogs -> {"no", "late", "quick"}]
        BY <1>2 DEF PowerLoss, Steps
      <3>2. /\ running' \in [Agents -> Versions \cup {None}] /\ target' \in [Agents -> Versions \cup {None}]
            /\ prep' \in [Agents -> {"boot", "no", "download", "marker", "signature"}]
        BY <1>2 DEF PowerLoss
      <3>3. staged' \in Contents
        BY <2>1 DEF UpdateTypeOK
      <3> QED
        BY <2>1, <3>1, <3>2, <3>3 DEF UpdateTypeOK
    <2>3. FileInv' /\ VerifiedInv' /\ TrialInv'
      <3>1. Torn <= offered /\ None <= offered
        BY DEF UpdateTypeOK
      <3> QED
        BY <2>1, <3>1 DEF FileInv, VerifiedInv, TrialInv
    <2>4. AloneInv'
      BY <2>1 DEF AloneInv
    <2> QED
      BY <2>2, <2>3, <2>4
  <1> QED
    BY <1>1, <1>2

\* An agent exits or is offboarded.
LEMMA AgentEndsInv ==
    ASSUME UpdateInv, NEW a \in Agents, Offboard(a) \/ \E how \in {"no", "late", "quick"} : AgentExits(a, how)
    PROVE  UpdateInv'
  <1>1. CASE Offboard(a)
    BY <1>1, EndsUpdateInv DEF Offboard
  <1>2. ASSUME NEW how \in {"no", "late", "quick"}, AgentExits(a, how) PROVE UpdateInv'
    BY <1>2, EndsUpdateInv DEF AgentExits, UpdateInv, UpdateTypeOK
  <1> QED
    BY <1>1, <1>2

LEMMA StutterUpdateInv == ASSUME UpdateInv, UNCHANGED updateVars PROVE UpdateInv'
  BY DEF UpdateInv, UpdateTypeOK, FileInv, VerifiedInv, TrialInv, AloneInv, updateVars, fileVars, agentVars, dogVars

LEMMA NextUpdateInv == ASSUME UpdateInv, [UpdateNext]_updateVars PROVE UpdateInv'
  <1>1. CASE OfferRelease
    BY <1>1, OfferUpdateInv
  <1>2. ASSUME NEW a \in Agents,
               Boot(a) \/ CheckUpdate(a) \/ StageBinary(a) \/ StageMarker(a) \/ StageSignature(a) \/ PrepareFails(a)
        PROVE  UpdateInv'
    BY <1>2, PrepareUpdateInv
  <1>3. ASSUME NEW a \in Agents, Offboard(a) \/ \E how \in {"no", "late", "quick"} : AgentExits(a, how)
        PROVE  UpdateInv'
    BY <1>3, AgentEndsInv
  <1>4. ASSUME NEW a \in Agents, NEW w \in Watchdogs, SpawnWatchdog(a, w) PROVE UpdateInv'
    BY <1>4, SpawnUpdateInv
  <1>5. ASSUME NEW w \in Watchdogs,
               \/ Loop(w) \/ Verify(w) \/ Discard(w) \/ Backup(w) \/ BackupDone(w)
               \/ Unlink(w) \/ Clean(w) \/ Rollback(w) \/ RollbackDone(w)
        PROVE  UpdateInv'
    BY <1>5, SwapUpdateInv
  <1>6. ASSUME NEW w \in Watchdogs, Install(w) \/ CopyDone(w) \/ CopyFails(w) PROVE UpdateInv'
    BY <1>6, InstallUpdateInv
  <1>7. ASSUME NEW w \in Watchdogs, Start(w) \/ Exited(w) PROVE UpdateInv'
    BY <1>7, RunUpdateInv
  <1>8. ASSUME NEW w \in Watchdogs, NEW lost \in BOOLEAN, WatchdogDies(w) \/ PowerLoss(w, lost) PROVE UpdateInv'
    BY <1>8, FailureUpdateInv
  <1>9. CASE UNCHANGED updateVars
    BY <1>9, StutterUpdateInv
  <1> QED
    BY <1>1, <1>2, <1>3, <1>4, <1>5, <1>6, <1>7, <1>8, <1>9 DEF UpdateNext

\* The inductive invariant of the update machinery.
THEOREM UpdateInductive == UpdateSpec => []UpdateInv
  <1> QED
    BY InitUpdateInv, NextUpdateInv, PTL DEF UpdateSpec

\* Every file, process and program counter keeps its type: the binary is never
\* missing, and a watchdog waits for a child exactly while its agent runs.
THEOREM UpdateTypes == UpdateSpec => []UpdateTypeOK
  <1>1. UpdateInv => UpdateTypeOK
    BY DEF UpdateInv
  <1> QED
    BY <1>1, UpdateInductive, PTL

-----------------------------------------------------------------------------
\* Only a watchdog itself finishes an installation or decides to roll back.
LEMMA OwnStep ==
    ASSUME UpdateInv, [UpdateNext]_updateVars, NEW w \in Watchdogs,
           dpc[w] \in {"install", "copying", "exited"}, dpc'[w] \in {"clean", "unlink", "rollback"}
    PROVE  Install(w) \/ CopyDone(w) \/ Exited(w)
  <1> USE DEF UpdateInv, UpdateTypeOK
  <1>1. dpc'[w] # dpc[w]
    OBVIOUS
  <1>2. ~OfferRelease /\ ~UNCHANGED updateVars
    BY <1>1 DEF OfferRelease, updateVars, dogVars
  <1>3. ASSUME NEW a \in Agents,
               Boot(a) \/ CheckUpdate(a) \/ StageBinary(a) \/ StageMarker(a) \/ StageSignature(a) \/ PrepareFails(a)
        PROVE  FALSE
    BY <1>1, <1>3 DEF Boot, CheckUpdate, StageBinary, StageMarker, StageSignature, PrepareFails, dogVars
  <1>4. ASSUME NEW a \in Agents, NEW how, Ends(a, how) PROVE FALSE
    BY <1>1, <1>4 DEF Ends
  <1>5. ASSUME NEW a \in Agents, NEW x \in Watchdogs, SpawnWatchdog(a, x) PROVE FALSE
    BY <1>1, <1>5 DEF SpawnWatchdog
  <1>6. ASSUME NEW x \in Watchdogs,
               \/ Loop(x) \/ Verify(x) \/ Discard(x) \/ Backup(x) \/ BackupDone(x) \/ Unlink(x) \/ Clean(x)
               \/ CopyFails(x) \/ Start(x) \/ Rollback(x) \/ RollbackDone(x) \/ WatchdogDies(x)
        PROVE  FALSE
    <2>1. PICK n : dpc' = [dpc EXCEPT ![x] = n]
      BY <1>6 DEF Loop, Verify, Discard, Backup, BackupDone, Unlink, Clean, CopyFails, Start, Rollback,
         RollbackDone, WatchdogDies, Goto
    <2>2. x = w
      BY <1>1, <2>1
    <2> QED
      BY <1>6, <2>2 DEF Loop, Verify, Discard, Backup, BackupDone, Unlink, Clean, CopyFails, Start, Rollback,
         RollbackDone, WatchdogDies, Goto
  <1>7. ASSUME NEW x \in Watchdogs, Install(x) \/ CopyDone(x) \/ Exited(x) PROVE x = w
    <2>1. PICK n : dpc' = [dpc EXCEPT ![x] = n]
      BY <1>7 DEF Install, CopyDone, Exited, Goto
    <2> QED
      BY <1>1, <2>1
  <1>8. ASSUME NEW x \in Watchdogs, NEW lost, PowerLoss(x, lost) PROVE FALSE
    BY <1>8 DEF PowerLoss
  <1> QED
    BY <1>2, <1>3, <1>4, <1>5, <1>6, <1>7, <1>8 DEF UpdateNext, Offboard, AgentExits

\* A staged file that a power loss tore is never installed (watchdog.Swap behind
\* VerifyStaged), however many watchdogs and agents are at work.
THEOREM TornNeverInstalled == UpdateSpec => NoTornInstall
  <1>1. ASSUME UpdateInv, [UpdateNext]_updateVars, NEW w \in Watchdogs, dpc[w] = "install", dpc'[w] = "clean"
        PROVE  bin' # Torn
    <2>1. Install(w)
      BY <1>1, OwnStep DEF CopyDone, Exited
    <2>2. bin' = staged
      BY <1>1, <2>1 DEF Install, Goto, UpdateInv, UpdateTypeOK
    <2> QED
      BY <1>1, <2>2 DEF UpdateInv, VerifiedInv
  <1>2. UpdateInv /\ [UpdateNext]_updateVars
          => [\A w \in Watchdogs : dpc[w] = "install" /\ dpc'[w] = "clean" => bin' # Torn]_updateVars
    BY <1>1
  <1> QED
    BY <1>2, UpdateInductive, PTL DEF UpdateSpec, NoTornInstall

\* As long as PeerGuard never started a watchdog, an install puts in place the very
\* bytes VerifyStaged accepted and never an older version than the one it replaces.
THEOREM InstallsWhatWasVerified == UpdateSpec => SoundWithoutRespawn
  <1> DEFINE Sound(w) == ~respawned /\ dpc[w] \in {"install", "copying"} /\ dpc'[w] \in {"clean", "unlink"}
                           => bin' = signed /\ bak <= bin'
  <1>1. ASSUME UpdateInv, [UpdateNext]_updateVars, NEW w \in Watchdogs PROVE Sound(w)
    <2> SUFFICES ASSUME ~respawned, dpc[w] \in {"install", "copying"}, dpc'[w] \in {"clean", "unlink"}
                 PROVE  bin' = signed /\ bak <= bin'
      OBVIOUS
    <2>1. Install(w) \/ CopyDone(w)
      BY <1>1, OwnStep DEF Exited
    <2>2. bin' = staged
      BY <1>1, <2>1 DEF Install, CopyDone, Goto, UpdateInv, UpdateTypeOK
    <2>3. staged = signed /\ staged \in Versions
      BY <1>1 DEF UpdateInv, UpdateTypeOK, AloneInv
    <2> QED
      BY <1>1, <2>2, <2>3 DEF UpdateInv, AloneInv
  <1>2. UpdateInv /\ [UpdateNext]_updateVars => [\A w \in Watchdogs : Sound(w)]_updateVars
    BY <1>1
  <1> QED
    BY <1>2, UpdateInductive, PTL DEF UpdateSpec, SoundWithoutRespawn

\* A rollback undoes an install: as long as PeerGuard never started a watchdog, no
\* binary that has already finished a run is exchanged for the backup.
THEOREM RollbackUndoesInstall == UpdateSpec => RollbackOnlyOnTrial
  <1> DEFINE OnTrial(w) == ~respawned /\ dpc[w] = "exited" /\ dpc'[w] = "rollback" => fresh
  <1>1. ASSUME UpdateInv, [UpdateNext]_updateVars, NEW w \in Watchdogs PROVE OnTrial(w)
    <2> SUFFICES ASSUME ~respawned, dpc[w] = "exited", dpc'[w] = "rollback" PROVE fresh
      OBVIOUS
    <2>1. Exited(w)
      BY <1>1, OwnStep DEF Install, CopyDone
    <2>2. onTrial[w]
      BY <1>1, <2>1 DEF Exited, RollsBack, Goto, UpdateInv, UpdateTypeOK
    <2> QED
      BY <1>1, <2>2 DEF UpdateInv, AloneInv
  <1>2. UpdateInv /\ [UpdateNext]_updateVars => [\A w \in Watchdogs : OnTrial(w)]_updateVars
    BY <1>1
  <1> QED
    BY <1>2, UpdateInductive, PTL DEF UpdateSpec, RollbackOnlyOnTrial

\* After an offboarding no agent starts to work, although a watchdog may be between
\* its look at the marker and Runner.Run.
THEOREM OffboardedStaysDown == UpdateSpec => OffboardIsFinal
  <1> DEFINE Final == standDown => \A a \in Agents : running[a] = None => running'[a] = None
  <1>1. ASSUME UpdateInv, [UpdateNext]_updateVars PROVE Final
    <2> SUFFICES ASSUME standDown, NEW a \in Agents, running[a] = None PROVE running'[a] = None
      OBVIOUS
    <2> USE DEF UpdateInv, UpdateTypeOK
    <2>1. CASE UNCHANGED running
      BY <2>1
    <2>2. ASSUME NEW x \in Agents, NEW how, Ends(x, how) PROVE running'[a] = None
      BY <1>1, <2>2 DEF Ends
    <2>3. ASSUME NEW w \in Watchdogs, Start(w) PROVE UNCHANGED running
      BY <2>3 DEF Start, StaysDown
    <2>4. ASSUME NEW w \in Watchdogs, NEW lost, PowerLoss(w, lost) PROVE running'[a] = None
      BY <2>4 DEF PowerLoss
    <2>5. OfferRelease \/ UNCHANGED updateVars => UNCHANGED running
      BY DEF OfferRelease, updateVars, agentVars
    <2>6. ASSUME NEW x \in Agents,
                 \/ Boot(x) \/ CheckUpdate(x) \/ StageBinary(x) \/ StageMarker(x) \/ StageSignature(x)
                 \/ PrepareFails(x) \/ \E w \in Watchdogs : SpawnWatchdog(x, w)
          PROVE  UNCHANGED running
      BY <2>6 DEF Boot, CheckUpdate, StageBinary, StageMarker, StageSignature, PrepareFails, SpawnWatchdog, agentVars
    <2>7. ASSUME NEW w \in Watchdogs,
                 \/ Loop(w) \/ Verify(w) \/ Discard(w) \/ Backup(w) \/ BackupDone(w) \/ Install(w) \/ CopyDone(w)
                 \/ Unlink(w) \/ Clean(w) \/ CopyFails(w) \/ Exited(w) \/ Rollback(w) \/ RollbackDone(w)
                 \/ WatchdogDies(w)
          PROVE  UNCHANGED running
      BY <2>7 DEF Loop, Verify, Discard, Backup, BackupDone, Install, CopyDone, Unlink, Clean, CopyFails, Exited,
         Rollback, RollbackDone, WatchdogDies, StepOnly, agentVars
    <2> QED
      BY <1>1, <2>1, <2>2, <2>3, <2>4, <2>5, <2>6, <2>7 DEF UpdateNext, Offboard, AgentExits
  <1>2. UpdateInv /\ [UpdateNext]_updateVars => [Final]_updateVars
    BY <1>1
  <1> QED
    BY <1>2, UpdateInductive, PTL DEF UpdateSpec, OffboardIsFinal
=============================================================================
