--------------------------- MODULE DeviceStatusProofs ---------------------------
(***************************************************************************)
(* Proofs about the delivery of commands, for every set of commands,       *)
(* lease, attempt limit, batch limit and ttl: IndInv is inductive; the     *)
(* safety properties of CommandDelivery and the refinement of              *)
(* CommandLifecycle follow from it.                                        *)
(*                                                                         *)
(* And about the quarantine column of the console, which stands on it, for *)
(* any set of commands of any type and either platform: it claims no       *)
(* isolation that the agent did not report, and only a release ends one.   *)
(* IndInv supplies that what ran was issued.                               *)
(***************************************************************************)
EXTENDS DeviceStatus, FiniteSetTheorems, TLAPS

-----------------------------------------------------------------------------
(* The delivery of commands *)

\* The n-th inserted row gets a positive rank.
LEMMA RankType == TypeOK => Cardinality(Rows) \in Nat
<1> SUFFICES ASSUME TypeOK PROVE Cardinality(Rows) \in Nat  OBVIOUS
<1>1. IsFiniteSet(Rows)
  BY CmdsAssumption, FS_Subset DEF Rows
<1> QED  BY <1>1, FS_CardinalityType

\* Pruning and ageing keep a log a log.
LEMMA LogType ==
    ASSUME NEW log \in [Cmds -> Ages(Ttl)]
    PROVE  /\ Pruned(log) \in [Cmds -> Ages(Ttl)]
           /\ \A c \in Cmds : Pruned(log)[c] # Never => log[c] # Never
           /\ [c \in Cmds |-> Older(log[c], Ttl)] \in [Cmds -> Ages(Ttl)]
  BY TtlAssumption DEF Pruned, Ages, Never, Older

\* The initial state satisfies the inductive invariant.
LEMMA InitInv == Init => IndInv
<1> SUFFICES ASSUME Init PROVE IndInv  OBVIOUS
<1>1. TypeOK
  <2>1. Never \in Ages(Lease) /\ Never \in Ages(Ttl)  BY DEF Ages
  <2>2. 0 \in 0 .. MaxAttempts  BY AttemptsAssumption
  <2> QED  BY <2>1, <2>2 DEF Init, TypeOK
<1>2. BeatInv /\ AckInv
  BY CmdsAssumption DEF Init, BeatInv, AckInv, InHand
<1>3. CountInv
  BY CmdsAssumption DEF Init, CountInv, Known, InHand
<1> QED  BY <1>1, <1>2, <1>3 DEF IndInv

\* Every step keeps the inductive invariant.
LEMMA NextInv == IndInv /\ [Next]_vars => IndInv'
<1> SUFFICES ASSUME IndInv, [Next]_vars PROVE IndInv'  OBVIOUS
<1> USE DEF IndInv
<1>1. ASSUME NEW c \in Cmds, EnqueueCommand(c) PROVE IndInv'
  <2>1. Cardinality(Rows) \in Nat  BY RankType
  <2>2. TypeOK'  BY <1>1, <2>1 DEF EnqueueCommand, TypeOK, rpcVars, logVars, loopVars, history
  <2>3. BeatInv' /\ CountInv' /\ AckInv'
    BY <1>1, <2>1 DEF EnqueueCommand, TypeOK, BeatInv, CountInv, AckInv, InHand, Known,
                      rpcVars, logVars, loopVars, history
  <2> QED  BY <2>2, <2>3
<1>2. ASSUME NEW c \in Cmds, SkipExecuted(c) PROVE IndInv'
  <2>1. TypeOK' /\ BeatInv' /\ AckInv'
    BY <1>2, CmdsAssumption DEF SkipExecuted, Unseen, LoopAfter, TypeOK, BeatInv, AckInv, InHand,
       serverVars, rpcVars, history
  <2>2. CountInv'
    BY <1>2, CmdsAssumption DEF SkipExecuted, Unseen, TypeOK, BeatInv, CountInv, InHand,
       Known, serverVars, rpcVars, history
  <2> QED  BY <2>1, <2>2
<1>3. ASSUME NEW c \in Cmds, Execute(c) PROVE IndInv'
  <2>1. TypeOK' /\ BeatInv'
    BY <1>3, CmdsAssumption DEF Execute, Unseen, TypeOK, BeatInv, serverVars, rpcVars, logVars
  <2>2. CountInv' /\ AckInv'
    BY <1>3, CmdsAssumption DEF Execute, Unseen, TypeOK, BeatInv, CountInv, AckInv, InHand, Known,
       serverVars, rpcVars, logVars
  <2> QED  BY <2>1, <2>2
<1>4. ASSUME NEW ok \in BOOLEAN, AckCommands(ok) PROVE IndInv'
  BY <1>4 DEF AckCommands, TypeOK, BeatInv, CountInv, AckInv, InHand, Known,
     logVars, loopVars, history
<1>5. ASSUME NEW saved \in BOOLEAN, Record(saved) PROVE IndInv'
  <2> DEFINE log == [executed EXCEPT ![current] = 0]
  <2>1. current \in Cmds /\ log \in [Cmds -> Ages(Ttl)]
    BY <1>5, TtlAssumption DEF Record, TypeOK, Ages
  <2>2. executed' = Pruned(log)  BY <1>5 DEF Record
  <2>3. executed' \in [Cmds -> Ages(Ttl)] /\ executed'[current] = 0
    BY <2>1, <2>2, LogType, TtlAssumption DEF Pruned, TypeOK
  <2>4. \A c \in Cmds : executed'[c] # Never => executed[c] # Never \/ c = current
    <3>1. \A c \in Cmds : c # current => log[c] = executed[c]
      BY DEF TypeOK
    <3>2. \A c \in Cmds : Pruned(log)[c] # Never => log[c] # Never
      <4> HIDE DEF log
      <4> QED
        BY <2>1, LogType
    <3> HIDE DEF log
    <3> QED
      BY <2>2, <3>1, <3>2
  <2>5. disk' \in [Cmds -> Ages(Ttl)] /\ \A c \in Cmds : disk'[c] = executed'[c] \/ disk'[c] = disk[c]
    BY <1>5, <2>3 DEF Record, TypeOK
  <2>6. /\ forgotten' = [c \in Cmds |-> IF Known(c) /\ executed'[c] = Never
                                         THEN forgotten[c] + 1 ELSE forgotten[c]]
        /\ ackQueue' = ackQueue \cup {current} /\ inbox' = inbox \ {current}
        /\ current' = NoCmd /\ pc = "handling" /\ pc' = IF inbox' = {} THEN "idle" ELSE "handling"
        /\ UNCHANGED <<serverVars, rpcVars, execs>>
    BY <1>5 DEF Record, Forget, Known, LoopAfter
  <2>7. forgotten' \in [Cmds -> Nat]  BY <2>6 DEF TypeOK
  <2>8. TypeOK' /\ BeatInv'
    BY <2>1, <2>3, <2>5, <2>6, <2>7 DEF TypeOK, BeatInv, serverVars, rpcVars
  <2>9. AckInv'
    BY <2>1, <2>4, <2>5, <2>6, CmdsAssumption DEF TypeOK, BeatInv, AckInv, InHand, serverVars, rpcVars
  <2>10. CountInv'
    <3>1. \A c \in Cmds : forgotten'[c] = IF Known(c) /\ executed'[c] = Never
                                             THEN forgotten[c] + 1 ELSE forgotten[c]
      BY <2>6
    <3>2. \A c \in Cmds : /\ execs[c] <= attempts[c]
                          /\ execs[c] <= forgotten'[c] + 1
                          /\ executed'[c] = Never => execs[c] <= forgotten'[c]
                          /\ attempts[c] > 0 => rank[c] > 0
      BY <3>1 DEF CountInv, TypeOK, Known
    <3> QED  BY <2>3, <2>6, <3>2 DEF CountInv, Known, InHand, serverVars, rpcVars
  <2> QED  BY <2>8, <2>9, <2>10
<1>6. ASSUME NEW fileLost \in BOOLEAN, Crash(fileLost) PROVE IndInv'
  <2>1. disk' \in [Cmds -> Ages(Ttl)] /\ \A c \in Cmds : disk'[c] # Never => disk[c] # Never
    BY <1>6 DEF Crash, TypeOK, Ages
  <2>2. executed' = Pruned(disk')  BY <1>6 DEF Crash
  <2>3. executed' \in [Cmds -> Ages(Ttl)] /\ \A c \in Cmds : executed'[c] # Never => disk'[c] # Never
    BY <2>1, <2>2, LogType
  <2>4. /\ forgotten' = [c \in Cmds |-> IF Known(c) /\ executed'[c] = Never
                                         THEN forgotten[c] + 1 ELSE forgotten[c]]
        /\ ackQueue' = {} /\ inbox' = {} /\ current' = NoCmd
        /\ phase' = "none" /\ hbAcks' = {} /\ reply' = {} /\ ackFailed' = FALSE
        /\ pc' = "down" /\ UNCHANGED <<serverVars, execs>>
    BY <1>6 DEF Crash, Forget, Known
  <2>5. forgotten' \in [Cmds -> Nat]  BY <2>4 DEF TypeOK
  <2>6. TypeOK' /\ BeatInv'
    BY <2>1, <2>3, <2>4, <2>5 DEF TypeOK, BeatInv, serverVars
  <2>7. AckInv'
    BY <2>1, <2>3, <2>4, CmdsAssumption DEF TypeOK, AckInv, InHand, serverVars
  <2>8. CountInv'
    BY <2>3, <2>4, CmdsAssumption DEF TypeOK, CountInv, InHand, Known, serverVars
  <2> QED  BY <2>6, <2>7, <2>8
<1>7. CASE ApplyCommandResults
  BY <1>7 DEF ApplyCommandResults, TypeOK, BeatInv, CountInv, AckInv, InHand, Known,
     serverVars, logVars, loopVars, history
<1>8. CASE PendingCommands
  <2>1. PICK batch \in SUBSET Eligible :
           /\ delivered' = [c \in Cmds |-> IF c \in batch THEN 0 ELSE delivered[c]]
           /\ attempts' = [c \in Cmds |-> IF c \in batch THEN attempts[c] + 1 ELSE attempts[c]]
           /\ reply' = batch
    BY <1>8 DEF PendingCommands
  <2>2. \A c \in batch : c \in Cmds /\ rank[c] > 0 /\ c \notin acked /\ attempts[c] < MaxAttempts
    BY DEF Eligible, Rows
  <2>3. TypeOK' /\ BeatInv'
    BY <1>8, <2>1, <2>2, LeaseAssumption, AttemptsAssumption
       DEF PendingCommands, TypeOK, BeatInv, Ages, logVars, loopVars, history
  <2>4. CountInv' /\ AckInv'
    BY <1>8, <2>1, <2>2, AttemptsAssumption
       DEF PendingCommands, TypeOK, BeatInv, CountInv, AckInv, InHand, Known,
           logVars, loopVars, history
  <2> QED  BY <2>3, <2>4
<1>9. CASE Heartbeat
  <2>1. TypeOK' /\ BeatInv' /\ AckInv'
    BY <1>9 DEF Heartbeat, TypeOK, BeatInv, AckInv, InHand, serverVars, logVars, history
  <2>2. CountInv'
    BY <1>9 DEF Heartbeat, TypeOK, BeatInv, CountInv, InHand, Known, serverVars, logVars, history
  <2> QED  BY <2>1, <2>2
<1>10. CASE ReceiveReply
  <2>1. TypeOK' /\ BeatInv' /\ AckInv'
    BY <1>10 DEF ReceiveReply, TypeOK, BeatInv, AckInv, InHand, serverVars, history
  <2>2. CountInv'
    BY <1>10 DEF ReceiveReply, TypeOK, BeatInv, CountInv, InHand, Known, serverVars, history
  <2> QED  BY <2>1, <2>2
<1>11. CASE HeartbeatFails
  <2>1. TypeOK' /\ BeatInv' /\ AckInv'
    BY <1>11 DEF HeartbeatFails, TypeOK, BeatInv, AckInv, InHand, serverVars, logVars, history
  <2>2. CountInv'
    BY <1>11 DEF HeartbeatFails, TypeOK, BeatInv, CountInv, InHand, Known, serverVars, logVars, history
  <2> QED  BY <2>1, <2>2
<1>12. CASE Open
  <2>1. executed' \in [Cmds -> Ages(Ttl)] /\ \A c \in Cmds : executed'[c] # Never => executed[c] # Never
    BY <1>12, LogType DEF Open, TypeOK
  <2>2. /\ forgotten' = [c \in Cmds |-> IF Known(c) /\ executed'[c] = Never
                                         THEN forgotten[c] + 1 ELSE forgotten[c]]
        /\ pc = "down" /\ pc' = "idle"
        /\ UNCHANGED <<serverVars, rpcVars, disk, ackQueue, inbox, current, execs>>
    BY <1>12 DEF Open, Forget, Known
  <2>3. forgotten' \in [Cmds -> Nat]  BY <2>2 DEF TypeOK
  <2>4. TypeOK' /\ BeatInv'
    BY <2>1, <2>2, <2>3 DEF TypeOK, BeatInv, serverVars, rpcVars
  <2>5. AckInv'
    BY <2>1, <2>2 DEF TypeOK, AckInv, InHand, serverVars, rpcVars
  <2>6. CountInv'
    <3>1. \A c \in Cmds : forgotten'[c] = IF Known(c) /\ executed'[c] = Never
                                             THEN forgotten[c] + 1 ELSE forgotten[c]
      BY <2>2
    <3>2. \A c \in Cmds : /\ execs[c] <= attempts[c]
                          /\ execs[c] <= forgotten'[c] + 1
                          /\ executed'[c] = Never => execs[c] <= forgotten'[c]
                          /\ attempts[c] > 0 => rank[c] > 0
      BY <3>1 DEF CountInv, TypeOK, Known
    <3> QED  BY <2>2, <3>2 DEF CountInv, Known, InHand, serverVars, rpcVars
  <2> QED  BY <2>4, <2>5, <2>6
<1>13. CASE Tick
  <2>1. /\ executed' \in [Cmds -> Ages(Ttl)] /\ disk' \in [Cmds -> Ages(Ttl)]
        /\ delivered' \in [Cmds -> Ages(Lease)]
    <3>1. \A age \in Ages(Lease) : Older(age, Lease) \in Ages(Lease)
      BY LeaseAssumption DEF Older, Ages, Never
    <3> QED  BY <1>13, <3>1, LogType DEF Tick, TypeOK
  <2>2. \A c \in Cmds : (executed'[c] # Never <=> executed[c] # Never)
                        /\ (disk'[c] # Never <=> disk[c] # Never)
    BY <1>13, TtlAssumption DEF Tick, TypeOK, Older, Ages, Never
  <2>3. TypeOK' /\ BeatInv'
    BY <1>13, <2>1 DEF Tick, TypeOK, BeatInv, rpcVars, loopVars, history
  <2>4. CountInv' /\ AckInv'
    BY <1>13, <2>2 DEF Tick, TypeOK, CountInv, AckInv, InHand, Known, rpcVars, loopVars, history
  <2> QED  BY <2>3, <2>4
<1>14. CASE UNCHANGED vars
  BY <1>14 DEF vars, TypeOK, BeatInv, CountInv, AckInv, InHand, Known,
     serverVars, rpcVars, logVars, loopVars, history
<1> QED
  BY <1>1, <1>2, <1>3, <1>4, <1>5, <1>6, <1>7, <1>8, <1>9, <1>10, <1>11, <1>12, <1>13, <1>14 DEF Next

\* The inductive invariant holds in every reachable state.
THEOREM Inductive == Spec => []IndInv
<1>1. Init => IndInv  BY InitInv
<1>2. IndInv /\ [Next]_vars => IndInv'  BY NextInv
<1> QED  BY <1>1, <1>2, PTL DEF Spec

\* Every variable keeps its type.
THEOREM TypeCorrect == Spec => []TypeOK
<1>1. IndInv => TypeOK  BY DEF IndInv
<1> QED  BY Inductive, <1>1, PTL

\* A command is never carried out more often than PendingCommands handed it out.
THEOREM DeliveriesBoundExecutions == Spec => []ExecsBoundedByDeliveries
<1>1. IndInv => ExecsBoundedByDeliveries  BY DEF IndInv, CountInv, ExecsBoundedByDeliveries
<1> QED  BY Inductive, <1>1, PTL

\* A second run needs a lost memory of the first one.
THEOREM ForgettingBoundsExecutions == Spec => []ExecsBoundedByForgetting
<1>1. IndInv => ExecsBoundedByForgetting
  BY DEF IndInv, CountInv, TypeOK, ExecsBoundedByForgetting
<1> QED  BY Inductive, <1>1, PTL

\* AckCommands only ever marks processed commands.
THEOREM AcksAreEarned == Spec => []AckedWasExecuted
<1>1. IndInv => AckedWasExecuted  BY DEF IndInv, AckInv, TypeOK, AckedWasExecuted
<1> QED  BY Inductive, <1>1, PTL

\* Every run and every ack is accounted for.
THEOREM ExecutionsAreAccounted == Spec => []ExecutionsAccounted
<1> QED  BY DeliveriesBoundExecutions, ForgettingBoundsExecutions, AcksAreEarned, PTL DEF ExecutionsAccounted

\* Only Execute changes execs, and the command it runs is in hand, hence not acknowledged.
LEMMA ExecStep ==
    ASSUME IndInv, [Next]_vars, execs' # execs
    PROVE  \E c \in Cmds : Execute(c) /\ InHand(c) /\ c \notin acked /\ acked' = acked /\ rank' = rank
<1>1. PICK c \in Cmds : Execute(c)
  BY DEF Next, vars, EnqueueCommand, SkipExecuted, AckCommands, Record, Crash, ApplyCommandResults,
     PendingCommands, Heartbeat, ReceiveReply, HeartbeatFails, Open, Tick, history
<1>2. InHand(c)  BY <1>1, CmdsAssumption DEF Execute, Unseen, InHand
<1> QED  BY <1>1, <1>2 DEF IndInv, AckInv, Execute, serverVars

\* An acknowledged command is never carried out again.
THEOREM AckEndsExecution == Spec => NoExecutionAfterAck
<1>1. IndInv /\ [Next]_vars => [\A c \in acked : execs'[c] = execs[c]]_vars
  <2> SUFFICES ASSUME IndInv, [Next]_vars, NEW c \in acked PROVE execs'[c] = execs[c]
    OBVIOUS
  <2>1. CASE execs' = execs  BY <2>1
  <2>2. CASE execs' # execs
    <3>1. PICK d \in Cmds : Execute(d) /\ d \notin acked  BY <2>2, ExecStep
    <3> QED  BY <3>1 DEF Execute, IndInv, TypeOK
  <2> QED  BY <2>1, <2>2
<1> QED  BY <1>1, Inductive, PTL DEF Spec, NoExecutionAfterAck

\* A command that was carried out has a row.
LEMMA RowOfRun == ASSUME IndInv, NEW c \in Cmds, execs[c] > 0 PROVE rank[c] > 0
  BY DEF IndInv, CountInv, TypeOK

\* The queue, the heartbeat and the log together implement CommandLifecycle.
THEOREM Refinement == Spec => RefinesLifecycle
<1>1. Init => Lifecycle!LInit
  BY DEF Init, Lifecycle!LInit, life
<1>2. IndInv /\ [Next]_vars => [Lifecycle!LNext]_<<life, execs>>
  <2> SUFFICES ASSUME IndInv, [Next]_vars PROVE [Lifecycle!LNext]_<<life, execs>>  OBVIOUS
  <2>1. CASE execs' # execs
    <3>1. PICK c \in Cmds : Execute(c) /\ InHand(c) /\ c \notin acked /\ acked' = acked /\ rank' = rank
      BY <2>1, ExecStep
    <3>2. execs[c] < MaxAttempts /\ rank[c] > 0
      BY <3>1, AttemptsAssumption DEF IndInv, CountInv, TypeOK
    <3>3. Lifecycle!Run(c)
      BY <3>1, <3>2 DEF Lifecycle!Run, life, Execute, IndInv, TypeOK
    <3> QED  BY <3>3 DEF Lifecycle!LNext
  <2>2. ASSUME NEW c \in Cmds, EnqueueCommand(c) PROVE [Lifecycle!LNext]_<<life, execs>>
    <3>1. Cardinality(Rows) \in Nat  BY RankType DEF IndInv
    <3>2. c \notin acked
      BY <2>2, RowOfRun DEF EnqueueCommand, IndInv, AckInv, TypeOK
    <3>3. life' = [life EXCEPT ![c] = "open"] /\ life[c] = "absent" /\ UNCHANGED execs
      <4>1. /\ rank[c] = 0 /\ acked' = acked /\ execs' = execs
            /\ rank' = [rank EXCEPT ![c] = Cardinality(Rows) + 1]
        BY <2>2 DEF EnqueueCommand, history
      <4>2. rank \in [Cmds -> Nat]  BY DEF IndInv, TypeOK
      <4>3. rank'[c] # 0 /\ \A d \in Cmds \ {c} : rank'[d] = rank[d]
        BY <3>1, <4>1, <4>2
      <4> QED  BY <3>2, <4>1, <4>3 DEF life
    <3> QED  BY <3>3 DEF Lifecycle!LNext, Lifecycle!Issue
  <2>3. ASSUME NEW ok \in BOOLEAN, AckCommands(ok) PROVE [Lifecycle!LNext]_<<life, execs>>
    <3> DEFINE batch == acked' \ acked
    <3>1. batch \subseteq Cmds /\ \A c \in batch : rank[c] > 0 /\ execs[c] > 0
      BY <2>3, RowOfRun DEF AckCommands, IndInv, BeatInv, AckInv, TypeOK
    <3>2. \A c \in batch : life[c] = "open"
      BY <3>1 DEF life, IndInv, TypeOK
    <3>3. life' = [c \in Cmds |-> IF c \in batch THEN "closed" ELSE life[c]] /\ UNCHANGED execs
      BY <2>3, <3>1 DEF AckCommands, life, history, IndInv, TypeOK
    <3>4. Lifecycle!Close(batch)  BY <3>1, <3>2, <3>3 DEF Lifecycle!Close
    <3> QED  BY <3>1, <3>4 DEF Lifecycle!LNext
  <2>4. CASE UNCHANGED <<rank, acked, execs>>
    BY <2>4 DEF life
  <2> QED
    BY <2>1, <2>2, <2>3, <2>4 DEF Next, vars, SkipExecuted, Execute, Record, Crash, ApplyCommandResults,
       PendingCommands, Heartbeat, ReceiveReply, HeartbeatFails, Open, Tick, serverVars, history
<1> QED  BY <1>1, <1>2, Inductive, PTL DEF Spec, RefinesLifecycle, Lifecycle!Spec, Lifecycle!lifeVars

-----------------------------------------------------------------------------
(* The quarantine column *)

\* A success that is queued or on its way was achieved by a run of the command.
ReportInv ==
    /\ \A r \in results \cup hbResults : r.ok => r.id \in succeeded
    /\ \A c \in succeeded : execs[c] > 0

\* A call that has still to write the status has inserted its row.
ReflectInv == \A c \in toReflect : rank[c] > 0

StatusInv == IndInv /\ DeviceTypeOK /\ ReportInv /\ ReflectInv /\ QuarantinedWasReported

-----------------------------------------------------------------------------
\* Every step of the quarantine is a step of the delivery protocol, or none.
LEMMA DeviceStepDelivers == [DeviceNext]_allVars => [Next]_vars
  BY DEF DeviceNext, allVars, IssueCommand, SkipKnown, Apply, Release, ReflectStatus, TouchAndAck,
     ApplyResults, RecordAck, AgentDies, MarkStaleOffline, Deliver, Beat, Confirm, BeatFails,
     AgentStarts, TimePasses, Next

\* A step that runs no command keeps the number of runs.
LEMMA OnlyExecuteRuns ==
    ASSUME \/ \E c \in Cmds : EnqueueCommand(c) \/ SkipExecuted(c)
           \/ \E ok \in BOOLEAN : AckCommands(ok) \/ Record(ok) \/ Crash(ok)
           \/ ApplyCommandResults \/ PendingCommands \/ Heartbeat \/ ReceiveReply
           \/ HeartbeatFails \/ Open \/ Tick \/ UNCHANGED vars
    PROVE  execs' = execs
  BY DEF EnqueueCommand, SkipExecuted, AckCommands, Record, Crash, ApplyCommandResults, PendingCommands,
     Heartbeat, ReceiveReply, HeartbeatFails, Open, Tick, vars, history

\* Rows are never deleted.
LEMMA RowsStay == ASSUME IndInv, [Next]_vars PROVE \A c \in Cmds : rank[c] > 0 => rank'[c] > 0
  <1>1. CASE \E c \in Cmds : EnqueueCommand(c)
    BY <1>1 DEF EnqueueCommand, IndInv, TypeOK
  <1>2. CASE ~ \E c \in Cmds : EnqueueCommand(c)
    <2>1. rank' = rank
      BY <1>2 DEF Next, vars, serverVars, SkipExecuted, Execute, AckCommands, Record, Crash, ApplyCommandResults,
         PendingCommands, Heartbeat, ReceiveReply, HeartbeatFails, Open, Tick
    <2> QED
      BY <2>1
  <1> QED
    BY <1>1, <1>2

\* Nothing is claimed of a device nobody touched.
LEMMA InitStatusInv == DeviceInit => StatusInv
  BY InitInv DEF DeviceInit, StatusInv, DeviceTypeOK, ReportInv, ReflectInv, QuarantinedWasReported,
     Statuses, IndInv

\* A run that succeeds is remembered; the reports of earlier runs stay true.
LEMMA RunStatusInv ==
    ASSUME StatusInv, IndInv', NEW c \in Cmds, NEW ok \in BOOLEAN, Execute(c),
           results' = {r \in results : r.id # c} \cup {Result(c, ok)},
           succeeded' = (IF ok THEN succeeded \cup {c} ELSE succeeded),
           active' \in BOOLEAN, firewall' \in {"open", "isolated", "cut"},
           UNCHANGED <<status, toReflect, hbResults>>
    PROVE  StatusInv'
  <1>1. execs \in [Cmds -> Nat] /\ execs' = [execs EXCEPT ![c] = @ + 1] /\ rank' = rank
    BY DEF Execute, StatusInv, IndInv, TypeOK, serverVars
  <1>2. \A d \in Cmds : execs[d] > 0 \/ d = c => execs'[d] > 0
    BY <1>1
  <1>3. Result(c, ok) \in [id : Cmds, ok : BOOLEAN] /\ Result(c, ok).id = c /\ Result(c, ok).ok = ok
    BY DEF Result
  <1>4. DeviceTypeOK'
    BY <1>3 DEF StatusInv, DeviceTypeOK, IndInv
  <1>5. ReportInv'
    <2>1. ASSUME NEW r \in results' \cup hbResults', r.ok PROVE r.id \in succeeded'
      <3>1. CASE r = Result(c, ok)
        BY <2>1, <3>1, <1>3
      <3>2. CASE r # Result(c, ok)
        BY <2>1, <3>2 DEF StatusInv, ReportInv
      <3> QED
        BY <3>1, <3>2
    <2>2. \A d \in succeeded' : execs'[d] > 0
      BY <1>2 DEF StatusInv, ReportInv, DeviceTypeOK
    <2> QED
      BY <2>1, <2>2 DEF ReportInv
  <1>6. ReflectInv' /\ QuarantinedWasReported'
    BY <1>1 DEF StatusInv, ReflectInv, QuarantinedWasReported, Quarantines
  <1> QED
    BY <1>4, <1>5, <1>6 DEF StatusInv

\* Steps that touch reports only by dropping them, and leave the status alone.
LEMMA QuietStatusInv ==
    ASSUME StatusInv, [Next]_vars, execs' = execs,
           results' \subseteq results, hbResults' \subseteq results \cup hbResults,
           toReflect' \subseteq toReflect, active' \in BOOLEAN, UNCHANGED <<firewall, succeeded>>,
           status' = status \/ status' \in Statuses \ {"QUARANTINED"}
    PROVE  StatusInv'
  <1>1. IndInv'
    BY NextInv DEF StatusInv
  <1>2. DeviceTypeOK' /\ ReportInv'
    BY <1>1 DEF StatusInv, DeviceTypeOK, ReportInv, IndInv
  <1>3. ReflectInv'
    BY RowsStay DEF StatusInv, ReflectInv, DeviceTypeOK
  <1>4. QuarantinedWasReported'
    BY DEF StatusInv, QuarantinedWasReported, Quarantines
  <1> QED
    BY <1>1, <1>2, <1>3, <1>4 DEF StatusInv

\* StatusInv is inductive.
LEMMA NextStatusInv == StatusInv /\ [DeviceNext]_allVars => StatusInv'
  <1> SUFFICES ASSUME StatusInv, [DeviceNext]_allVars PROVE StatusInv'
    OBVIOUS
  <1>1. [Next]_vars /\ IndInv'
    BY DeviceStepDelivers, NextInv DEF StatusInv
  <1>2. ASSUME NEW c \in Cmds, IssueCommand(c) PROVE StatusInv'
    <2>1. /\ execs' = execs /\ rank' = [rank EXCEPT ![c] = Cardinality(Rows) + 1]
          /\ toReflect' = toReflect \cup {c} /\ UNCHANGED <<status, results, hbResults, active, firewall, succeeded>>
      BY <1>2 DEF IssueCommand, EnqueueCommand, history
    <2>2. rank \in [Cmds -> Nat] /\ Cardinality(Rows) \in Nat
      BY RankType DEF StatusInv, IndInv, TypeOK
    <2>3. ReflectInv'
      <3>1. \A d \in Cmds : rank[d] > 0 \/ d = c => rank'[d] > 0
        BY <2>1, <2>2
      <3> QED
        BY <2>1, <3>1 DEF StatusInv, ReflectInv, DeviceTypeOK
    <2>4. DeviceTypeOK' /\ ReportInv' /\ QuarantinedWasReported'
      BY <1>1, <2>1 DEF StatusInv, DeviceTypeOK, ReportInv, QuarantinedWasReported, Quarantines, IndInv
    <2> QED
      BY <1>1, <2>3, <2>4 DEF StatusInv
  <1>3. ASSUME NEW c \in Cmds, NEW ok \in BOOLEAN, ReflectStatus(c, ok) PROVE StatusInv'
    <2>1. status' = status \/ status' \in Statuses \ {"QUARANTINED"}
      BY <1>3 DEF ReflectStatus, ReflectedStatus, Statuses
    <2>2. execs' = execs /\ toReflect' \subseteq toReflect /\ UNCHANGED <<results, hbResults, active, firewall, succeeded>>
      BY <1>3 DEF ReflectStatus, vars, history
    <2> QED
      BY <1>1, <2>1, <2>2, QuietStatusInv DEF StatusInv, DeviceTypeOK
  <1>4. CASE MarkStaleOffline \/ (\E ok \in BOOLEAN : TouchAndAck(ok))
    <2>1. execs' = execs
      BY <1>4, OnlyExecuteRuns DEF MarkStaleOffline, TouchAndAck
    <2>2. status' = status \/ status' \in Statuses \ {"QUARANTINED"}
      BY <1>4 DEF MarkStaleOffline, TouchAndAck, Statuses
    <2>3. UNCHANGED <<toReflect, results, hbResults, active, firewall, succeeded>>
      BY <1>4 DEF MarkStaleOffline, TouchAndAck
    <2> QED
      BY <1>1, <2>1, <2>2, <2>3, QuietStatusInv DEF StatusInv, DeviceTypeOK
  <1>5. ASSUME NEW ok \in BOOLEAN, ApplyResults(ok) PROVE StatusInv'
    <2> DEFINE done == {r.id : r \in {x \in hbResults : x.ok}}
    <2>1. /\ execs' = execs /\ rank' = rank /\ UNCHANGED <<toReflect, results, hbResults, active, firewall, succeeded>>
      BY <1>5 DEF ApplyResults, ApplyCommandResults, history, serverVars
    <2>2. done \subseteq succeeded
      BY DEF StatusInv, ReportInv
    <2>3. status' = status \/ \E c \in done : status' = EffectiveStatus(c)
      BY <1>5 DEF ApplyResults
    <2>4. \A c \in done : c \in Cmds /\ EffectiveStatus(c) \in Statuses
                          /\ (EffectiveStatus(c) = "QUARANTINED" => c \in Quarantines)
      BY <2>2 DEF EffectiveStatus, Statuses, Quarantines, StatusInv, DeviceTypeOK
    <2> HIDE DEF done
    <2>5. DeviceTypeOK' /\ ReportInv' /\ ReflectInv'
      BY <1>1, <2>1, <2>3, <2>4 DEF StatusInv, DeviceTypeOK, ReportInv, ReflectInv, IndInv
    <2>6. QuarantinedWasReported'
      BY <2>1, <2>2, <2>3, <2>4 DEF StatusInv, QuarantinedWasReported, Quarantines
    <2> QED
      BY <1>1, <2>5, <2>6 DEF StatusInv
  <1>6. ASSUME NEW c \in Cmds, Apply(c) PROVE StatusInv'
    <2>1. PICK ok \in BOOLEAN :
            /\ firewall' \in {firewall, "isolated"} \cup FailedIsolate /\ active' = (active \/ ok)
            /\ results' = {r \in results : r.id # c} \cup {Result(c, ok)}
            /\ succeeded' = IF ok THEN succeeded \cup {c} ELSE succeeded
      BY <1>6 DEF Apply
    <2>2. firewall' \in {"open", "isolated", "cut"}
      BY <2>1, PlatformAssumption DEF FailedIsolate, StatusInv, DeviceTypeOK
    <2>3. Execute(c) /\ UNCHANGED <<status, toReflect, hbResults>> /\ active' \in BOOLEAN
      BY <1>6, <2>1 DEF Apply, StatusInv, DeviceTypeOK
    <2> QED
      BY <1>1, <2>1, <2>2, <2>3, RunStatusInv
  <1>7. ASSUME NEW c \in Cmds, Release(c) PROVE StatusInv'
    <2>1. PICK ok \in BOOLEAN :
            /\ firewall' \in {firewall, "open"} /\ active' = (active /\ ~ok)
            /\ results' = {r \in results : r.id # c} \cup {Result(c, ok)}
            /\ succeeded' = IF ok THEN succeeded \cup {c} ELSE succeeded
      <3>1. PICK out \in (IF active THEN ReleaseOutcomes ELSE {[ok |-> TRUE, fw |-> firewall]}) :
              /\ firewall' = out.fw /\ active' = (active /\ ~out.ok)
              /\ results' = {r \in results : r.id # c} \cup {Result(c, out.ok)}
              /\ succeeded' = IF out.ok THEN succeeded \cup {c} ELSE succeeded
        BY <1>7 DEF Release
      <3>2. out.ok \in BOOLEAN /\ out.fw \in {firewall, "open"}
        <4>1. out \in {[ok |-> TRUE, fw |-> "open"], [ok |-> FALSE, fw |-> firewall], [ok |-> TRUE, fw |-> firewall]}
          BY <3>1, Zenon DEF ReleaseOutcomes
        <4>2. CASE out = [ok |-> TRUE, fw |-> "open"]
          BY <4>2
        <4>3. CASE out = [ok |-> FALSE, fw |-> firewall]
          BY <4>3
        <4>4. CASE out = [ok |-> TRUE, fw |-> firewall]
          BY <4>4
        <4> QED
          BY <4>1, <4>2, <4>3, <4>4, Zenon
      <3> QED
        BY <3>1, <3>2
    <2>2. firewall' \in {"open", "isolated", "cut"} /\ active' \in BOOLEAN
      BY <2>1 DEF StatusInv, DeviceTypeOK
    <2>3. Execute(c) /\ UNCHANGED <<status, toReflect, hbResults>>
      BY <1>7 DEF Release
    <2> QED
      BY <1>1, <2>1, <2>2, <2>3, RunStatusInv
  <1>8. CASE Beat \/ Confirm \/ BeatFails \/ (\E ok \in BOOLEAN : AgentDies(ok))
    <2>1. execs' = execs
      BY <1>8, OnlyExecuteRuns DEF Beat, Confirm, BeatFails, AgentDies
    <2>2. /\ results' \subseteq results /\ hbResults' \subseteq results \cup hbResults /\ active' \in {active, FALSE}
          /\ UNCHANGED <<status, toReflect, firewall, succeeded>>
      BY <1>8 DEF Beat, Confirm, BeatFails, AgentDies
    <2> QED
      BY <1>1, <2>1, <2>2, QuietStatusInv DEF StatusInv, DeviceTypeOK
  <1>9. CASE \/ \E c \in Cmds : SkipKnown(c)
             \/ \E ok \in BOOLEAN : RecordAck(ok)
             \/ Deliver \/ AgentStarts \/ TimePasses \/ UNCHANGED allVars
    <2>1. execs' = execs
      BY <1>9, OnlyExecuteRuns DEF SkipKnown, RecordAck, Deliver, AgentStarts, TimePasses, allVars
    <2>2. UNCHANGED deviceVars
      BY <1>9 DEF SkipKnown, RecordAck, Deliver, AgentStarts, TimePasses, allVars
    <2> QED
      BY <1>1, <2>1, <2>2, QuietStatusInv DEF deviceVars, StatusInv, DeviceTypeOK
  <1> QED
    BY <1>2, <1>3, <1>4, <1>5, <1>6, <1>7, <1>8, <1>9 DEF DeviceNext

-----------------------------------------------------------------------------
\* The status invariant holds of every state.
THEOREM StatusInductive == DeviceSpec => []StatusInv
  BY InitStatusInv, NextStatusInv, PTL DEF DeviceSpec

\* Every variable of the quarantine keeps its type.
THEOREM DeviceTypes == DeviceSpec => []DeviceTypeOK
  BY StatusInductive, PTL DEF StatusInv

\* QuarantineDevice: the console shows QUARANTINED only if some QUARANTINE command
\* succeeded on the device, whatever heartbeats, crashes and sweeps intervened.
THEOREM IsolationWasReported == DeviceSpec => []QuarantinedWasReported
  BY StatusInductive, PTL DEF StatusInv

\* A step that ends a (pending) quarantine applies a release: one that was issued.
LEMMA EndedByRelease ==
    ASSUME StatusInv, [DeviceNext]_allVars, status \in Contained, status' \notin Contained
    PROVE  Releases \cap Rows # {}
  <1>1. \/ \E c \in Cmds, ok \in BOOLEAN : ReflectStatus(c, ok)
        \/ \E ok \in BOOLEAN : ApplyResults(ok)
    BY DEF DeviceNext, allVars, deviceVars, Contained, IssueCommand, SkipKnown, Apply, Release, TouchAndAck, RecordAck,
       AgentDies, MarkStaleOffline, Deliver, Beat, Confirm, BeatFails, AgentStarts, TimePasses
  <1>2. ASSUME NEW c \in Cmds, NEW ok \in BOOLEAN, ReflectStatus(c, ok) PROVE Releases \cap Rows # {}
    <2>1. c \in toReflect /\ TypeOf[c] # "QUARANTINE"
      BY <1>2 DEF ReflectStatus, ReflectedStatus, Contained
    <2> QED
      BY <2>1, TypeOfAssumption DEF StatusInv, ReflectInv, Releases, Rows
  <1>3. ASSUME NEW ok \in BOOLEAN, ApplyResults(ok) PROVE Releases \cap Rows # {}
    <2>1. PICK r \in hbResults : r.ok /\ status' = EffectiveStatus(r.id)
      BY <1>3 DEF ApplyResults
    <2>2. r.id \in Cmds /\ execs[r.id] > 0 /\ TypeOf[r.id] # "QUARANTINE"
      BY <2>1 DEF StatusInv, ReportInv, DeviceTypeOK, EffectiveStatus, Contained
    <2>3. rank[r.id] > 0
      BY <2>2, RowOfRun DEF StatusInv
    <2> QED
      BY <2>2, <2>3, TypeOfAssumption DEF Releases, Rows
  <1> QED
    BY <1>1, <1>2, <1>3

\* The sweep, the heartbeat and late results never turn a quarantine back: some
\* administrator issued a release.
THEOREM ReleaseEndsQuarantine == DeviceSpec => OnlyReleaseEndsQuarantine
  <1>1. StatusInv /\ [DeviceNext]_allVars
          => [(status \in Contained /\ status' \notin Contained) => Releases \cap Rows # {}]_allVars
    BY EndedByRelease
  <1> QED
    BY <1>1, StatusInductive, PTL DEF DeviceSpec, OnlyReleaseEndsQuarantine

=================================================================================
