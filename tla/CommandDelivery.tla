--------------------------- MODULE CommandDelivery ---------------------------
(***************************************************************************)
(* At-least-once delivery of admin commands to ONE device.                 *)
(*                                                                         *)
(* Server side: the device_commands table (server/internal/db/store.go:    *)
(* EnqueueCommand, PendingCommands, AckCommands) driven by the Heartbeat   *)
(* handler (server/internal/grpc/agent_handler.go).  Agent side: the beat  *)
(* closure and handleCommands of agent/cmd/agent/main.go, and the          *)
(* executed-command log of agent/internal/cmdlog/cmdlog.go.                *)
(*                                                                         *)
(* Each SQL statement is atomic, so the Heartbeat handler takes one step   *)
(* per statement.  Times are kept as ages that saturate one past the only  *)
(* bound they are compared with, so a behaviour may be arbitrarily long.   *)
(***************************************************************************)
EXTENDS Integers, FiniteSets

CONSTANTS
    Cmds,           \* command ids (rows that may be inserted)
    NoCmd,          \* "no command is being processed"
    Lease,          \* cmdLeaseSeconds, in ticks
    MaxAttempts,    \* cmdMaxAttempts
    BatchLimit,     \* LIMIT of PendingCommands
    Ttl             \* cmdlog.ttl, in ticks

ASSUME CmdsAssumption == IsFiniteSet(Cmds) /\ NoCmd \notin Cmds
ASSUME LeaseAssumption == Lease \in Nat
ASSUME AttemptsAssumption == MaxAttempts \in Nat \ {0}
ASSUME BatchAssumption == BatchLimit \in Nat \ {0}
\* cmdlog.go: the ttl is longer than the server's whole redelivery window.
ASSUME TtlAssumption == Ttl \in Nat /\ Ttl > Lease * MaxAttempts

VARIABLES
    rank,       \* created_at order of a row; 0 while the row does not exist
    delivered,  \* age of delivered_at; Never while it is NULL
    attempts,   \* attempt_count
    acked,      \* rows whose acked_at is set
    phase,      \* next statement of the Heartbeat handler; "none" if not running
    hbAcks,     \* AckedCommandIds of the request in progress
    ackFailed,  \* AckCommands of the request in progress returned an error
    reply,      \* PendingCommands of the response
    pc,         \* where the agent is in its beat
    inbox,      \* commands handleCommands has still to look at
    current,    \* command executed but not recorded yet
    executed,   \* cmdlog.executed: age of the entry, Never if there is none
    disk,       \* the same map in executed-commands.json
    ackQueue,   \* cmdlog.acks (memory only)
    execs,      \* history: how often the command was carried out
    forgotten   \* history: how often the agent lost the memory of having done so

serverVars == <<rank, delivered, attempts, acked>>
rpcVars    == <<phase, hbAcks, ackFailed, reply>>
logVars    == <<executed, disk, ackQueue>>
loopVars   == <<pc, inbox, current>>
history    == <<execs, forgotten>>
vars       == <<serverVars, rpcVars, logVars, loopVars, history>>

Never == -1
Ages(bound) == {Never} \cup 0 .. (bound + 1)
Older(age, bound) == IF age = Never \/ age = bound + 1 THEN age ELSE age + 1

Rows == {c \in Cmds : rank[c] > 0}

TypeOK ==
    /\ rank \in [Cmds -> Nat]
    /\ delivered \in [Cmds -> Ages(Lease)]
    /\ attempts \in [Cmds -> 0 .. MaxAttempts]
    /\ acked \in SUBSET Cmds
    /\ phase \in {"none", "ack", "results", "pending", "reply"}
    /\ hbAcks \in SUBSET Cmds
    /\ ackFailed \in BOOLEAN
    /\ reply \in SUBSET Cmds
    /\ pc \in {"idle", "waiting", "handling", "down"}
    /\ inbox \in SUBSET Cmds
    /\ current \in Cmds \cup {NoCmd}
    /\ executed \in [Cmds -> Ages(Ttl)]
    /\ disk \in [Cmds -> Ages(Ttl)]
    /\ ackQueue \in SUBSET Cmds
    /\ execs \in [Cmds -> Nat]
    /\ forgotten \in [Cmds -> Nat]

Init ==
    /\ rank = [c \in Cmds |-> 0]
    /\ delivered = [c \in Cmds |-> Never]
    /\ attempts = [c \in Cmds |-> 0]
    /\ acked = {}
    /\ phase = "none" /\ hbAcks = {} /\ ackFailed = FALSE /\ reply = {}
    /\ pc = "idle" /\ inbox = {} /\ current = NoCmd
    /\ executed = [c \in Cmds |-> Never]
    /\ disk = [c \in Cmds |-> Never]
    /\ ackQueue = {}
    /\ execs = [c \in Cmds |-> 0]
    /\ forgotten = [c \in Cmds |-> 0]

-----------------------------------------------------------------------------
(* Server *)

\* INSERT INTO device_commands: created_at is later than every row's.
EnqueueCommand(c) ==
    /\ rank[c] = 0
    /\ rank' = [rank EXCEPT ![c] = Cardinality(Rows) + 1]
    /\ UNCHANGED <<delivered, attempts, acked, rpcVars, logVars, loopVars, history>>

\* Mutants of Eligible: attempt_count <= limit; acked_at not tested; no redelivery.
EligibleOffByOne ==
    {c \in Rows : /\ c \notin acked /\ attempts[c] <= MaxAttempts
                  /\ delivered[c] = Never \/ delivered[c] > Lease}
EligibleIgnoresAck ==
    {c \in Rows : attempts[c] < MaxAttempts /\ (delivered[c] = Never \/ delivered[c] > Lease)}
EligibleOnce == {c \in Rows : c \notin acked /\ delivered[c] = Never}

\* The WHERE clause of PendingCommands.
Eligible ==
    {c \in Rows : /\ c \notin acked
                  /\ attempts[c] < MaxAttempts
                  /\ delivered[c] = Never \/ delivered[c] > Lease}

\* ORDER BY created_at LIMIT BatchLimit.  RETURNING promises no order, so the
\* batch is a set and the agent may meet its members in any order.
IsBatch(batch) ==
    /\ \A c \in batch, d \in Eligible \ batch : rank[c] < rank[d]
    /\ \/ batch = Eligible /\ Cardinality(batch) <= BatchLimit
       \/ Cardinality(batch) = BatchLimit

\* Mutant: the UPDATE forgets id = ANY(ids) and marks every delivered row.
AckCommandsAll(ok) ==
    /\ phase = "ack"
    /\ ok \/ hbAcks # {}
    /\ acked' = IF ok /\ hbAcks # {} THEN acked \cup {c \in Rows : delivered[c] # Never} ELSE acked
    /\ ackFailed' = ~ok
    /\ phase' = "results"
    /\ UNCHANGED <<rank, delivered, attempts, hbAcks, reply, logVars, loopVars, history>>

\* AckCommands; its error is dropped by the handler (ok = FALSE).
AckCommands(ok) ==
    /\ phase = "ack"
    /\ ok \/ hbAcks # {}
    /\ acked' = IF ok THEN acked \cup hbAcks ELSE acked
    /\ ackFailed' = ~ok
    /\ phase' = "results"
    /\ UNCHANGED <<rank, delivered, attempts, hbAcks, reply, logVars, loopVars, history>>

\* ApplyCommandResults writes devices.status only (module DeviceStatus).
ApplyCommandResults ==
    /\ phase = "results"
    /\ phase' = "pending"
    /\ UNCHANGED <<serverVars, hbAcks, ackFailed, reply, logVars, loopVars, history>>

\* UPDATE device_commands ... RETURNING, and the handler returns the response.
PendingCommands ==
    /\ phase = "pending"
    /\ \E batch \in SUBSET Eligible :
          /\ IsBatch(batch)
          /\ delivered' = [c \in Cmds |-> IF c \in batch THEN 0 ELSE delivered[c]]
          /\ attempts' = [c \in Cmds |-> IF c \in batch THEN attempts[c] + 1 ELSE attempts[c]]
          /\ reply' = batch
    /\ phase' = "reply"
    /\ UNCHANGED <<rank, acked, hbAcks, ackFailed, logVars, loopVars, history>>

-----------------------------------------------------------------------------
(* Agent: one beat *)

\* TakeAcks copies the queue without emptying it, then the RPC is issued.
Heartbeat ==
    /\ pc = "idle"
    /\ pc' = "waiting"
    /\ phase' = "ack"
    /\ hbAcks' = ackQueue
    /\ ackFailed' = FALSE
    /\ reply' = {}
    /\ UNCHANGED <<serverVars, logVars, inbox, current, history>>

\* The response arrives: ConfirmAcks(acks), then handleCommands starts.
ReceiveReply ==
    /\ pc = "waiting" /\ phase = "reply"
    /\ ackQueue' = ackQueue \ hbAcks
    /\ inbox' = reply
    /\ pc' = IF reply = {} THEN "idle" ELSE "handling"
    /\ phase' = "none" /\ hbAcks' = {} /\ reply' = {} /\ ackFailed' = FALSE
    /\ UNCHANGED <<serverVars, executed, disk, current, history>>

\* The RPC fails (15 s deadline, lost connection, handler error) at any point of
\* the handler, whose context is cancelled; the queues are not cleared.
HeartbeatFails ==
    /\ pc = "waiting"
    /\ pc' = "idle"
    /\ phase' = "none" /\ hbAcks' = {} /\ reply' = {} /\ ackFailed' = FALSE
    /\ UNCHANGED <<serverVars, logVars, inbox, current, history>>

Unseen(c) == pc = "handling" /\ current = NoCmd /\ c \in inbox

LoopAfter(rest) == IF rest = {} THEN "idle" ELSE "handling"

\* clog.Executed(id): do not run it again, but acknowledge it again.
SkipExecuted(c) ==
    /\ Unseen(c)
    /\ executed[c] # Never
    /\ ackQueue' = ackQueue \cup {c}
    /\ inbox' = inbox \ {c}
    /\ pc' = LoopAfter(inbox')
    /\ UNCHANGED <<serverVars, rpcVars, executed, disk, current, history>>

\* Mutant: no idempotency check.
ExecuteUnchecked(c) ==
    /\ Unseen(c)
    /\ execs' = [execs EXCEPT ![c] = @ + 1]
    /\ current' = c
    /\ UNCHANGED <<serverVars, rpcVars, logVars, pc, inbox, forgotten>>

\* The switch on the command type: the effect happens (or is handed to a goroutine).
Execute(c) ==
    /\ Unseen(c)
    /\ executed[c] = Never
    /\ execs' = [execs EXCEPT ![c] = @ + 1]
    /\ current' = c
    /\ UNCHANGED <<serverVars, rpcVars, logVars, pc, inbox, forgotten>>

Pruned(log) == [c \in Cmds |-> IF log[c] > Ttl THEN Never ELSE log[c]]

\* Count a loss for every command the agent knew it had carried out and no longer knows.
Forget(log) ==
    forgotten' = [c \in Cmds |->
        IF (executed[c] # Never \/ c = current) /\ log[c] = Never
          THEN forgotten[c] + 1 ELSE forgotten[c]]

\* clog.Record (stamp, prune, save: the save is best effort) and clog.QueueAck.
Record(saved) ==
    /\ pc = "handling" /\ current # NoCmd
    /\ executed' = Pruned([executed EXCEPT ![current] = 0])
    /\ disk' = IF saved THEN executed' ELSE disk
    /\ Forget(executed')
    /\ ackQueue' = ackQueue \cup {current}
    /\ inbox' = inbox \ {current}
    /\ current' = NoCmd
    /\ pc' = LoopAfter(inbox')
    /\ UNCHANGED <<serverVars, rpcVars, execs>>

\* The agent process dies: memory is gone, what is left of the log are the
\* entries of the file that Open would still accept.  saveLocked renames a file
\* it never synced, so a power loss may leave an unreadable one (fileLost), which
\* Open silently ignores.
Crash(fileLost) ==
    /\ pc # "down"
    /\ pc' = "down"
    /\ disk' = IF fileLost THEN [c \in Cmds |-> Never] ELSE disk
    /\ executed' = Pruned(disk')
    /\ Forget(executed')
    /\ ackQueue' = {} /\ inbox' = {} /\ current' = NoCmd
    /\ phase' = "none" /\ hbAcks' = {} /\ reply' = {} /\ ackFailed' = FALSE
    /\ UNCHANGED <<serverVars, execs>>

\* cmdlog.Open: load the file and prune it (the file is not rewritten).
Open ==
    /\ pc = "down"
    /\ pc' = "idle"
    /\ executed' = Pruned(executed)
    /\ Forget(executed')
    /\ UNCHANGED <<serverVars, rpcVars, disk, ackQueue, inbox, current, execs>>

-----------------------------------------------------------------------------
\* Time passes on both machines.
Tick ==
    /\ delivered' = [c \in Cmds |-> Older(delivered[c], Lease)]
    /\ executed' = [c \in Cmds |-> Older(executed[c], Ttl)]
    /\ disk' = [c \in Cmds |-> Older(disk[c], Ttl)]
    /\ UNCHANGED <<rank, attempts, acked, rpcVars, loopVars, ackQueue, history>>

Next ==
    \/ \E c \in Cmds : EnqueueCommand(c) \/ SkipExecuted(c) \/ Execute(c)
    \/ \E ok \in BOOLEAN : AckCommands(ok) \/ Record(ok) \/ Crash(ok)
    \/ ApplyCommandResults \/ PendingCommands
    \/ Heartbeat \/ ReceiveReply \/ HeartbeatFails
    \/ Open \/ Tick

Spec == Init /\ [][Next]_vars

\* The beat ticker, the watchdog that restarts a dead agent and the clock keep
\* going, an RPC ends at its deadline at the latest, and a heartbeat that is tried again and again eventually runs every
\* statement of its handler.  Nothing is assumed about losses, failed saves,
\* failed acks or crashes.
Fairness ==
    /\ SF_vars(Heartbeat) /\ WF_vars(Open) /\ WF_vars(Tick)
    /\ WF_vars(ReceiveReply \/ HeartbeatFails)
    /\ WF_vars(\E c \in Cmds : SkipExecuted(c) \/ Execute(c))
    /\ WF_vars(\E saved \in BOOLEAN : Record(saved))
    /\ SF_vars(\E ok \in BOOLEAN : AckCommands(ok))
    /\ SF_vars(ApplyCommandResults) /\ SF_vars(PendingCommands)

FairSpec == Spec /\ Fairness

-----------------------------------------------------------------------------
(* Properties *)

\* A command is carried out at most once for each time PendingCommands handed it
\* out: retries, lost responses and crashes never multiply a delivery.
ExecsBoundedByDeliveries == \A c \in Cmds : execs[c] <= attempts[c]

\* handleCommands runs a command a second time only if the agent lost its memory
\* of the first run (crash before Record, lost file, pruned entry): redelivery
\* alone never does it.
ExecsBoundedByForgetting == \A c \in Cmds : execs[c] <= 1 + forgotten[c]

\* AckCommands marks only commands the agent has processed.
AckedWasExecuted == \A c \in acked : execs[c] > 0

\* So every run is accounted for by a delivery and, beyond the first, by a loss of memory, and every
\* ack by a run.
ExecutionsAccounted == ExecsBoundedByDeliveries /\ ExecsBoundedByForgetting /\ AckedWasExecuted

\* Once acked_at is set the command is never carried out again, whatever replies
\* were lost or are still on their way when it is set.
NoExecutionAfterAck ==
    [][\A c \in acked : execs'[c] = execs[c]]_vars

\* Every inserted command is eventually acknowledged or given up after
\* cmdMaxAttempts deliveries (store.go: no command is lost or retried for ever).
EventuallySettled ==
    \A c \in Cmds : rank[c] > 0 ~> (c \in acked \/ attempts[c] = MaxAttempts)

\* cmdlog.go, package comment: the agent does not carry out a command a second
\* time even if it crashes.
AtMostOnce == \A c \in Cmds : execs[c] <= 1

-----------------------------------------------------------------------------
(* The inductive invariant behind the safety properties *)

Known(c) == executed[c] # Never \/ c = current
InHand(c) == c \in reply \/ (c \in inbox /\ c # current)

\* The single-threaded beat: one RPC or one handleCommands loop at a time.
BeatInv ==
    /\ (phase = "none") <=> (pc # "waiting")
    /\ pc # "handling" => inbox = {} /\ current = NoCmd
    /\ current # NoCmd => current \in inbox
    /\ phase # "reply" => reply = {}
    /\ hbAcks \subseteq ackQueue

\* Every run is paid for by a delivery and by at most one memory of it.
CountInv ==
    \A c \in Cmds : /\ execs[c] <= attempts[c]
                    /\ InHand(c) => execs[c] < attempts[c]
                    /\ execs[c] <= forgotten[c] + 1
                    /\ ~Known(c) => execs[c] <= forgotten[c]
                    /\ attempts[c] > 0 => rank[c] > 0

\* Only processed commands are remembered, queued for an ack or acknowledged,
\* and an acknowledged one is no longer on its way to handleCommands.
AckInv ==
    \A c \in Cmds :
        /\ (executed[c] # Never \/ disk[c] # Never \/ c = current
             \/ c \in ackQueue \/ c \in acked) => execs[c] > 0
        /\ c \in acked => ~InHand(c)

IndInv == TypeOK /\ BeatInv /\ CountInv /\ AckInv

-----------------------------------------------------------------------------
(* What the delivery promises, whatever happens in between *)

life == [c \in Cmds |-> IF rank[c] = 0 THEN "absent"
                        ELSE IF c \in acked THEN "closed" ELSE "open"]

Lifecycle == INSTANCE CommandLifecycle WITH runs <- execs, MaxRuns <- MaxAttempts

\* The whole protocol implements the abstract life of a command.
RefinesLifecycle == Lifecycle!Spec
==============================================================================
