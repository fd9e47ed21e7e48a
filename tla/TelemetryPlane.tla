---------------------------- MODULE TelemetryPlane ----------------------------
(***************************************************************************)
(* The export tap of server/internal/telemetryplane: ProcessEvent hands    *)
(* each processed event to ObserveProcessed, which reserves a slot with    *)
(* the lock-free BackpressureController, enqueues it, and one worker       *)
(* drains the queue to the sinks.  Start and Stop are called by one        *)
(* goroutine at a time (app's boot and shut-down, FabricCoordinator).      *)
(*                                                                         *)
(* A record is its priority: HIGH with admitted detections, else INFO.     *)
(* The loads and compare-and-swaps of Acquire are steps of their own;      *)
(* Release's loop takes effect in its last compare-and-swap.  Counters     *)
(* that only feed Stats (accepted, dropped, sinkErrors, sheddingMode) are  *)
(* left out.                                                               *)
(***************************************************************************)
EXTENDS Integers, Sequences, FiniteSets

CONSTANTS
    Observers,      \* goroutines that may be inside ObserveProcessed
    MaxQueueDepth   \* TapConfig.QueueDepth: capacity of ch and of the controller

ASSUME ObserversAssumption == IsFiniteSet(Observers)
ASSUME DepthAssumption == MaxQueueDepth \in Nat \ {0}

VARIABLES
    running,    \* Plane.running
    done,       \* Plane.done is closed
    caller,     \* where the goroutine that calls Start and Stop is
    worker,     \* where Plane.run is
    rec,        \* record the worker emits; None between records
    ch,         \* the queue
    depth,      \* BackpressureController.currentDepth
    obs,        \* where each observer is
    prio,       \* priority of the observer's record
    loaded      \* depth that the observer's Acquire loaded

lifeVars == <<running, done, caller>>
obsVars  == <<obs, prio, loaded>>
vars     == <<lifeVars, worker, rec, ch, depth, obsVars>>

None == "none"
Priorities == {"INFO", "HIGH"}

TapTypeOK ==
    /\ running \in BOOLEAN /\ done \in BOOLEAN
    /\ caller \in {"idle", "close", "wait"}
    /\ worker \in {"off", "select", "drain"}
    /\ rec \in Priorities \cup {None}
    /\ ch \in Seq(Priorities) /\ Len(ch) <= MaxQueueDepth
    /\ depth \in 0 .. MaxQueueDepth
    /\ obs \in [Observers -> {"idle", "load", "cas", "enqueue"}]
    /\ prio \in [Observers -> Priorities]
    /\ loaded \in [Observers -> 0 .. MaxQueueDepth]

Init ==
    /\ running = FALSE /\ done = FALSE /\ caller = "idle"
    /\ worker = "off" /\ rec = None /\ ch = <<>> /\ depth = 0
    /\ obs = [o \in Observers |-> "idle"]
    /\ prio = [o \in Observers |-> "INFO"]
    /\ loaded = [o \in Observers |-> 0]

-----------------------------------------------------------------------------
(* Start and Stop *)

\* A new done channel and a new worker.
Start ==
    /\ caller = "idle" /\ ~running
    /\ running' = TRUE /\ done' = FALSE
    /\ worker' = "select"
    /\ UNCHANGED <<caller, rec, ch, depth, obsVars>>

\* Stop, under the write lock.
Stop ==
    /\ caller = "idle" /\ running
    /\ running' = FALSE
    /\ caller' = "close"
    /\ UNCHANGED <<done, worker, rec, ch, depth, obsVars>>

\* Mutant: done is not closed.
CloseDoneForgotten ==
    /\ caller = "close"
    /\ caller' = "wait"
    /\ UNCHANGED <<running, done, worker, rec, ch, depth, obsVars>>

\* close(p.done).
CloseDone ==
    /\ caller = "close"
    /\ done' = TRUE
    /\ caller' = "wait"
    /\ UNCHANGED <<running, worker, rec, ch, depth, obsVars>>

\* p.wg.Wait() returns.
StopReturns ==
    /\ caller = "wait" /\ worker = "off"
    /\ caller' = "idle"
    /\ UNCHANGED <<running, done, worker, rec, ch, depth, obsVars>>

-----------------------------------------------------------------------------
(* The worker *)

\* case rec := <-p.ch, in the outer loop or in the drain loop.
Receive ==
    /\ worker # "off" /\ rec = None /\ ch # <<>>
    /\ rec' = Head(ch)
    /\ ch' = Tail(ch)
    /\ UNCHANGED <<lifeVars, worker, depth, obsVars>>

\* Release never goes below zero.
Release == IF depth > 0 THEN depth - 1 ELSE depth

\* The sinks were called, whatever they returned; emit ends with Release.
Emit ==
    /\ rec # None
    /\ rec' = None
    /\ depth' = Release
    /\ UNCHANGED <<lifeVars, worker, ch, obsVars>>

\* case <-p.done.
DoneSeen ==
    /\ worker = "select" /\ rec = None /\ done
    /\ worker' = "drain"
    /\ UNCHANGED <<lifeVars, rec, ch, depth, obsVars>>

\* The drain loop finds the queue empty and run returns.
Drained ==
    /\ worker = "drain" /\ rec = None /\ ch = <<>>
    /\ worker' = "off"
    /\ UNCHANGED <<lifeVars, rec, ch, depth, obsVars>>

-----------------------------------------------------------------------------
(* ObserveProcessed *)

At(o, step) == obs' = [obs EXCEPT ![o] = step]

\* The call of ProcessEvent; it is a counted drop unless the plane runs.
ObserveProcessed(o, p) ==
    /\ obs[o] = "idle" /\ running
    /\ prio' = [prio EXCEPT ![o] = p]
    /\ At(o, "load")
    /\ UNCHANGED <<lifeVars, worker, rec, ch, depth, loaded>>

\* usage >= HighWatermark, with HighWatermark = 0.8.
High(d) == 5 * d >= 4 * MaxQueueDepth

\* Mutant: raw telemetry is never shed.
AdmitsAll(p, d) == d < MaxQueueDepth

\* Acquire's decision: none above the limit, only findings above the watermark.
Admits(p, d) == d < MaxQueueDepth /\ (High(d) => p = "HIGH")

\* Acquire loads the depth and gives up or goes on ...
Load(o) ==
    /\ obs[o] = "load"
    /\ loaded' = [loaded EXCEPT ![o] = depth]
    /\ At(o, IF Admits(prio[o], depth) THEN "cas" ELSE "idle")
    /\ UNCHANGED <<lifeVars, worker, rec, ch, depth, prio>>

\* ... or the caller's context is done already.
Cancelled(o) ==
    /\ obs[o] = "load"
    /\ At(o, "idle")
    /\ UNCHANGED <<lifeVars, worker, rec, ch, depth, prio, loaded>>

\* Mutant: a store instead of the compare-and-swap.
StoreDepth(o) ==
    /\ obs[o] = "cas"
    /\ depth' = loaded[o] + 1
    /\ At(o, "enqueue")
    /\ UNCHANGED <<lifeVars, worker, rec, ch, prio, loaded>>

\* The compare-and-swap; the loop starts again if it fails.
CompareAndSwap(o) ==
    /\ obs[o] = "cas"
    /\ depth' = IF depth = loaded[o] THEN depth + 1 ELSE depth
    /\ At(o, IF depth = loaded[o] THEN "enqueue" ELSE "load")
    /\ UNCHANGED <<lifeVars, worker, rec, ch, prio, loaded>>

\* Mutant: running is not tested again under the read lock.
EnqueueUnchecked(o) ==
    /\ obs[o] = "enqueue"
    /\ IF Len(ch) < MaxQueueDepth
         THEN ch' = Append(ch, prio[o]) /\ UNCHANGED depth
         ELSE depth' = Release /\ UNCHANGED ch
    /\ At(o, "idle")
    /\ UNCHANGED <<lifeVars, worker, rec, prio, loaded>>

\* Under the read lock: test running again and send without blocking; otherwise
\* give the slot back.
Enqueue(o) ==
    /\ obs[o] = "enqueue"
    /\ IF running /\ Len(ch) < MaxQueueDepth
         THEN ch' = Append(ch, prio[o]) /\ UNCHANGED depth
         ELSE depth' = Release /\ UNCHANGED ch
    /\ At(o, "idle")
    /\ UNCHANGED <<lifeVars, worker, rec, prio, loaded>>

Next ==
    \/ Start \/ Stop \/ CloseDone \/ StopReturns
    \/ Receive \/ Emit \/ DoneSeen \/ Drained
    \/ \E o \in Observers :
          \/ \E p \in Priorities : ObserveProcessed(o, p)
          \/ Load(o) \/ Cancelled(o) \/ CompareAndSwap(o) \/ Enqueue(o)

Spec == Init /\ [][Next]_vars

\* The worker and the caller of Stop keep running, and the sinks return.
Fairness ==
    /\ WF_vars(CloseDone) /\ WF_vars(StopReturns)
    /\ WF_vars(Receive) /\ WF_vars(Emit) /\ WF_vars(DoneSeen) /\ WF_vars(Drained)

FairSpec == Spec /\ Fairness

-----------------------------------------------------------------------------
(* Properties *)

\* Observers that hold a slot and have not sent yet.
Reserved == {o \in Observers : obs[o] = "enqueue"}
Busy == IF rec = None THEN 0 ELSE 1

\* The lock-free counter is exact: a slot for each queued record, each one being
\* emitted and each reservation (Acquire, Release and emit in any interleaving,
\* across Stop and Start).
DepthIsExact == depth = Len(ch) + Cardinality(Reserved) + Busy

\* A reservation guarantees a place in the queue, so the send's default branch
\* ("queue full despite the reservation") is never taken.
ReservationSuffices == Reserved # {} => Len(ch) < MaxQueueDepth

\* So the tap accounts for its slots: the counter neither drifts nor overflows, and no finding that was
\* admitted meets a full queue.
TapAccounts == TapTypeOK /\ DepthIsExact /\ ReservationSuffices

\* Stop's comment: once it has returned, every accepted record has been emitted
\* and no observer still at work adds one.
StoppedIsDrained == (caller = "idle" /\ ~running) => (ch = <<>> /\ rec = None)

InfoSlots ==
    Cardinality({i \in DOMAIN ch : ch[i] = "INFO"})
      + Cardinality({o \in Reserved : prio[o] = "INFO"})
      + (IF rec = "INFO" THEN 1 ELSE 0)

\* Plane's comment: raw telemetry is shed before findings.  Telemetry never holds
\* more slots than the high watermark, however many observers race for them.
FindingsKeepHeadroom == InfoSlots > 0 => ~High(InfoSlots - 1)

\* Stop returns, although observers keep calling.
StopEnds == caller # "idle" ~> caller = "idle"

\* How the worker, the caller of Stop and done belong together.
LifeInv ==
    /\ running => caller = "idle" /\ ~done /\ worker = "select"
    /\ (caller = "idle" /\ ~running) => worker = "off"
    /\ caller = "close" => ~done /\ worker = "select"
    /\ caller = "wait" => done /\ ~running
    /\ worker = "drain" => caller = "wait"
    /\ worker = "off" => ch = <<>> /\ rec = None

\* What Acquire decided about the depth it loaded.
CasInv == \A o \in Observers : obs[o] = "cas" => Admits(prio[o], loaded[o])

TapInv == TapTypeOK /\ LifeInv /\ DepthIsExact /\ CasInv
=============================================================================
