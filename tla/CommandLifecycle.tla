-------------------------- MODULE CommandLifecycle --------------------------
(***************************************************************************)
(* What an admin may rely on for a command sent to a device, with no       *)
(* queue, heartbeat or log in sight: it is issued once, carried out at     *)
(* most MaxRuns times and only while it is open, and closed only after it  *)
(* was carried out.                                                        *)
(***************************************************************************)
EXTENDS Naturals

CONSTANTS Cmds, MaxRuns

VARIABLES
    life,   \* "absent", "open" or "closed"
    runs    \* how often the device carried the command out

lifeVars == <<life, runs>>

LInit == life = [c \in Cmds |-> "absent"] /\ runs = [c \in Cmds |-> 0]

Issue(c) ==
    /\ life[c] = "absent"
    /\ life' = [life EXCEPT ![c] = "open"]
    /\ UNCHANGED runs

Run(c) ==
    /\ life[c] = "open" /\ runs[c] < MaxRuns
    /\ runs' = [runs EXCEPT ![c] = @ + 1]
    /\ UNCHANGED life

\* One heartbeat may close several commands.
Close(batch) ==
    /\ \A c \in batch : life[c] = "open" /\ runs[c] > 0
    /\ life' = [c \in Cmds |-> IF c \in batch THEN "closed" ELSE life[c]]
    /\ UNCHANGED runs

LNext ==
    \/ \E c \in Cmds : Issue(c) \/ Run(c)
    \/ \E batch \in SUBSET Cmds : Close(batch)

Spec == LInit /\ [][LNext]_lifeVars
=============================================================================
