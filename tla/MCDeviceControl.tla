---------------------------- MODULE MCDeviceControl ----------------------------
(* DeviceControl for TLC: a quarantine and its release; the processes of a kind  *)
(* are interchangeable, and so are policies and rules.                           *)
EXTENDS DeviceControl, TLC

CONSTANT u

MCTypeOf == [c \in Cmds |-> IF c = u THEN "UNQUARANTINE" ELSE "QUARANTINE"]

Symmetry == Permutations(Agents) \cup Permutations(Watchdogs)

\* One of the two commands is handed out again, and the agent loses its memory of a command once.
LossesBounded ==
    \A c \in Cmds : \A d \in Cmds \ {c} :
        attempts[c] + attempts[d] < 2 * MaxAttempts /\ forgotten[c] + forgotten[d] <= 1

\* One of two rules comes first, one of two policies is the newer one: the other order is a renaming.
FirstRule == CHOOSE r \in Rules : TRUE
FirstPolicy == CHOOSE p \in Policies : TRUE
OrderFixed ==
    /\ home[FirstRule] = NoPolicy => \A r \in Rules : home[r] = NoPolicy
    /\ stamp = TypedLabels => \A p \in Policies : updated[FirstPolicy] <= updated[p]
\* A call whose connection is lost sends nothing more: it lives on beside the next one while one rule is added.
OldCallsBounded == Cardinality(Subscribed) > 1 => \E r \in Rules : ruleCall[r] = "none"

\* Two watchdogs are followed over two releases and where the staged file can be renamed: the properties
\* that compare three versions, or speak of the copy, are about a single one.
RespawnsBounded == respawned => offered <= 2 /\ sameDisk
=============================================================================
