----------------------------- MODULE KeyVerdicts -----------------------------
(***************************************************************************)
(* What Silver promises about a business key, whatever the order in which  *)
(* its records arrive and however often they arrive: the key is unseen, or *)
(* accepted with one value, or blocked; an accepted value never changes,   *)
(* and a blocked key stays blocked (docs/silver-data-contract.md).         *)
(***************************************************************************)
CONSTANTS
    Keys,       \* business keys
    Values,     \* values of their critical fields
    Unseen,
    Blocked     \* these two are not values

VARIABLE verdicts

Verdicts == Values \cup {Unseen, Blocked}

Init == verdicts = [k \in Keys |-> Unseen]

(* What may become of a verdict in one step.                                *)
MayBecome(old, new) ==
    \/ new = old
    \/ old = Unseen /\ new \in Verdicts
    \/ old \in Values /\ new = Blocked

Decide ==
    /\ verdicts' \in [Keys -> Verdicts]
    /\ \A k \in Keys : MayBecome(verdicts[k], verdicts'[k])

Spec == Init /\ [][Decide]_verdicts
=============================================================================
