----------------------------- MODULE MCSwarmLoop -----------------------------
(* Plans of up to two proposals, each one unusable or depending on nothing, on *)
(* the first, on the second, or on a third that only a review may add:         *)
(* independent steps, chains in both directions, cycles, unmet dependencies,   *)
(* and indices shifted by a dropped proposal.                                  *)
EXTENDS SwarmLoop

Proposals ==
    [subtask : {TRUE}, depends_on : {{}, {0}, {1}, {2}}]
        \union {[subtask |-> FALSE, depends_on |-> {}]}
ShortPlans == UNION {[1 .. n -> Proposals] : n \in 0 .. 2}
PoolOrProven == {Workers, {CHOOSE w \in Workers : TRUE}}
=============================================================================
