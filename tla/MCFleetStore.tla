---------------------------- MODULE MCFleetStore ----------------------------
(* Small instances of FleetStore for TLC. *)
EXTENDS FleetStore, TLC

CONSTANTS j1, j2, g1, g2, w1, w2, p1

MCPoolOf == [j \in Jobs |-> p1]
MCPlan == <<"spot", "standard">>
MCSymmetry == Permutations(Jobs) \cup Permutations(Gens) \cup Permutations(Workers)

\* No guard of a store transaction reads these three fields, so the run explores
\* one value of each.
Quiet == \A j \in Jobs : ~jobs[j].op /\ ~jobs[j].jit /\ ~jobs[j].created
=============================================================================
