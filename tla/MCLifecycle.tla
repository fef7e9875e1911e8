---------------------------- MODULE MCLifecycle -----------------------------
(* Small instances of Lifecycle for TLC. *)
EXTENDS Lifecycle, TLC

CONSTANTS j1, j2, g1, g2, w1, w2, p1

MCPoolOf == [j \in Jobs |-> p1]
SpotThenStandard == <<"spot", "standard">>
StandardOnly == <<"standard">>
SpotOnly == <<"spot">>
MCSymmetry == Permutations(Jobs) \cup Permutations(Gens) \cup Permutations(Workers)
=============================================================================
