---------------------------- MODULE MCJobSlots ----------------------------
(* Values for JobSlots: a small, a large and a too large coinbase section. *)
EXTENDS JobSlots, TLC

CONSTANTS s1, s2, j1, j2, c1, c2, c3, small, large, huge

MCSlots == {s1, s2}
TwoJobs == {j1, j2}
ThreeIds == {c1, c2, c3}
MCBodies == {small, large, huge}
MCSizeOf == (small :> 1) @@ (large :> 3) @@ (huge :> 9)

Symmetry == Permutations(MCSlots) \cup Permutations(TwoJobs) \cup Permutations(ThreeIds)
=============================================================================
