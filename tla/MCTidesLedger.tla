--------------------------- MODULE MCTidesLedger ---------------------------
(* Model values for TidesLedger. *)
EXTENDS TidesLedger

CONSTANTS alice, bob

MCIdents == {alice, bob}
Symmetry == Permutations(MCIdents)
=============================================================================
