---------------------------- MODULE MCBlockCarry ----------------------------
(* Model values for BlockCarry. *)
EXTENDS BlockCarry, TLC

CONSTANTS s1, b1, b2

OneSession == {s1}
OneBlock == {b1}
TwoBlocks == {b1, b2}
=============================================================================
