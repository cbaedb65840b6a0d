---------------------------- MODULE MCCoinbasers ----------------------------
(* All constants of Coinbasers are given in the cfg. *)
EXTENDS Coinbasers
=============================================================================
