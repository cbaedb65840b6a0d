--------------------------- MODULE MCSessionLoop ---------------------------
(* All constants of SessionLoop are numbers, given in the cfg. *)
EXTENDS SessionLoop
=============================================================================
