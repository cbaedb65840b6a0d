--------------------------- MODULE MCShareCredit ---------------------------
(* Model values for ShareCredit: two sessions, shares at adjacent heights. *)
EXTENDS ShareCredit, TLC

CONSTANTS s1, s2, x1, x2, x3

MCSessions == {s1, s2}
MCShares == {x1, x2, x3}

\* Two shares compete for one height's cap; the third is one block later.
MCHeightOf == (x1 :> 1) @@ (x2 :> 1) @@ (x3 :> 2)
=============================================================================
