------------------------------- MODULE Sums -------------------------------
(* Sums over a sequence: Rust's iter().map(..).sum(). *)
EXTENDS Integers, Sequences

\* The sum of a sequence of numbers.
SumOf(s) ==
    LET upTo[k \in 0..Len(s)] == IF k = 0 THEN 0 ELSE upTo[k - 1] + s[k]
    IN  upTo[Len(s)]
=============================================================================
