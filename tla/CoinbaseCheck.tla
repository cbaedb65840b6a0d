--------------------------- MODULE CoinbaseCheck ---------------------------
(***************************************************************************)
(* How Prime judges a gateway's coinbase against the outputs it issued     *)
(* (classify_coinbase in wire/src/verify.rs), as pure operators. An output *)
(* is [script, sats]; a coinbase and an issued list are sequences of them. *)
(* Unissued stands for a coinbaser id Prime no longer knows.               *)
(***************************************************************************)
EXTENDS Sums, SequencesExt

CONSTANTS
    PoolScript,     \* the pool's payout script
    OpReturns,      \* the OP_RETURN scripts in use, which carry no sats
    Unissued

Output(script, sats) == [script |-> script, sats |-> sats]

IsOpReturn(o) == o.script \in OpReturns

\* total_output_value
ValueOf(outputs) == SumOf([k \in DOMAIN outputs |-> outputs[k].sats])

\* Coinbase::paid_to: the sum over the outputs with this script.
PaidTo(outputs, script) ==
    SumOf([k \in DOMAIN outputs |->
             IF outputs[k].script = script THEN outputs[k].sats ELSE 0])

\* sats in proportion to another total, rounded down (session::scale).
Scale(sats, value, issued_value) ==
    IF issued_value = 0 THEN sats ELSE (sats * value) \div issued_value

\* Only scripts of the list, the pool's and OP_RETURNs are paid.
Sanctioned(cb, issued) ==
    \A o \in ToSet(cb) :
        \/ IsOpReturn(o) \/ o.script = PoolScript
        \/ issued # Unissued /\ \E i \in ToSet(issued) : i.script = o.script

OnlyPool(cb) == \A o \in ToSet(cb) : IsOpReturn(o) \/ o.script = PoolScript

PoolPaid(cb) == \E o \in ToSet(cb) : o.script = PoolScript

\* The outputs of the list that the coinbase pays something.
PresentIn(list, cb) == SelectSeq(list, LAMBDA i : PaidTo(cb, i.script) > 0)

MinersOf(issued) == SelectSeq(issued, LAMBDA i : i.script # PoolScript /\ ~IsOpReturn(i))

\* An output is short if it is paid less than issued, or than issued scaled
\* down to a coinbase worth less.
Short(cb, issued, i, tolerance) ==
    LET owed == IF ValueOf(cb) >= ValueOf(issued) THEN i.sats
                ELSE Scale(i.sats, ValueOf(cb), ValueOf(issued))
    IN  PaidTo(cb, i.script) + tolerance < owed

\* A script is paid more than was issued to it, or than that scaled up to a
\* coinbase worth more; one sat of slack per issued output.
Over(cb, issued, i, tolerance) ==
    LET to  == PaidTo(issued, i.script)
        cap == IF ValueOf(cb) <= ValueOf(issued) THEN to
               ELSE Scale(to, ValueOf(cb), ValueOf(issued))
    IN  PaidTo(cb, i.script) > cap + tolerance + Len(issued)

Kind(kind, n) == [kind |-> kind, paid |-> n]

ByPool(cb) == IF PoolPaid(cb) /\ OnlyPool(cb) THEN Kind("PoolOnly", 0) ELSE Kind("Foreign", 0)

\* The amounts: over beats short, and a short output leaves only PoolOnly.
Judge(cb, issued, tolerance) ==
    LET miners  == MinersOf(issued)
        present == PresentIn(miners, cb)
        short   == \E i \in ToSet(present) : Short(cb, issued, i, tolerance)
    IN  IF \E i \in ToSet(present) : Over(cb, issued, i, tolerance) THEN Kind("Foreign", 0)
        ELSE IF ~short /\ Len(present) = Len(miners) /\ (PoolPaid(cb) \/ miners # << >>)
        THEN Kind("Split", 0)
        ELSE IF ~short /\ present # << >> THEN Kind("Partial", Len(present))
        ELSE ByPool(cb)

\* classify_coinbase. A coinbase without the commitment is not held to any
\* amount, and every issued output it pays counts, the pool's included.
Classify(cb, issued, tolerance) ==
    IF ~Sanctioned(cb, issued) THEN Kind("Foreign", 0)
    ELSE IF issued = Unissued THEN ByPool(cb)
    ELSE LET commits == SelectSeq(issued, IsOpReturn)
             others  == SelectSeq(issued, LAMBDA i : ~IsOpReturn(i))
             present == PresentIn(others, cb)
         IN  IF \E c \in ToSet(commits) : \A o \in ToSet(cb) : o.script # c.script
             THEN IF present # << >> THEN Kind("Partial", Len(present))
                  ELSE Kind("PoolOnly", 0)
             ELSE Judge(cb, issued, tolerance)
=============================================================================
