------------------------------- MODULE Split -------------------------------
(***************************************************************************)
(* Turning a window into coinbase outputs (tides/src/split.rs), as pure    *)
(* operators.  Identities are numbers in the order of their names: ties in *)
(* work and the carry ledger are served in that order.  A miner is one row *)
(* of Window::miners: identity, work, and how much of it came through the  *)
(* house stratum.  p is a SplitParams.                                     *)
(***************************************************************************)
EXTENDS Sums, FiniteSetsExt

CONSTANTS
    ScriptOf,    \* address::to_script: an identity's script, or NoScript
    ScriptLen,   \* the length of a payout script
    NoScript

BPS == 10000

\* A SplitParams that Config::load and Controls::load let through: no fee is
\* over 100 %.
IsParams(p) ==
    /\ p.fee_bps \in 0..BPS
    /\ p.stratum_fee_bps \in 0..BPS
    /\ \A i \in DOMAIN p.fee_overrides : p.fee_overrides[i] \in 0..BPS
    /\ p.min_payout \in Nat
    /\ p.max_outputs \in Nat
    /\ p.output_budget_bytes \in Nat
    /\ p.max_payees \in Nat

\* SplitParams::bps_for
BpsFor(p, identity) ==
    IF identity \in DOMAIN p.fee_overrides
    THEN [stratum |-> p.fee_overrides[identity], datum |-> p.fee_overrides[identity]]
    ELSE [stratum |-> IF p.stratum_fee_bps = 0 THEN p.fee_bps ELSE p.stratum_fee_bps,
          datum   |-> p.fee_bps]

\* A miner's work weighted by the fee of the path it came through.
FeeNum(p, m) ==
    LET bps == BpsFor(p, m.identity) IN
    m.stratum_work * bps.stratum + (m.work - m.stratum_work) * bps.datum

FeeOf(p, m, value, total) == ((value * FeeNum(p, m)) \div total) \div BPS

\* What the block's value is worth to a miner after the fee, rounded down.
ShareOf(p, m, value, total) ==
    ((value * (m.work * BPS - FeeNum(p, m))) \div total) \div BPS

\* Largest first, ties by name: the order of Window::miners and of the payees.
Before(a, b) == a.work > b.work \/ (a.work = b.work /\ a.identity < b.identity)

\* A set of rows with different identities in that order: the k-th has k - 1
\* before it.
Ranked(rows) ==
    [k \in 1..Cardinality(rows) |->
        CHOOSE r \in rows : Cardinality({q \in rows : Before(q, r)}) = k - 1]

\* Identities in the order of their names, as a BTreeMap has them.
ByName(ids) ==
    [k \in 1..Cardinality(ids) |->
        CHOOSE i \in ids : Cardinality({j \in ids : j < i}) = k - 1]

TotalWork(miners) == SumOf([k \in DOMAIN miners |-> miners[k].work])

PaidSats(payees) == SumOf([k \in DOMAIN payees |-> payees[k].sats])

\* The bytes one more output takes: amount, script length, script.
OutputBytes == 8 + 1 + ScriptLen

Fits(p, payees, bytes) ==
    /\ Len(payees) < p.max_outputs
    /\ bytes + OutputBytes <= p.output_budget_bytes

-----------------------------------------------------------------------------
(* compute_with_carry, in its three parts *)

\* Why a miner gets no output of its own, in the order of the tests.
Reason(p, acc, identity, sats) ==
    IF sats < p.min_payout THEN "BelowMinimum"
    ELSE IF ScriptOf[identity] = NoScript THEN "NoScript"
    ELSE IF ~Fits(p, acc.payees, acc.bytes) THEN "OverBudget"
    ELSE "none"

Placing == [payees |-> << >>, unpaid |-> << >>, bytes |-> 0, fee |-> 0]

\* One miner of the loop: an output, or an unpaid entry.
PlaceOne(p, value, total, acc, m) ==
    LET sats   == ShareOf(p, m, value, total)
        reason == Reason(p, acc, m.identity, sats)
        fee    == acc.fee + FeeOf(p, m, value, total)
    IN  IF reason = "none"
        THEN [payees |-> Append(acc.payees, [identity |-> m.identity,
                                             work |-> m.work, sats |-> sats]),
              unpaid |-> acc.unpaid,
              bytes  |-> acc.bytes + OutputBytes,
              fee    |-> fee]
        ELSE [payees |-> acc.payees,
              unpaid |-> Append(acc.unpaid, [identity |-> m.identity,
                                             sats |-> sats, reason |-> reason]),
              bytes  |-> acc.bytes,
              fee    |-> fee]

\* The loop over the miners.
Place(p, miners, value) ==
    LET acc[k \in 0..Len(miners)] ==
            IF k = 0 THEN Placing
            ELSE PlaceOne(p, value, TotalWork(miners), acc[k - 1], miners[k])
    IN  acc[Len(miners)]

\* max_payees: the largest payees share value - fee in full. The rounding
\* dust goes to the last of those with the most sats (max_by_key). The bytes
\* of those cut are not given back.
Cap(p, miners, value, placed) ==
    LET fees   == SumOf([k \in DOMAIN miners |-> FeeNum(p, miners[k])])
        fee    == ((value * fees) \div TotalWork(miners)) \div BPS
        ranked == Ranked({placed.payees[k] : k \in DOMAIN placed.payees})
        kept   == SubSeq(ranked, 1, Min({Len(ranked), p.max_payees}))
        cut    == SubSeq(ranked, Len(kept) + 1, Len(ranked))
        rated  == [k \in DOMAIN kept |->
                     [kept[k] EXCEPT !.sats = ((value - fee) * kept[k].work)
                                                  \div TotalWork(kept)]]
        most   == Max({rated[k].sats : k \in DOMAIN rated})
        top    == Max({k \in DOMAIN rated : rated[k].sats = most})
    IN  [payees |-> [rated EXCEPT ![top].sats = @ + value - fee - PaidSats(rated)],
         unpaid |-> placed.unpaid \o [k \in DOMAIN cut |->
                                        [identity |-> cut[k].identity, sats |-> cut[k].sats,
                                         reason |-> "BelowCut"]],
         bytes  |-> placed.bytes,
         fee    |-> fee]

\* The part of an owed amount that the block's value still covers.
Give(owed, value, payees) == Min({owed, Max({0, value - PaidSats(payees)})})

\* An amount owed to i goes on record as paid.
Gave(acc, payees, bytes, i, give) ==
    [payees |-> payees, unpaid |-> acc.unpaid, bytes |-> bytes, fee |-> acc.fee,
     carry_paid |-> Append(acc.carry_paid, [identity |-> i, sats |-> give])]

\* One entry of the carry ledger: what the block would leave to the pool pays
\* what is owed, on top of an output or in a new one.
PayOne(p, value, carry, acc, i) ==
    LET give == Give(carry[i], value, acc.payees)
        has  == {k \in DOMAIN acc.payees : acc.payees[k].identity = i}
    IN  IF give = 0 THEN acc
        ELSE IF has # {}
        THEN Gave(acc, [acc.payees EXCEPT ![Min(has)].sats = @ + give], acc.bytes, i, give)
        ELSE IF Reason(p, acc, i, give) # "none" THEN acc
        ELSE Gave(acc, Append(acc.payees, [identity |-> i, work |-> 0, sats |-> give]),
                  acc.bytes + OutputBytes, i, give)

\* Carry-forward, by name.
PayCarry(p, value, carry, capped) ==
    LET ids == ByName(DOMAIN carry)
        acc[k \in 0..Len(ids)] ==
            IF k = 0
            THEN [payees |-> capped.payees, unpaid |-> capped.unpaid,
                  bytes |-> capped.bytes, fee |-> capped.fee, carry_paid |-> << >>]
            ELSE PayOne(p, value, carry, acc[k - 1], ids[k])
    IN  acc[Len(ids)]

\* split::compute_with_carry. An empty window places nobody.
Compute(p, miners, value, carry) ==
    LET placed == Place(p, miners, value)
        capped == IF p.max_payees > 0 /\ placed.payees # << >>
                  THEN Cap(p, miners, value, placed) ELSE placed
        paid   == PayCarry(p, value, carry, capped)
    IN  [payees |-> paid.payees, unpaid |-> paid.unpaid, fee |-> paid.fee,
         carry_paid |-> paid.carry_paid, value |-> value,
         pool_sats |-> Max({0, value - PaidSats(paid.payees)})]
=============================================================================
