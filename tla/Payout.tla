------------------------------- MODULE Payout -------------------------------
(***************************************************************************)
(* The money path of one gateway's session, block after block: Prime       *)
(* computes a split of the window and the carry ledger and issues it as a  *)
(* list of outputs; the gateway builds its coinbase from the list; Prime   *)
(* judges the coinbase and, when the share is a block, records what it did *)
(* not pay and which carry it did; once the block settles the record is    *)
(* applied to the carry ledger.  The tasks' interleavings and the files    *)
(* are BlockCarry's; this module follows the amounts.                      *)
(***************************************************************************)
EXTENDS Split, CoinbaseCheck, Functions

CONSTANTS
    Idents,      \* miners' identities, numbered in the order of their names
    House,       \* identities that mine through the house stratum
    Witness,     \* the OP_RETURN of a segwit coinbase
    Setups,      \* pools: how one is configured, and what may happen to it
    MaxBlocks    \* bound: blocks found

ASSUME PayoutAssumption ==
    /\ Idents \subseteq Nat
    /\ IsFiniteSet(Idents)
    /\ ScriptLen \in Nat
    /\ House \subseteq Idents
    /\ \A s \in Setups :
          /\ IsParams(s.params)
          /\ s.works \subseteq [Idents -> Nat]
          /\ s.tolerance \in Nat
          /\ s.commits \cup {Witness} \subseteq OpReturns
          /\ s.values \subseteq Nat \ {0}
          /\ s.reconnects \in BOOLEAN
          /\ s.rescales \in BOOLEAN

VARIABLES
    setup,     \* the pool's, for good
    phase,     \* "idle", "issued" or "found"
    miners,    \* Window::miners when the split was computed
    split,     \* the last split computed
    list,      \* the outputs the gateway's job was built from
    issued,    \* the outputs Prime has under the job's coinbaser id
    record,    \* the BlockRecord of the block found
    carry,     \* Carry::owed
    blocks,    \* blocks settled
    earned,    \* history: each identity's shares of all settled blocks
    received,  \* history: what settled coinbases paid to its script
    kept,      \* history: what settled coinbases paid to the pool
    fees       \* history: the fees of the settled blocks' splits

vars == <<setup, phase, miners, split, list, issued, record, carry, blocks,
          earned, received, kept, fees>>

Params == setup.params          \* the SplitParams in force
Tolerance == setup.tolerance    \* cfg.split_tolerance
Commits == setup.commits        \* OP_RETURNs of window snapshots; {}: commit-snapshot is off
Works == setup.works            \* work the identities may have in the window
Values == setup.values          \* what a gateway's template may be worth, in sats
Rescales == setup.rescales      \* does the gateway rescale the list to a newer template?
Reconnects == setup.reconnects  \* may the session end before the gateway's block?

\* The parts of a BlockRecord that matter, with the coinbase and the fee.
NoRecord == [kind |-> "none", unpaid |-> << >>, carry_paid |-> << >>,
             cb |-> << >>, fee |-> 0]

NoSplit == Compute(Params, << >>, 0, [i \in Idents |-> 0])

Payable == {i \in Idents : ScriptOf[i] # NoScript}

\* Types; among them that a split never pays more than the value ("`paid`
\* cannot exceed `value`": compute_with_carry).
TypeOK ==
    /\ setup \in Setups
    /\ phase \in {"idle", "issued", "found"}
    /\ carry \in [Idents -> Nat]
    /\ blocks \in 0..MaxBlocks
    /\ split.pool_sats \in Nat
    /\ PaidSats(split.payees) \in 0..split.value
    /\ earned \in [Idents -> Nat]
    /\ received \in [Idents -> Nat]
    /\ kept \in Nat
    /\ fees \in Nat

-----------------------------------------------------------------------------
(* Issuing *)

\* Window::miners for a window where identity i has work[i].
MinersWith(work) ==
    Ranked({[identity |-> i, work |-> work[i],
             stratum_work |-> IF i \in House THEN work[i] ELSE 0]
              : i \in {j \in Idents : work[j] > 0}})

\* Mutant of OutputsOf: the pool's remainder is not listed.
OutputsOfPayees(s, commit) ==
    commit \o [k \in DOMAIN s.payees |->
                 Output(ScriptOf[s.payees[k].identity], s.payees[k].sats)]

\* The list on_coinbaser_request sends: the commitment, the payees, and the
\* pool's remainder last, if there is any.
OutputsOf(s, commit) ==
    commit \o [k \in DOMAIN s.payees |->
                 Output(ScriptOf[s.payees[k].identity], s.payees[k].sats)]
           \o (IF s.pool_sats > 0 THEN <<Output(PoolScript, s.pool_sats)>> ELSE << >>)

\* The commitment to another window state than the one in the list `old`.
Commitment(old) ==
    LET fresh == Commits \ {o.script : o \in ToSet(old)}
    IN  IF Commits = {} THEN << >> ELSE <<Output(CHOOSE c \in fresh : TRUE, 0)>>

\* The elements of s in some places, in their order (Iterator::filter).
Filtered(s, places) ==
    LET at == ByName(places) IN [k \in DOMAIN at |-> s[at[k]]]

\* What an issued split leaves unpaid and goes on record: an identity without
\* a script can never be paid and is left out.
Recorded(s) ==
    Filtered(s.unpaid, {k \in DOMAIN s.unpaid : s.unpaid[k].reason # "NoScript"})

Init ==
    /\ setup \in Setups
    /\ phase = "idle"
    /\ miners = << >>
    /\ split = NoSplit
    /\ list = << >>
    /\ issued = Unissued
    /\ record = NoRecord
    /\ carry = [i \in Idents |-> 0]
    /\ blocks = 0
    /\ earned = [i \in Idents |-> 0]
    /\ received = [i \in Idents |-> 0]
    /\ kept = 0
    /\ fees = 0

\* on_coinbaser_request; the gateway builds its job from the list.
IssueCoinbaser(work, value) ==
    /\ phase = "idle"
    /\ blocks < MaxBlocks
    /\ phase' = "issued"
    /\ miners' = MinersWith(work)
    /\ split' = Compute(Params, miners', value, carry)
    /\ list' = OutputsOf(split', Commitment(<< >>))
    /\ issued' = list'
    /\ UNCHANGED <<setup, record, carry, blocks, earned, received, kept, fees>>

\* The session ends and its coinbasers with it; the window moves on. The
\* gateway keeps mining the job it has on its next session.
Reconnect(work) ==
    /\ Reconnects
    /\ phase = "issued"
    /\ issued = list
    /\ issued' = Unissued
    /\ miners' = MinersWith(work)
    /\ split' = NoSplit
    /\ UNCHANGED <<setup, phase, list, record, carry, blocks, earned, received, kept, fees>>

\* Coinbaser ids start over with the session: on_coinbaser_request issues
\* another list under the id the old job names.
Reissue(value) ==
    /\ phase = "issued"
    /\ issued = Unissued
    /\ split' = Compute(Params, miners, value, carry)
    /\ issued' = OutputsOf(split', Commitment(list))
    /\ UNCHANGED <<setup, phase, miners, list, record, carry, blocks, earned, received, kept, fees>>

-----------------------------------------------------------------------------
(* The gateway's coinbase (external) *)

\* A size class keeps a prefix of the list; the pool gets what is left.
PrefixOf(outputs, k) ==
    LET some == SubSeq(outputs, 1, k)
        rest == ValueOf(outputs) - ValueOf(some)
    IN  some \o (IF rest > 0 THEN <<Output(PoolScript, rest)>> ELSE << >>)

\* lazarus-gateway's list for a template worth `value`: floors, and the rest
\* on the last output.
Rescaled(outputs, value) ==
    LET down == [k \in DOMAIN outputs |->
                   [outputs[k] EXCEPT !.sats = Scale(@, value, ValueOf(outputs))]]
    IN  [down EXCEPT ![Len(down)].sats = @ + value - ValueOf(down)]

Coinbases(outputs) ==
    LET bodies == {PrefixOf(outputs, k) : k \in 0..Len(outputs)}
                  \cup (IF Rescales /\ outputs # << >>
                          THEN {Rescaled(outputs, v) : v \in Values} ELSE {})
    IN  {b \o <<Output(Witness, 0)>> : b \in bodies}

-----------------------------------------------------------------------------
(* Blocks *)

\* The split on_block_candidate goes by: the issued one, or when no coinbaser
\* is known, one of the window as it is.
DueSplit(cb) ==
    IF issued # Unissued THEN split
    ELSE Compute(Params, miners, ValueOf(cb), [i \in Idents |-> 0])

\* Mutant of Dropped: a partial coinbase is taken for a full one.
DroppedNever(kind, cb) == << >>

\* The payees a coinbase of this kind does not pay, and what they are owed.
Dropped(kind, cb) ==
    LET payees == DueSplit(cb).payees IN
    CASE kind = "Split"    -> << >>
      [] kind = "Partial"  -> Filtered(payees, {k \in DOMAIN payees :
                                            PaidTo(cb, ScriptOf[payees[k].identity]) = 0})
      [] kind = "PoolOnly" -> [k \in DOMAIN payees |->
                                 [payees[k] EXCEPT !.sats =
                                    Scale(@, ValueOf(cb), DueSplit(cb).value)]]

\* on_pow accepts the share, which is a block: on_block_candidate records it.
\* A coinbase judged Foreign is a rejected share and changes nothing. What
\* the split itself left unpaid is on record only with an issued coinbaser.
FindBlock(cb) ==
    /\ phase = "issued"
    /\ LET kind  == Classify(cb, issued, Tolerance).kind
           known == issued # Unissued
       IN  /\ kind # "Foreign"
           /\ record' = [kind |-> kind, cb |-> cb, fee |-> DueSplit(cb).fee,
                         unpaid |-> (IF known THEN Recorded(split) ELSE << >>)
                                       \o Dropped(kind, cb),
                         carry_paid |-> IF known THEN split.carry_paid ELSE << >>]
    /\ phase' = "found"
    /\ UNCHANGED <<setup, miners, split, list, issued, carry, blocks, earned, received, kept, fees>>

\* Sats of an identity in a list of unpaid or carry_paid entries.
SatsOf(entries, i) ==
    SumOf([k \in DOMAIN entries |->
             IF entries[k].identity = i THEN entries[k].sats ELSE 0])

\* Mutant of Applied: the carry the block paid is not taken off.
AppliedUnsettled(owed, r, i) == owed + SatsOf(r.unpaid, i)

\* Carry::settle (saturating), then Carry::add.
Applied(owed, r, i) ==
    Max({0, owed - SatsOf(r.carry_paid, i)}) + SatsOf(r.unpaid, i)

\* A miner's share of the block, before any cap.
EarnedBy(i, value) ==
    LET own == SelectSeq(miners, LAMBDA m : m.identity = i)
    IN  IF own = << >> \/ i \notin Payable THEN 0
        ELSE ShareOf(Params, own[1], value, TotalWork(miners))

\* apply_carry_for_settled
Settle ==
    /\ phase = "found"
    /\ phase' = "idle"
    /\ blocks' = blocks + 1
    /\ carry' = [i \in Idents |-> Applied(carry[i], record, i)]
    /\ earned' = [i \in Idents |-> earned[i] + EarnedBy(i, ValueOf(record.cb))]
    /\ received' = [i \in Idents |-> received[i] + PaidTo(record.cb, ScriptOf[i])]
    /\ kept' = kept + PaidTo(record.cb, PoolScript)
    /\ fees' = fees + record.fee
    /\ record' = NoRecord
    /\ UNCHANGED <<setup, miners, split, list, issued>>

Done == blocks = MaxBlocks /\ UNCHANGED vars

Next ==
    \/ \E work \in Works, v \in Values : IssueCoinbaser(work, v)
    \/ \E work \in Works : Reconnect(work)
    \/ \E v \in Values : Reissue(v)
    \/ \E cb \in Coinbases(list) : FindBlock(cb)
    \/ Settle
    \/ Done

Spec == Init /\ [][Next]_vars

-----------------------------------------------------------------------------
(* Properties *)

\* The pools whose records are exact. Where the gateway rescales the list,
\* the record keeps the amounts as issued; what a cap on the payees cuts goes
\* on record as owed although it was handed out.
Plain == ~Rescales /\ Params.max_payees = 0

\* Sats are conserved per miner over any number of blocks, full, partial and
\* pool-only: what coinbases paid to its script and what the carry ledger
\* still owes it add up to its shares, up to the tolerance ("What a coinbase
\* could not pay ... is recorded per identity": README).
NothingLost ==
    Plain =>
        \A i \in Payable : received[i] + carry[i] + blocks * Tolerance >= earned[i]

\* What classify_coinbase lets a coinbase of an older list pay too much, for
\* n miners.
Slack ==
    LET n == Cardinality({i \in Idents : \E w \in Works : w[i] > 0})
    IN  IF Reconnects THEN blocks * n * (Tolerance + n + 2) ELSE 0

\* The pool never owes more than it was paid beyond its fees, so that it can
\* always return the carry ("The pool nets exactly its fee over time").
PoolCoversCarry ==
    Plain =>
        kept + Slack >= fees + SumFunction(carry)

\* Settling a block never takes more off an identity's carry than the block's
\* coinbase paid it ("sats this block's coinbase DID pay": BlockRecord), when
\* its job was built from the list it is judged by.
CarryPaidOut ==
    [][issued = list /\ ~Rescales =>
          \A i \in Payable : carry[i] - carry'[i] <= PaidTo(record.cb, ScriptOf[i])]_vars

\* The issued list spends the value to the sat, within the coinbase's limits,
\* and pays no carry that is not owed; it pays nobody dust, unless payees are
\* capped: the cap rates them again and does not look at min_payout.
ListSound ==
    phase = "issued" /\ issued # Unissued =>
        /\ ValueOf(issued) = split.value
        /\ Len(split.payees) <= Params.max_outputs
        /\ Len(split.payees) * OutputBytes <= Params.output_budget_bytes
        /\ Params.max_payees = 0 =>
              \A k \in DOMAIN split.payees : split.payees[k].sats >= Params.min_payout
        /\ \A i \in Idents : SatsOf(split.carry_paid, i) <= carry[i]

\* What a coinbase worth less than the list owes a script of it.
DueTo(script, cb) ==
    IF ValueOf(cb) >= ValueOf(issued) THEN PaidTo(issued, script)
    ELSE Scale(PaidTo(issued, script), ValueOf(cb), ValueOf(issued))

\* A coinbase judged Split pays every script at least what was issued to it,
\* one judged Partial each script it pays at all: "present and paid in full",
\* "each paid in full" (CoinbaseKind); in proportion when it is worth less
\* than the list. With commitments on, a session that ends and comes back
\* breaks it: classify_coinbase returns Partial for a coinbase that lacks the
\* commitment before it looks at any amount.
PaidInFull ==
    phase = "found" /\ issued # Unissued =>
        \A i \in ToSet(MinersOf(issued)) :
            LET paid == PaidTo(record.cb, i.script) IN
            (record.kind = "Split" \/ (record.kind = "Partial" /\ paid > 0))
                => paid + Tolerance >= DueTo(i.script, record.cb)
=============================================================================
