----------------------------- MODULE CoinbaseTx -----------------------------
(***************************************************************************)
(* The coinbase transaction's bytes: varints, assembling the gateway's two *)
(* halves around the extranonce slot, parsing the result, and splicing in  *)
(* the witness for a full block.  Bytes have BASE values and the fixed     *)
(* fields their widths as constants; numbers are little-endian.  What does *)
(* not parse is NotCoinbase.                                               *)
(***************************************************************************)
EXTENDS Integers, Sequences, SequencesExt

CONSTANTS
    BASE,         \* values of a byte (256)
    U32, U64,     \* bytes of the fixed-width numbers
    PREVOUT,      \* bytes of a txid (32)
    SLOT,         \* EXTRANONCE_SLOT
    MIN_SIG, MAX_SIG, MAX_TXOUTS, MAX_TXSCRIPT,  \* limits parse() sets
    COINBASE_WITNESS,
    NotCoinbase

ASSUME CoinbaseTxAssumption ==
    /\ {BASE, U32, U64, PREVOUT, SLOT, MIN_SIG, MAX_SIG, MAX_TXOUTS,
        MAX_TXSCRIPT} \subseteq Nat \ {0}
    /\ BASE > 3

LE(n, w) == [i \in 1..w |-> (n \div BASE^(i - 1)) % BASE]

FromLE(s) ==
    LET upTo[i \in 0..Len(s)] == IF i = 0 THEN 0 ELSE upTo[i - 1] + s[i] * BASE^(i - 1)
    IN  upTo[Len(s)]

Slice(s, from, n) == SubSeq(s, from, from + n - 1)

-----------------------------------------------------------------------------
(* varints: [n, len] with len 0 when the bytes run out *)

\* Mutant of WriteVarint: the marker of two bytes is written as a number.
WriteVarintByte(n) ==
    CASE n <= BASE - 3            -> <<n>>
      [] n > BASE - 3 /\ n < BASE^2 -> <<BASE - 3>> \o LE(n, 2)
      [] n >= BASE^2 /\ n < BASE^4  -> <<BASE - 2>> \o LE(n, 4)
      [] n >= BASE^4              -> <<BASE - 1>> \o LE(n, 8)

\* write_varint: one byte below the markers, then 2, 4 or 8 bytes behind one.
WriteVarint(n) ==
    CASE n < BASE - 3              -> <<n>>
      [] n >= BASE - 3 /\ n < BASE^2 -> <<BASE - 3>> \o LE(n, 2)
      [] n >= BASE^2 /\ n < BASE^4   -> <<BASE - 2>> \o LE(n, 4)
      [] n >= BASE^4               -> <<BASE - 1>> \o LE(n, 8)

\* read_varint at place p.
ReadVarint(s, p) ==
    LET width == CASE p > Len(s) -> 0
                   [] p <= Len(s) /\ s[p] < BASE - 3 -> 0
                   [] p <= Len(s) /\ s[p] = BASE - 3 -> 2
                   [] p <= Len(s) /\ s[p] = BASE - 2 -> 4
                   [] p <= Len(s) /\ s[p] = BASE - 1 -> 8
    IN  IF p + width > Len(s) THEN [n |-> 0, len |-> 0]
        ELSE IF width = 0 THEN [n |-> s[p], len |-> 1]
        ELSE [n |-> FromLE(Slice(s, p + 1, width)), len |-> 1 + width]

-----------------------------------------------------------------------------
(* The transaction *)

\* assemble: lazarus-gateway's whole coinbase is taken as it is; a stock
\* gateway's halves go around an empty slot and the target byte is set
\* (target_byte_index counts from 0).
Assemble(coinb1, coinb2, target_byte_index, target_pot) ==
    LET whole == coinb1 \o [i \in 1..SLOT |-> 0] \o coinb2
    IN  IF coinb2 = << >> /\ target_byte_index = 0 THEN coinb1
        ELSE IF target_byte_index < Len(whole)
             THEN [whole EXCEPT ![target_byte_index + 1] = target_pot]
             ELSE whole

\* bip34_height, for a first push of 1 to 4 bytes: {} for None. (OP_1 to
\* OP_16 need bytes of the real width and are left out.)
Bip34Height(sig) ==
    LET n == sig[1]
    IN  IF n \in 1..4 /\ n < Len(sig) THEN {FromLE(Slice(sig, 2, n))} ELSE {}

RECURSIVE OutputsFrom(_, _, _)
\* n outputs from place p on, and where they end.
OutputsFrom(s, p, n) ==
    IF n = 0 THEN [outs |-> << >>, at |-> p]
    ELSE LET sl == ReadVarint(s, p + U64)
             next == p + U64 + sl.len + sl.n
         IN  IF sl.len = 0 \/ sl.n > MAX_TXSCRIPT \/ next - 1 > Len(s) THEN NotCoinbase
             ELSE LET more == OutputsFrom(s, next, n - 1)
                  IN  IF more = NotCoinbase THEN NotCoinbase
                      ELSE [outs |-> <<[value |-> FromLE(Slice(s, p, U64)),
                                        script |-> Slice(s, next - sl.n, sl.n)]>> \o more.outs,
                            at |-> more.at]

\* parse: one input that spends nothing, limits on every length, and not a
\* byte left over.
Parse(s) ==
    LET vin == ReadVarint(s, U32 + 1)
        prev == U32 + 1 + vin.len
        slen == ReadVarint(s, prev + PREVOUT + U32)
        sig == prev + PREVOUT + U32 + slen.len
        nout == ReadVarint(s, sig + slen.n + U32)
        first == sig + slen.n + U32 + nout.len
        outs == OutputsFrom(s, first, nout.n)
    IN  IF vin.len = 0 \/ vin.n # 1 \/ prev + PREVOUT + U32 - 1 > Len(s) THEN NotCoinbase
        ELSE IF \/ Slice(s, prev, PREVOUT) # [i \in 1..PREVOUT |-> 0]
                \/ Slice(s, prev + PREVOUT, U32) # [i \in 1..U32 |-> BASE - 1]
        THEN NotCoinbase
        ELSE IF slen.len = 0 \/ slen.n \notin MIN_SIG..MAX_SIG THEN NotCoinbase
        ELSE IF nout.len = 0 \/ nout.n \notin 1..MAX_TXOUTS THEN NotCoinbase
        ELSE IF outs = NotCoinbase THEN NotCoinbase
        ELSE IF outs.at + U32 - 1 # Len(s) THEN NotCoinbase
        ELSE [outputs |-> outs.outs, height |-> Bip34Height(Slice(s, sig, slen.n)),
              lock_time_at |-> outs.at]

\* with_witness: marker and flag behind the version, the witness before the
\* lock time.
WithWitness(legacy, parsed) ==
    Slice(legacy, 1, U32) \o <<0, 1>>
    \o SubSeq(legacy, U32 + 1, parsed.lock_time_at - 1) \o COINBASE_WITNESS
    \o SubSeq(legacy, parsed.lock_time_at, Len(legacy))

\* build: a coinbase as a gateway lays it out, and the index of its target
\* byte (from 0). The tag is left out: nothing reads it.
HeightBytes(height) ==
    LET n == CHOOSE k \in 1..U32 : height < BASE^k /\ (k = 1 \/ height >= BASE^(k - 1))
    IN  <<n>> \o LE(height, n)

Build(height, outputs, lock_time) ==
    LET sig == HeightBytes(height) \o <<1 + SLOT, BASE - 1>> \o [i \in 1..SLOT |-> 0]
        front == LE(1, U32) \o <<1>> \o [i \in 1..PREVOUT |-> 0] \o [i \in 1..U32 |-> BASE - 1]
                 \o WriteVarint(Len(sig))
        txouts == FoldLeft(LAMBDA a, o : a \o LE(o.value, U64) \o WriteVarint(Len(o.script)) \o o.script,
                           << >>, outputs)
    IN  [bytes |-> front \o sig \o [i \in 1..U32 |-> BASE - 1] \o WriteVarint(Len(outputs))
                   \o txouts \o LE(lock_time, U32),
         target |-> Len(front) + Len(HeightBytes(height)) + 1]
=============================================================================
