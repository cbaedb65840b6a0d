-------------------------------- MODULE Wire --------------------------------
(***************************************************************************)
(* The pure algorithms of the wire crate tried on bounded inputs: each     *)
(* step takes one input, and the properties compare what the code makes of *)
(* it with a reference.                                                    *)
(***************************************************************************)
EXTENDS Targets, Messages, CoinbaseTx

CONSTANTS
    Shares,      \* PowSubmits a gateway encodes
    Pads,        \* what it pads a message with
    Replies,     \* transaction lists it sends
    Payees,      \* max_outputs: most payees of a list (511)
    PayeeBytes,  \* output_budget_bytes: what they may take in a coinbase (13 927)
    Scripts,     \* payout scripts
    UsualScript, \* length of the shortest script of a common address (22, P2WPKH)
    Heights, Txouts, LockTimes,   \* coinbases
    Varints,     \* numbers written as varints
    MaxTxs       \* bound: transactions of a block besides the coinbase

ASSUME WireAssumption ==
    /\ {Payees, PayeeBytes, UsualScript, MaxTxs} \subseteq Nat
    /\ Payees < MAX_OUTPUTS   \* "one is the pool's own output": main.rs
    \* At common addresses the bytes run out first, with room for two more.
    /\ PayeeBytes \div (SATS + 1 + UsualScript) + 2 <= MAX_OUTPUTS
    /\ Varints \subseteq Nat

VARIABLE input

NoInput == [of |-> "nothing"]

Init == input = NoInput

Hashes == [Indexes -> 0..(Base - 1)]

Pots == 0..(BITS * BYTES)

\* nBits, as exponent, sign bit and mantissa.
Nbits == [exp : 0..(BYTES + 2), negative : BOOLEAN, mant : 0..(Base^3 \div 2 - 1)]

Targets == UNION ({ShareTargetLe(pot) : pot \in Pots}
                  \cup {NbitsToTargetLe(b.exp, b.negative, b.mant) : b \in Nbits})

TryShareTarget ==
    \E pot \in Pots : input' = [of |-> "pot", pot |-> pot]

TryNbits ==
    \E b \in Nbits : input' = [of |-> "nbits", nbits |-> b]

TryHash ==
    \E h \in Hashes : input' = [of |-> "hash", hash |-> h]

TryNonce ==
    \E n \in [0..(WORDS - 1) -> 0..(WORD - 1)] : input' = [of |-> "nonce", nonce |-> n]

TryMerkle ==
    \E n \in 0..MaxTxs : input' = [of |-> "merkle", txids |-> [i \in 1..n |-> <<i>>]]

TryShare ==
    \E s \in Shares, pad \in Pads : input' = [of |-> "share", share |-> s, pad |-> pad]

TryReply ==
    \E r \in Replies, pad \in Pads : input' = [of |-> "reply", txns |-> r, pad |-> pad]

\* A list as on_coinbaser_request makes it: the commitment or none, payees
\* within the split's limits, the pool's remainder or none, never empty.
TryList ==
    \E n \in 0..Payees, commit \in 0..1, pool \in 0..1, script \in Scripts :
        /\ n * (SATS + 1 + Len(script)) <= PayeeBytes
        /\ commit + n + pool > 0
        /\ input' = [of |-> "list", commit |-> commit, payees |-> n, script |-> script,
                     outputs |-> [i \in 1..(commit + n + pool) |->
                                    [sats |-> [k \in 1..SATS |-> i], script |-> script]]]

TryCoinbase ==
    \E h \in Heights, o \in Txouts, t \in LockTimes :
        input' = [of |-> "coinbase", height |-> h, outputs |-> o, lock_time |-> t]

TryVarint ==
    \E n \in Varints : input' = [of |-> "varint", n |-> n]

Next ==
    /\ input = NoInput
    /\ \/ TryShareTarget \/ TryNbits \/ TryHash \/ TryNonce \/ TryMerkle
       \/ TryShare \/ TryReply \/ TryList \/ TryCoinbase \/ TryVarint

-----------------------------------------------------------------------------
(* Properties *)

\* What nBits stand for, sign apart.
NbitsValue(b) ==
    IF b.exp >= 3 THEN b.mant * Base^(b.exp - 3) ELSE b.mant \div Base^(3 - b.exp)

\* nBits as a node writes them (GetCompact): positive, the least exponent that
\* gives the value, and not above what any network's limit allows (the top bit
\* is clear: 0x207fffff).
WrittenByNode(b) ==
    /\ ~b.negative /\ NbitsValue(b) \in 1..(Base^BYTES \div 2 - 1)
    /\ \A c \in Nbits : ~c.negative /\ NbitsValue(c) = NbitsValue(b) => b.exp <= c.exp

\* Proof of work is judged by the numbers the bytes stand for: a share's
\* target is (2^224 - 1) >> pot to the bit, nBits give the number they stand
\* for or none, none when it is negative or does not fit, and the number when
\* a node wrote them, a hash meets a target when it is no larger, and the
\* session nonce counts through every carry. And the root a share's header commits to is the root
\* of its block's tree, for every number of transactions: folding the coinbase
\* through the job's branches never meets the coinbase's own place among them.
WorkExact ==
    /\ input.of = "pot" =>
          {ValueOfBytes(t) : t \in ShareTargetLe(input.pot)} =
             (IF input.pot < BITS * (BYTES - TOP)
              THEN {(Base^(BYTES - TOP) - 1) \div 2^input.pot} ELSE {})
    /\ input.of = "nbits" =>
          LET b == input.nbits
              got == {ValueOfBytes(t) : t \in NbitsToTargetLe(b.exp, b.negative, b.mant)}
          IN  /\ got \subseteq {NbitsValue(b)}
              /\ b.negative \/ NbitsValue(b) >= Base^BYTES => got = {}
              /\ WrittenByNode(b) => got # {}
    /\ input.of = "hash" =>
          \A t \in Targets :
              MeetsTarget(input.hash, t) <=> ValueOfBytes(input.hash) <= ValueOfBytes(t)
    /\ input.of = "nonce" =>
          NonceValue(BumpNonce(input.nonce)) = (NonceValue(input.nonce) + 1) % WORD^WORDS
    /\ input.of = "merkle" =>
          LET branches == MerkleBranches(input.txids)
          IN  /\ \A i \in DOMAIN branches : branches[i] # Unknown
              /\ MerkleRoot(<<0>>, branches) = TreeRoot(<< <<0>> >> \o input.txids)

\* A message reads back as what was sent whatever pads it ("parsers here stop
\* at the terminator and ignore what follows": mining.rs), though its fields
\* hold bytes that look like section tags and terminators; and one cut short
\* anywhere is malformed, never another message.
MessagesExact ==
    /\ input.of = "share" =>
          LET m == <<SUB_POW>> \o EncodePow(input.share) IN
          /\ ParseClient(m \o input.pad) = input.share
          /\ \A n \in 0..(Len(m) - 1) : ParseClient(Leading(m, n)) = Malformed
    /\ input.of = "reply" =>
          \A kind \in {145, 146} :
              LET m == EncodeReply(kind, 7, input.txns) IN
              /\ ParseClient(m \o input.pad) =
                    [kind |-> kind, job |-> 7, status |-> 1, txns |-> input.txns]
              /\ \A n \in 0..(Len(m) - 1) : ParseClient(Leading(m, n)) = Malformed

\* The list that goes out is the whole list ("The list is complete": session.rs),
\* so that a gateway which writes exactly the list burns nothing. The one case
\* where it is not: payees at shorter scripts than a common address has, as many
\* as a split may have, behind a commitment. Then encode_v2 cuts the last output,
\* which is the pool's, and never a payee's.
PayeesListed ==
    input.of = "list" =>
        LET outputs == input.outputs
            read == DecodeV2(EncodeV2(1, outputs))
        IN  \/ read = outputs
            \/ /\ Len(input.script) < UsualScript
               /\ input.commit = 1 /\ input.payees = Payees
               /\ read = Leading(outputs, 1 + Payees)

\* A coinbase parses to the outputs and the height it was built with, however
\* long its lists; one more or one byte less does not parse; assembling a
\* stock gateway's halves changes its target byte only; and the witness form
\* is the same transaction with witness.
CoinbaseExact ==
    /\ input.of = "varint" =>
          LET m == WriteVarint(input.n) IN
          ReadVarint(m \o <<0>>, 1) = [n |-> input.n, len |-> Len(m)]
    /\ input.of = "coinbase" =>
          LET built == Build(input.height, input.outputs, input.lock_time)
              s == built.bytes
              whole == Parse(s)
              halves == Assemble(SubSeq(s, 1, built.target + 1),
                                 SubSeq(s, built.target + SLOT + 2, Len(s)), built.target, 2)
          IN  /\ NotCoinbase \notin {whole, Parse(halves)}
              /\ whole.outputs = input.outputs
              /\ whole.height = {input.height}
              /\ Parse(Append(s, 0)) = NotCoinbase
              /\ Parse(Leading(s, Len(s) - 1)) = NotCoinbase
              /\ Assemble(s, << >>, 0, 2) = s
              /\ halves = [s EXCEPT ![built.target + 1] = 2]
              /\ Parse(halves).outputs = input.outputs
              /\ LET w == WithWitness(s, whole)
                     k == Len(w) - Len(COINBASE_WITNESS) - U32
                 IN  Leading(w, U32) \o SubSeq(w, U32 + 3, k)
                        \o SubSeq(w, Len(w) - U32 + 1, Len(w)) = s
=============================================================================
