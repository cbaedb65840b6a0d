------------------------------ MODULE Targets ------------------------------
(***************************************************************************)
(* The arithmetic of proof of work: 256-bit numbers as little-endian byte  *)
(* arrays, targets from a share's difficulty and from nBits, the nonce     *)
(* counter, and the merkle root folded from the coinbase.  Arrays are      *)
(* indexed from 0 as in the code; the number and the width of bytes are    *)
(* constants (32 and 8 there).                                             *)
(***************************************************************************)
EXTENDS Integers, Sequences

CONSTANTS
    BITS,   \* bits of a byte
    BYTES,  \* bytes of a hash
    TOP,    \* bytes above the difficulty-1 target (4)
    WORDS,  \* words of a nonce (6)
    WORD    \* values of a word (2^32)

ASSUME TargetsAssumption ==
    /\ {BITS, BYTES, TOP, WORDS, WORD} \subseteq Nat \ {0}
    /\ BYTES >= 4 /\ TOP < BYTES

Base == 2^BITS

Indexes == 0..(BYTES - 1)

\* The number an array stands for (the reference the rest is checked against).
ValueOfBytes(n) ==
    LET upTo[i \in 0..BYTES] == IF i = 0 THEN 0 ELSE upTo[i - 1] + n[i - 1] * Base^(i - 1)
    IN  upTo[BYTES]

\* shr_le: whole bytes first, then each byte takes bits from the next one.
ShrLe(n, bits) ==
    LET bytes == bits \div BITS
        rem == bits % BITS
        moved == [i \in Indexes |-> IF i + bytes < BYTES THEN n[i + bytes] ELSE 0]
        from(i) == IF i < BYTES - 1 THEN (moved[i + 1] * 2^(BITS - rem)) % Base ELSE 0
    IN  IF rem = 0 THEN moved
        ELSE [i \in Indexes |-> moved[i] \div 2^rem + from(i)]

\* share_target_le: {} for None.
ShareTargetLe(pot) ==
    IF pot >= BITS * (BYTES - TOP) THEN {}
    ELSE {ShrLe([i \in Indexes |-> IF i < BYTES - TOP THEN Base - 1 ELSE 0], pot)}

\* The three bytes of a mantissa.
MantissaByte(mant, i) == (mant \div Base^i) % Base

\* nbits_to_target_le, for nBits as exponent, sign and mantissa.
NbitsToTargetLe(exp, negative, mant) ==
    LET zero == [i \in Indexes |-> 0]
        small == mant \div Base^(3 - exp)
        at(i) == i - (exp - 3)
    IN  CASE negative \/ mant = 0 -> {}
          [] ~negative /\ mant > 0 /\ exp <= 3 ->
               {[i \in Indexes |-> IF i < 4 THEN MantissaByte(small, i) ELSE 0]}
          [] ~negative /\ mant > 0 /\ exp > 3 ->
               IF \/ exp > BYTES
                  \/ \E i \in 0..2 : exp - 3 + i >= BYTES /\ MantissaByte(mant, i) # 0
               THEN {}
               ELSE {[i \in Indexes |-> IF at(i) \in 0..2 THEN MantissaByte(mant, at(i)) ELSE 0]}

\* meets_target: the highest byte that differs decides.
MeetsTarget(hash, target) ==
    LET differ == {i \in Indexes : hash[i] # target[i]}
    IN  \/ differ = {}
        \/ \E i \in differ : (\A j \in differ : j <= i) /\ hash[i] < target[i]

\* bump_nonce: words count from the first, each carrying into the next.
BumpNonce(n) ==
    [j \in 0..(WORDS - 1) |->
        IF \A k \in 0..(j - 1) : n[k] = WORD - 1 THEN (n[j] + 1) % WORD ELSE n[j]]

NonceValue(n) ==
    LET upTo[j \in 0..WORDS] == IF j = 0 THEN 0 ELSE upTo[j - 1] + n[j - 1] * WORD^(j - 1)
    IN  upTo[WORDS]

-----------------------------------------------------------------------------
(* Merkle roots, with sha256d of a pair as the pair *)

\* Places of the coinbase's path, whose hash is not known when the branches
\* are made; a hash is a sequence, so no hash is this.
Unknown == "coinbase"

Pair(a, b) == IF a = Unknown \/ b = Unknown THEN Unknown ELSE <<a, b>>

\* A level of odd length ends in its last hash twice.
Evened(level) == IF Len(level) % 2 = 1 THEN Append(level, level[Len(level)]) ELSE level

\* Mutant of NextLevel: the odd one out moves up as it is.
NextLevelBare(level) ==
    [i \in 1..((Len(level) + 1) \div 2) |->
        IF 2 * i > Len(level) THEN level[2 * i - 1] ELSE Pair(level[2 * i - 1], level[2 * i])]

NextLevel(level) ==
    LET even == Evened(level)
    IN  [i \in 1..(Len(even) \div 2) |-> Pair(even[2 * i - 1], even[2 * i])]

RECURSIVE BranchesFrom(_)
BranchesFrom(level) ==
    IF Len(level) <= 1 THEN << >> ELSE <<level[2]>> \o BranchesFrom(NextLevel(level))

\* merkle_branches_for_coinbase
MerkleBranches(txids) == BranchesFrom(<<Unknown>> \o txids)

RECURSIVE MerkleRoot(_, _)
\* merkle_root: the coinbase's hash is on the left at every level.
MerkleRoot(txid, branches) ==
    IF branches = << >> THEN txid
    ELSE MerkleRoot(<<txid, Head(branches)>>, Tail(branches))

RECURSIVE TreeRoot(_)
\* The root of a whole block's tree, as a node computes it (the reference).
TreeRoot(hashes) ==
    LET n == Len(hashes)
        at(i) == IF i > n THEN hashes[n] ELSE hashes[i]
    IN  IF n = 1 THEN hashes[1]
        ELSE TreeRoot([i \in 1..((n + 1) \div 2) |-> <<at(2 * i - 1), at(2 * i)>>])
=============================================================================
