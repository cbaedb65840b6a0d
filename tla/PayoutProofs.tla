--------------------------- MODULE PayoutProofs ---------------------------
(***************************************************************************)
(* The money path for any pool: any identities, work, fees, budgets, cap,  *)
(* carry ledger, templates and number of blocks.                           *)
(***************************************************************************)
EXTENDS Payout, LoopLemmas, FiniteSetTheorems

-----------------------------------------------------------------------------
(* Orders *)

\* before[x] is what comes before x in an order of S.
Orders(before, S) ==
    /\ before \in [S -> SUBSET S]
    /\ \A x \in S : x \notin before[x]
    /\ \A x, y \in S : x # y => x \in before[y] \/ y \in before[x]
    /\ \A x, y \in S : x \in before[y] => before[x] \subseteq before[y]

\* The elements of S in that order.
InOrder(before, S) ==
    [k \in 1..Cardinality(S) |-> CHOOSE x \in S : Cardinality(before[x]) = k - 1]

\* s has every element of S once.
Lists(s, S) ==
    /\ s \in Seq(S)
    /\ Len(s) = Cardinality(S)
    /\ \A j, k \in 1..Len(s) : s[j] = s[k] => j = k
    /\ \A x \in S : \E k \in 1..Len(s) : s[k] = x

\* In an order of a finite set as many elements come before some element as
\* one wants: counting them tells the elements apart.
LEMMA PlaceExists ==
  ASSUME NEW S, IsFiniteSet(S), NEW before, Orders(before, S)
  PROVE  /\ Cardinality(S) \in Nat
         /\ \A x \in S : Cardinality(before[x]) + 1 \in 1..Cardinality(S)
         /\ \A x, y \in S : Cardinality(before[x]) = Cardinality(before[y]) => x = y
         /\ \A k \in 1..Cardinality(S) : \E x \in S : Cardinality(before[x]) = k - 1
  <1> DEFINE n == Cardinality(S)
             f == [x \in S |-> Cardinality(before[x]) + 1]
  <1>1. n \in Nat
    BY FS_CardinalityType
  <1>2. /\ \A x \in S : before[x] \in SUBSET S /\ x \notin before[x]
        /\ \A x, y \in S : x # y => x \in before[y] \/ y \in before[x]
        /\ \A x, y \in S : x \in before[y] => before[x] \subseteq before[y]
    BY DEF Orders
  <1>3. \A x \in S : IsFiniteSet(before[x]) /\ Cardinality(before[x]) \in Nat
    BY <1>2, FS_Subset, FS_CardinalityType
  <1>4. ASSUME NEW x \in S PROVE Cardinality(before[x]) + 1 \in 1..n
    <2>1. Cardinality(before[x]) <= n /\ (n = Cardinality(before[x]) => S = before[x])
      BY <1>2, FS_Subset
    <2>2. S # before[x]
      BY <1>2
    <2> QED
      BY <1>1, <1>3, <2>1, <2>2
  <1>5. ASSUME NEW x \in S, NEW y \in S, x \in before[y]
        PROVE  Cardinality(before[x]) < Cardinality(before[y])
    <2>1. before[x] \in SUBSET before[y] /\ before[x] # before[y]
      BY <1>2, <1>5
    <2>2. /\ Cardinality(before[x]) <= Cardinality(before[y])
          /\ Cardinality(before[y]) = Cardinality(before[x]) => before[y] = before[x]
      BY <1>3, <2>1, FS_Subset
    <2> QED
      BY <1>3, <2>1, <2>2
  <1>6. \A x, y \in S : Cardinality(before[x]) = Cardinality(before[y]) => x = y
    <2> SUFFICES ASSUME NEW x \in S, NEW y \in S, x # y
                 PROVE  Cardinality(before[x]) # Cardinality(before[y])
      OBVIOUS
    <2>1. Cardinality(before[x]) < Cardinality(before[y]) \/ Cardinality(before[y]) < Cardinality(before[x])
      BY <1>2, <1>5
    <2> QED
      BY <1>3, <2>1
  <1>7. f \in [S -> 1..n]
    BY <1>4
  <1>8. \A x, y \in S : f[x] = f[y] => x = y
    BY <1>3, <1>6
  <1>9. f \in Injection(S, 1..n)
    BY <1>7, <1>8 DEF Injection, IsInjective
  <1>10. IsFiniteSet(1..n) /\ Cardinality(1..n) = n
    BY <1>1, FS_Interval
  <1> HIDE DEF f
  <1>11. f \in Surjection(S, 1..n)
    BY <1>9, <1>10, FS_Injection
  <1>12. \A k \in 1..n : \E x \in S : f[x] = k
    BY <1>11 DEF Surjection
  <1>13. ASSUME NEW k \in 1..n PROVE \E x \in S : Cardinality(before[x]) = k - 1
    <2>1. PICK x \in S : f[x] = k
      BY <1>12
    <2>2. Cardinality(before[x]) + 1 = k
      BY <2>1 DEF f
    <2> QED
      BY <1>3, <2>2
  <1> QED
    BY <1>1, <1>4, <1>6, <1>13

\* Putting a finite set in order lists it.
LEMMA InOrderLists ==
  ASSUME NEW S, IsFiniteSet(S), NEW before, Orders(before, S)
  PROVE  Lists(InOrder(before, S), S)
  <1> DEFINE n == Cardinality(S)
             s == InOrder(before, S)
  <1>1. /\ n \in Nat
        /\ \A x \in S : Cardinality(before[x]) + 1 \in 1..n
        /\ \A x, y \in S : Cardinality(before[x]) = Cardinality(before[y]) => x = y
        /\ \A k \in 1..n : \E x \in S : Cardinality(before[x]) = k - 1
    BY PlaceExists
  <1>2. s = [k \in 1..n |-> CHOOSE x \in S : Cardinality(before[x]) = k - 1]
    BY DEF InOrder
  <1> HIDE DEF n, s
  <1>3. ASSUME NEW k \in 1..n PROVE s[k] \in S /\ Cardinality(before[s[k]]) = k - 1
    <2>1. \E x \in S : Cardinality(before[x]) = k - 1
      BY <1>1
    <2>2. s[k] = CHOOSE x \in S : Cardinality(before[x]) = k - 1
      BY <1>2
    <2> QED
      BY <2>1, <2>2
  <1>4. s \in Seq(S) /\ Len(s) = n
    BY <1>1, <1>2, <1>3
  <1>5. \A j, k \in 1..n : s[j] = s[k] => j = k
    BY <1>3
  <1>6. ASSUME NEW x \in S PROVE \E k \in 1..n : s[k] = x
    <2> DEFINE k == Cardinality(before[x]) + 1
    <2>1. k \in 1..n /\ Cardinality(before[x]) \in Int
      <3>1. Cardinality(before[x]) \in Nat
        <4>1. before[x] \in SUBSET S
          BY DEF Orders
        <4> QED
          BY <4>1, FS_Subset, FS_CardinalityType
      <3> QED
        BY <1>1, <3>1
    <2>2. Cardinality(before[s[k]]) = k - 1 /\ s[k] \in S
      BY <1>3, <2>1
    <2>3. s[k] = x
      BY <1>1, <2>1, <2>2
    <2> QED
      BY <2>1, <2>3
  <1> QED
    BY <1>4, <1>5, <1>6 DEF Lists, n, s

\* Rows that can be ranked: no two of one identity.
Comparable(rows) ==
    /\ IsFiniteSet(rows)
    /\ \A r \in rows : r.identity \in Nat /\ r.work \in Nat
    /\ \A q, r \in rows : q.identity = r.identity => q = r

\* Ranking rows lists them.
LEMMA RankedLists ==
  ASSUME NEW rows, Comparable(rows)
  PROVE  Lists(Ranked(rows), rows)
  <1> DEFINE before == [r \in rows |-> {q \in rows : Before(q, r)}]
  <1>1. /\ IsFiniteSet(rows)
        /\ \A r \in rows : r.identity \in Nat /\ r.work \in Nat
        /\ \A q, r \in rows : q.identity = r.identity => q = r
    BY DEF Comparable
  <1>2. before \in [rows -> SUBSET rows]
    OBVIOUS
  <1>3. \A q, r \in rows : q \in before[r] <=> Before(q, r)
    OBVIOUS
  <1> HIDE DEF before
  <1>4. \A r \in rows : ~Before(r, r)
    BY <1>1 DEF Before
  <1>5. \A q, r \in rows : q # r => Before(q, r) \/ Before(r, q)
    BY <1>1 DEF Before
  <1>6. \A p, q, r \in rows : Before(p, q) /\ Before(q, r) => Before(p, r)
    BY <1>1 DEF Before
  <1>7. \A q, r \in rows : q \in before[r] => before[q] \subseteq before[r]
    <2> SUFFICES ASSUME NEW q \in rows, NEW r \in rows, q \in before[r], NEW p \in before[q]
                 PROVE  p \in before[r]
      OBVIOUS
    <2>1. p \in rows
      BY <1>2
    <2> QED
      BY <1>3, <1>6, <2>1
  <1>8. Orders(before, rows)
    BY <1>2, <1>3, <1>4, <1>5, <1>7 DEF Orders
  <1>9. Ranked(rows) = InOrder(before, rows)
    <2>1. \A r \in rows : before[r] = {q \in rows : Before(q, r)}
      BY DEF before
    <2> DEFINE A(k) == CHOOSE r \in rows : Cardinality({q \in rows : Before(q, r)}) = k - 1
               B(k) == CHOOSE r \in rows : Cardinality(before[r]) = k - 1
    <2>2. \A k \in 1..Cardinality(rows) : A(k) = B(k)
      BY <2>1
    <2>3. Ranked(rows) = [k \in 1..Cardinality(rows) |-> A(k)]
      BY Zenon DEF Ranked
    <2>4. InOrder(before, rows) = [k \in 1..Cardinality(rows) |-> B(k)]
      BY Zenon DEF InOrder
    <2> HIDE DEF A, B
    <2> QED
      BY <2>2, <2>3, <2>4, Zenon
  <1> QED
    BY <1>1, <1>8, <1>9, InOrderLists

\* Putting identities in the order of their names lists them.
LEMMA ByNameLists ==
  ASSUME NEW ids \in SUBSET Nat, IsFiniteSet(ids)
  PROVE  Lists(ByName(ids), ids)
  <1> DEFINE before == [i \in ids |-> {j \in ids : j < i}]
  <1>0. before \in [ids -> SUBSET ids] /\ \A i, j \in ids : j \in before[i] <=> j < i
    OBVIOUS
  <1>1. Orders(before, ids)
    <2> HIDE DEF before
    <2>1. \A i \in ids : i \notin before[i]
      BY <1>0
    <2>2. \A i, j \in ids : i # j => i \in before[j] \/ j \in before[i]
      BY <1>0
    <2>3. \A i, j \in ids : i \in before[j] => before[i] \subseteq before[j]
      <3> SUFFICES ASSUME NEW i \in ids, NEW j \in ids, i \in before[j], NEW k \in before[i]
                   PROVE  k \in before[j]
        OBVIOUS
      <3>1. k \in ids
        BY <1>0
      <3> QED
        BY <1>0, <3>1
    <2> QED
      BY <1>0, <2>1, <2>2, <2>3 DEF Orders
  <1>2. ByName(ids) = InOrder(before, ids)
    <2>1. \A i \in ids : before[i] = {j \in ids : j < i}
      OBVIOUS
    <2> HIDE DEF before
    <2> DEFINE A(k) == CHOOSE i \in ids : Cardinality({j \in ids : j < i}) = k - 1
               B(k) == CHOOSE i \in ids : Cardinality(before[i]) = k - 1
    <2>2. \A k \in 1..Cardinality(ids) : A(k) = B(k)
      BY <2>1
    <2>3. ByName(ids) = [k \in 1..Cardinality(ids) |-> A(k)]
      BY Zenon DEF ByName
    <2>4. InOrder(before, ids) = [k \in 1..Cardinality(ids) |-> B(k)]
      BY Zenon DEF InOrder
    <2> HIDE DEF A, B
    <2> QED
      BY <2>2, <2>3, <2>4, Zenon
  <1> HIDE DEF before
  <1> QED
    BY <1>1, <1>2, InOrderLists

-----------------------------------------------------------------------------
(* Shares and fees *)

\* A row of Window::miners.
Miner == {m \in [identity : Idents, work : Nat, stratum_work : Nat] :
             m.work > 0 /\ m.stratum_work <= m.work}

\* The rates of an identity are at most 100 %.
LEMMA BpsIs ==
  ASSUME NEW p, IsParams(p), NEW i
  PROVE  BpsFor(p, i).stratum \in 0..BPS /\ BpsFor(p, i).datum \in 0..BPS
  BY DEF IsParams, BpsFor

\* A miner's fee is at most its work, weighted by 100 %.
LEMMA FeeNumIs ==
  ASSUME NEW p, IsParams(p), NEW m \in Miner
  PROVE  FeeNum(p, m) \in Nat /\ FeeNum(p, m) <= m.work * BPS /\ m.work * BPS - FeeNum(p, m) \in Nat
  <1> DEFINE s == m.stratum_work
             d == m.work - m.stratum_work
             x == BpsFor(p, m.identity).stratum
             y == BpsFor(p, m.identity).datum
  <1>1. s \in Nat /\ d \in Nat /\ m.work = s + d /\ m.work \in Nat
    BY DEF Miner
  <1>0. BPS \in Nat
    BY DEF BPS
  <1>2. x \in 0..BPS /\ y \in 0..BPS
    BY BpsIs
  <1>3. FeeNum(p, m) = s * x + d * y
    BY DEF FeeNum
  <1> HIDE DEF s, d, x, y
  <1>4. x \in Nat /\ y \in Nat /\ x <= BPS /\ y <= BPS
    BY <1>0, <1>2
  <1>5. s * x <= s * BPS /\ s * x \in Nat /\ s * BPS \in Nat
    BY <1>0, <1>1, <1>4, TimesMore
  <1>6. d * y <= d * BPS /\ d * y \in Nat /\ d * BPS \in Nat
    BY <1>0, <1>1, <1>4, TimesMore
  <1>7. (s + d) * BPS = s * BPS + d * BPS
    BY <1>1 DEF BPS
  <1> QED
    BY <1>1, <1>3, <1>5, <1>6, <1>7

\* A share is at most the miner's part of the value by work.
LEMMA ShareIs ==
  ASSUME NEW p, IsParams(p), NEW m \in Miner, NEW value \in Nat, NEW total \in Nat, total > 0
  PROVE  ShareOf(p, m, value, total) \in Nat /\ ShareOf(p, m, value, total) * total <= m.work * value
  <1> DEFINE net == m.work * BPS - FeeNum(p, m)
             q == (value * net) \div total
             sats == q \div BPS
  <1>1. net \in Nat /\ net <= m.work * BPS /\ m.work \in Nat /\ m.work * BPS \in Nat
    BY FeeNumIs DEF Miner, BPS
  <1>2. ShareOf(p, m, value, total) = sats
    BY DEF ShareOf
  <1> HIDE DEF net
  <1>3. value * net \in Nat
    BY <1>1
  <1>4. q \in Nat /\ q * total <= value * net
    BY <1>3, Quotient
  <1> HIDE DEF q
  <1>5. sats \in Nat /\ sats * BPS <= q
    BY <1>4 DEF BPS
  <1> HIDE DEF sats
  <1>6. (sats * BPS) * total <= q * total
    BY <1>4, <1>5, TimesMore DEF BPS
  <1>7. value * net <= value * (m.work * BPS)
    BY <1>1, TimesMore
  <1>8. value * (m.work * BPS) = (m.work * value) * BPS /\ (sats * BPS) * total = (sats * total) * BPS
    BY <1>1, <1>5 DEF BPS
  <1>9. sats * total \in Nat /\ m.work * value \in Nat /\ BPS \in Nat /\ BPS > 0
    BY <1>1, <1>5 DEF BPS
  <1>10. (sats * total) * BPS <= (m.work * value) * BPS
    BY <1>3, <1>4, <1>6, <1>7, <1>8, <1>9 DEF BPS
  <1>11. sats * total <= m.work * value
    BY <1>9, <1>10, TimesLess
  <1> QED
    BY <1>2, <1>5, <1>11

\* A fee is a natural.
LEMMA FeeIs ==
  ASSUME NEW p, IsParams(p), NEW m \in Miner, NEW value \in Nat, NEW total \in Nat, total > 0
  PROVE  FeeOf(p, m, value, total) \in Nat
  <1>1. value * FeeNum(p, m) \in Nat
    BY FeeNumIs
  <1>2. (value * FeeNum(p, m)) \div total \in Nat
    BY <1>1, Quotient
  <1> QED
    BY <1>2 DEF FeeOf, BPS

-----------------------------------------------------------------------------
(* Placing the miners *)

\* The loop's variable after each miner.
LEMMA PlaceRuns ==
  ASSUME NEW p, NEW ms \in Seq(Miner), NEW value
  PROVE  \E acc : /\ acc[0] = Placing
                  /\ \A k \in 1..Len(ms) :
                        acc[k] = PlaceOne(p, value, TotalWork(ms), acc[k - 1], ms[k])
                  /\ Place(p, ms, value) = acc[Len(ms)]
  <1> DEFINE n == Len(ms)
             One(a, k) == PlaceOne(p, value, TotalWork(ms), a, ms[k])
             Rec(g, m) == g = [k \in 0..m |-> IF k = 0 THEN Placing ELSE One(g[k - 1], k)]
             T == {m \in 0..n : \E g : Rec(g, m)}
             acc == CHOOSE g : Rec(g, n)
  <1>1. n \in Nat
    BY LenProperties
  <1>2. Place(p, ms, value) = acc[n]
    BY DEF Place
  <1> HIDE DEF n, One
  <1>3. 0 \in T
    <2>1. Rec([k \in 0..0 |-> Placing], 0)
      OBVIOUS
    <2>2. 0 \in 0..n
      BY <1>1
    <2> QED
      BY <2>1, <2>2, Zenon
  <1>4. ASSUME NEW m \in 0..(n - 1), m \in T PROVE m + 1 \in T
    <2>1. PICK g : Rec(g, m)
      BY <1>4
    <2> DEFINE h == [k \in 0..(m + 1) |-> IF k = m + 1 THEN One(g[m], m + 1) ELSE g[k]]
    <2>2. m \in Nat /\ m + 1 \in 0..n
      BY <1>1
    <2>3. g[0] = Placing /\ \A k \in 1..m : g[k] = One(g[k - 1], k)
      BY <2>1, <2>2
    <2>4. /\ \A k \in 0..m : h[k] = g[k]
          /\ h[m + 1] = One(g[m], m + 1)
      BY <2>2
    <2>5. h = [k \in 0..(m + 1) |-> h[k]]
      OBVIOUS
    <2> HIDE DEF h
    <2>6. ASSUME NEW k \in 0..(m + 1)
          PROVE  h[k] = IF k = 0 THEN Placing ELSE One(h[k - 1], k)
      <3>1. CASE k = 0
        BY <2>2, <2>3, <2>4, <3>1
      <3>2. CASE k = m + 1
        <4>1. k - 1 = m /\ m \in 0..m /\ k # 0
          BY <2>2, <3>2
        <4>2. h[k - 1] = g[m]
          BY <2>4, <4>1
        <4> QED
          BY <2>4, <3>2, <4>1, <4>2
      <3>3. CASE k \in 1..m
        <4>1. k - 1 \in 0..m /\ k \in 0..m /\ k # 0
          BY <2>2, <3>3
        <4>2. h[k] = g[k] /\ h[k - 1] = g[k - 1]
          BY <2>4, <4>1
        <4> QED
          BY <2>3, <3>3, <4>1, <4>2
      <3> QED
        BY <2>2, <3>1, <3>2, <3>3
    <2>7. Rec(h, m + 1)
      BY <2>5, <2>6, Zenon
    <2> QED
      BY <2>2, <2>7
  <1>5. \A m \in 0..(n - 1) : m \in T => m + 1 \in T
    BY <1>4
  <1> HIDE DEF T
  <1>6. n \in T
    <2>1. \A k \in 0..n : k \in T
      BY <1>1, <1>3, <1>5, UpTo
    <2> QED
      BY <1>1, <2>1
  <1>7. \E g : Rec(g, n)
    BY <1>6 DEF T
  <1>8. Rec(acc, n)
    BY <1>7
  <1> HIDE DEF acc
  <1>9. acc[0] = Placing /\ \A k \in 1..n : acc[k] = One(acc[k - 1], k)
    BY <1>1, <1>8
  <1> QED
    BY <1>2, <1>9 DEF n, One

-----------------------------------------------------------------------------
(* What a list of payees pays *)

Payee == [identity : Idents, work : Nat, sats : Nat]
SatsIn == [q \in Payee |-> q.sats]

\* PaidSats is a sum over payees.
LEMMA PaidIs ==
  /\ SatsIn \in [Payee -> Nat]
  /\ \A s \in Seq(Payee) : PaidSats(s) = SumBy(SatsIn, s)
  <1>1. SatsIn \in [Payee -> Nat]
    BY DEF SatsIn, Payee
  <1>2. ASSUME NEW s \in Seq(Payee) PROVE PaidSats(s) = SumBy(SatsIn, s)
    <2>1. \A k \in DOMAIN s : SatsIn[s[k]] = s[k].sats
      <3>1. \A k \in DOMAIN s : s[k] \in Payee
        BY LenProperties, ElementOfSeq
      <3> QED
        BY <3>1 DEF SatsIn
    <2>2. [k \in DOMAIN s |-> SatsIn[s[k]]] = [k \in DOMAIN s |-> s[k].sats]
      BY <2>1, Zenon
    <2> QED
      BY <2>2 DEF PaidSats, SumBy
  <1> QED
    BY <1>1, <1>2

\* What a list pays, one payee at a time.
LEMMA PaidList ==
  /\ PaidSats(<< >>) = 0
  /\ \A s \in Seq(Payee) : PaidSats(s) \in Nat
  /\ \A s \in Seq(Payee), q \in Payee : PaidSats(Append(s, q)) = PaidSats(s) + q.sats
  <1>1. PaidSats(<< >>) = 0
    <2>1. << >> \in Seq(Payee)
      OBVIOUS
    <2> QED
      BY <2>1, PaidIs, ByEmpty
  <1>2. \A s \in Seq(Payee) : PaidSats(s) \in Nat
    BY PaidIs, ByNat
  <1>3. ASSUME NEW s \in Seq(Payee), NEW q \in Payee
        PROVE  PaidSats(Append(s, q)) = PaidSats(s) + q.sats
    <2>1. Append(s, q) \in Seq(Payee)
      BY AppendProperties
    <2>2. SumBy(SatsIn, Append(s, q)) = SumBy(SatsIn, s) + SatsIn[q]
      BY PaidIs, ByAppend
    <2>3. SatsIn[q] = q.sats
      BY DEF SatsIn
    <2> QED
      BY <2>1, <2>2, <2>3, PaidIs
  <1> QED
    BY <1>1, <1>2, <1>3

\* What a list pays when one payee is replaced.
LEMMA PaidPut ==
  ASSUME NEW s \in Seq(Payee), NEW j \in 1..Len(s), NEW q \in Payee
  PROVE  s[j].sats \in Nat /\ PaidSats(Put(s, j, q)) + s[j].sats = PaidSats(s) + q.sats
  <1>1. SumBy(SatsIn, Put(s, j, q)) + SatsIn[s[j]] = SumBy(SatsIn, s) + SatsIn[q]
    BY PaidIs, ByPut
  <1>2. s[j] \in Payee
    BY ElementOfSeq
  <1>3. SatsIn[q] = q.sats /\ SatsIn[s[j]] = s[j].sats
    BY <1>2 DEF SatsIn
  <1>4. Put(s, j, q) \in Seq(Payee)
    BY PutSeq
  <1> QED
    BY <1>1, <1>2, <1>3, <1>4, PaidIs DEF Payee

-----------------------------------------------------------------------------
(* The miners placed *)

Reasons == {"BelowMinimum", "NoScript", "OverBudget", "BelowCut", "none"}
Owed == [identity : Idents, sats : Nat, reason : Reasons]
Acc == [payees : Seq(Payee), unpaid : Seq(Owed), bytes : Nat, fee : Nat]

\* No two rows of one identity.
Once(rows) == \A j, k \in 1..Len(rows) : rows[j].identity = rows[k].identity => j = k

\* The payees are within the limits; the bytes counted are at least theirs.
Within(p, payees, bytes) ==
    /\ Len(payees) <= p.max_outputs
    /\ Len(payees) * OutputBytes <= bytes
    /\ bytes <= p.output_budget_bytes

\* Payees that may have an output.
Scripted(payees) == \A j \in 1..Len(payees) : ScriptOf[payees[j].identity] # NoScript

\* Payees above the floor, who did some work.
Worth(p, payees) ==
    \A j \in 1..Len(payees) : payees[j].sats >= p.min_payout /\ payees[j].work > 0

\* Each payee is one of the first k rows.
Among(payees, rows, k) ==
    \A j \in 1..Len(payees) : \E i \in 1..k : rows[i].identity = payees[j].identity

PlacedAll(p, ms, acc, k) ==
    /\ acc \in Acc
    /\ Within(p, acc.payees, acc.bytes)
    /\ Once(acc.payees)
    /\ Scripted(acc.payees)
    /\ Worth(p, acc.payees)
    /\ Among(acc.payees, ms, k)

\* One payee more in a list.
LEMMA MorePayees ==
  ASSUME NEW s \in Seq(Payee), NEW q \in Payee
  PROVE  /\ Append(s, q) \in Seq(Payee) /\ Len(Append(s, q)) = Len(s) + 1 /\ Len(s) \in Nat
         /\ Append(s, q)[Len(s) + 1] = q
         /\ \A j \in 1..Len(s) : Append(s, q)[j] = s[j]
         /\ \A j \in 1..(Len(s) + 1) : j \in 1..Len(s) \/ j = Len(s) + 1
  BY AppendProperties, LenProperties

\* One payee more within the limits.
LEMMA MoreWithin ==
  ASSUME NEW p, IsParams(p), NEW s \in Seq(Payee), NEW q \in Payee, NEW bytes \in Nat,
         Within(p, s, bytes), Fits(p, s, bytes)
  PROVE  Within(p, Append(s, q), bytes + OutputBytes) /\ bytes + OutputBytes \in Nat
  <1>1. OutputBytes \in Nat
    BY PayoutAssumption DEF OutputBytes
  <1>2. Len(Append(s, q)) = Len(s) + 1 /\ Len(s) \in Nat
    BY MorePayees
  <1>3. p.max_outputs \in Nat /\ p.output_budget_bytes \in Nat
    BY DEF IsParams
  <1>4. (Len(s) + 1) * OutputBytes = Len(s) * OutputBytes + OutputBytes /\ Len(s) * OutputBytes \in Nat
    BY <1>1, <1>2
  <1>5. Len(s) < p.max_outputs /\ bytes + OutputBytes <= p.output_budget_bytes
    BY DEF Fits
  <1>6. Len(s) * OutputBytes <= bytes
    BY DEF Within
  <1> HIDE DEF OutputBytes
  <1>7. Len(s) * OutputBytes + OutputBytes <= bytes + OutputBytes
    BY <1>1, <1>4, <1>6
  <1>8. Len(s) + 1 <= p.max_outputs
    BY <1>2, <1>3, <1>5
  <1> QED
    BY <1>1, <1>2, <1>4, <1>5, <1>7, <1>8 DEF Within

\* Why there is no reason against an output.
LEMMA NoReason ==
  ASSUME NEW p, IsParams(p), NEW acc, NEW i, NEW sats \in Nat, Reason(p, acc, i, sats) = "none"
  PROVE  sats >= p.min_payout /\ ScriptOf[i] # NoScript /\ Fits(p, acc.payees, acc.bytes)
  <1>1. p.min_payout \in Nat
    BY DEF IsParams
  <1>2. "BelowMinimum" # "none" /\ "NoScript" # "none" /\ "OverBudget" # "none"
    OBVIOUS
  <1>3. ~(sats < p.min_payout)
    BY <1>2, Zenon DEF Reason
  <1>4. ScriptOf[i] # NoScript
    BY <1>2, <1>3, Zenon DEF Reason
  <1>5. Fits(p, acc.payees, acc.bytes)
    BY <1>2, <1>3, <1>4, Zenon DEF Reason
  <1> QED
    BY <1>1, <1>3, <1>4, <1>5

\* A reason is one of them.
LEMMA ReasonIs ==
  ASSUME NEW p, NEW acc, NEW i, NEW sats
  PROVE  Reason(p, acc, i, sats) \in Reasons
  BY Zenon DEF Reason, Reasons

\* One miner placed.
LEMMA PlaceOneStep ==
  ASSUME NEW p, IsParams(p), NEW ms \in Seq(Miner), Once(ms), NEW value \in Nat,
         NEW total \in Nat, total > 0, NEW k \in 1..Len(ms),
         NEW acc, PlacedAll(p, ms, acc, k - 1)
  PROVE  PlacedAll(p, ms, PlaceOne(p, value, total, acc, ms[k]), k)
  <1> DEFINE m == ms[k]
             sats == ShareOf(p, m, value, total)
             reason == Reason(p, acc, m.identity, sats)
             fee == acc.fee + FeeOf(p, m, value, total)
             q == [identity |-> m.identity, work |-> m.work, sats |-> sats]
             u == [identity |-> m.identity, sats |-> sats, reason |-> reason]
             new == PlaceOne(p, value, total, acc, m)
  <1>1. Len(ms) \in Nat /\ m \in Miner
    BY LenProperties, ElementOfSeq
  <1>2. m.identity \in Idents /\ m.work \in Nat /\ m.work > 0
    BY <1>1 DEF Miner
  <1>3. sats \in Nat /\ FeeOf(p, m, value, total) \in Nat
    BY <1>1, ShareIs, FeeIs
  <1>4. /\ acc.payees \in Seq(Payee) /\ acc.unpaid \in Seq(Owed) /\ acc.bytes \in Nat /\ acc.fee \in Nat
        /\ Within(p, acc.payees, acc.bytes) /\ Once(acc.payees) /\ Scripted(acc.payees)
        /\ Worth(p, acc.payees) /\ Among(acc.payees, ms, k - 1)
    BY DEF PlacedAll, Acc
  <1>5. new = IF reason = "none"
              THEN [payees |-> Append(acc.payees, q), unpaid |-> acc.unpaid,
                    bytes |-> acc.bytes + OutputBytes, fee |-> fee]
              ELSE [payees |-> acc.payees, unpaid |-> Append(acc.unpaid, u),
                    bytes |-> acc.bytes, fee |-> fee]
    BY DEF PlaceOne
  <1>6. fee \in Nat
    BY <1>3, <1>4
  <1>7. q \in Payee /\ q.identity = m.identity /\ q.sats = sats /\ q.work = m.work
    BY <1>2, <1>3 DEF Payee
  <1>8. u \in Owed
    BY <1>2, <1>3, ReasonIs DEF Owed
  <1>9. reason = "none" => sats >= p.min_payout /\ ScriptOf[m.identity] # NoScript
                            /\ Fits(p, acc.payees, acc.bytes)
    BY <1>3, NoReason
  <1> HIDE DEF new, fee, sats, q, u, reason
  <1>10. ASSUME reason = "none" PROVE PlacedAll(p, ms, new, k)
    <2> DEFINE s == acc.payees
               t == Append(s, q)
    <2>1. new.payees = t /\ new.bytes = acc.bytes + OutputBytes
      BY <1>5, <1>10
    <2>2. /\ t \in Seq(Payee) /\ Len(t) = Len(s) + 1 /\ Len(s) \in Nat
          /\ t[Len(s) + 1] = q /\ \A j \in 1..Len(s) : t[j] = s[j]
          /\ \A j \in 1..(Len(s) + 1) : j \in 1..Len(s) \/ j = Len(s) + 1
      BY <1>4, <1>7, MorePayees
    <2>3. Within(p, t, acc.bytes + OutputBytes) /\ acc.bytes + OutputBytes \in Nat
      BY <1>4, <1>7, <1>9, <1>10, MoreWithin
    <2> HIDE DEF t
    <2>4. new \in Acc
      BY <1>4, <1>5, <1>6, <1>10, <2>2, <2>3 DEF Acc, t
    <2>5. \A j \in 1..Len(s) : s[j].identity # m.identity
      <3> SUFFICES ASSUME NEW j \in 1..Len(s), s[j].identity = m.identity PROVE FALSE
        OBVIOUS
      <3>1. PICK i \in 1..(k - 1) : ms[i].identity = s[j].identity
        BY <1>4 DEF Among
      <3>2. i \in 1..Len(ms) /\ i # k
        BY <1>1
      <3> QED
        BY <3>1, <3>2 DEF Once
    <2>6. Once(t)
      <3>1. \A i, j \in 1..Len(s) : s[i].identity = s[j].identity => i = j
        BY <1>4 DEF Once
      <3> QED
        BY <1>7, <2>2, <2>5, <3>1, ZenonT(30) DEF Once
    <2>7. Scripted(t)
      BY <1>4, <1>7, <1>9, <1>10, <2>2 DEF Scripted
    <2>8. Worth(p, t)
      BY <1>2, <1>4, <1>7, <1>9, <1>10, <2>2 DEF Worth
    <2>9. Among(t, ms, k)
      <3> SUFFICES ASSUME NEW j \in 1..Len(t) PROVE \E i \in 1..k : ms[i].identity = t[j].identity
        BY DEF Among
      <3>1. CASE j \in 1..Len(s)
        <4>1. PICK i \in 1..(k - 1) : ms[i].identity = s[j].identity
          BY <1>4, <3>1 DEF Among
        <4>2. i \in 1..k
          BY <1>1
        <4> QED
          BY <2>2, <3>1, <4>1, <4>2
      <3>2. CASE j = Len(s) + 1
        <4>1. k \in 1..k /\ ms[k].identity = t[j].identity
          BY <1>1, <1>7, <2>2, <3>2
        <4> QED
          BY <4>1
      <3> QED
        BY <2>2, <3>1, <3>2
    <2> QED
      BY <2>1, <2>3, <2>4, <2>6, <2>7, <2>8, <2>9 DEF PlacedAll
  <1>11. ASSUME reason # "none" PROVE PlacedAll(p, ms, new, k)
    <2>1. new.payees = acc.payees /\ new.bytes = acc.bytes
      BY <1>5, <1>11
    <2>2. Append(acc.unpaid, u) \in Seq(Owed)
      BY <1>4, <1>8, AppendProperties
    <2>3. new \in Acc
      BY <1>4, <1>5, <1>6, <1>11, <2>2 DEF Acc
    <2>4. Among(acc.payees, ms, k)
      <3>1. \A i \in 1..(k - 1) : i \in 1..k
        BY <1>1
      <3> QED
        BY <1>4, <3>1 DEF Among
    <2> QED
      BY <1>4, <2>1, <2>3, <2>4 DEF PlacedAll
  <1> QED
    BY <1>10, <1>11 DEF new

WorksOf(ms) == [k \in DOMAIN ms |-> ms[k].work]

\* The work of rows that did some, one at a time.
LEMMA RowWorks ==
  ASSUME NEW R, \A r \in R : r.work \in Nat /\ r.work > 0, NEW ms \in Seq(R)
  PROVE  /\ WorksOf(ms) \in Seq(Nat) /\ Len(WorksOf(ms)) = Len(ms)
         /\ \A k \in 1..Len(ms) : WorksOf(ms)[k] = ms[k].work /\ ms[k].work \in Nat /\ ms[k].work > 0
         /\ TotalWork(ms) = SumOf(WorksOf(ms)) /\ TotalWork(ms) \in Nat
         /\ ms # << >> => TotalWork(ms) > 0
  <1>1. Len(ms) \in Nat /\ DOMAIN ms = 1..Len(ms) /\ \A k \in 1..Len(ms) : ms[k] \in R
    BY LenProperties, ElementOfSeq
  <1>2. \A k \in 1..Len(ms) : WorksOf(ms)[k] = ms[k].work /\ ms[k].work \in Nat /\ ms[k].work > 0
    BY <1>1 DEF WorksOf
  <1>3. WorksOf(ms) \in Seq(Nat) /\ Len(WorksOf(ms)) = Len(ms)
    BY <1>1, <1>2 DEF WorksOf
  <1>4. TotalWork(ms) = SumOf(WorksOf(ms))
    BY DEF TotalWork, WorksOf
  <1>5. TotalWork(ms) \in Nat
    BY <1>3, <1>4, SumNat
  <1>6. ASSUME ms # << >> PROVE TotalWork(ms) > 0
    <2>1. 1 \in 1..Len(ms)
      BY <1>1, <1>6, EmptySeq
    <2>2. WorksOf(ms)[1] <= SumOf(WorksOf(ms))
      BY <1>3, <2>1, SumMember
    <2> QED
      BY <1>2, <1>4, <1>5, <2>1, <2>2
  <1> QED
    BY <1>2, <1>3, <1>4, <1>5, <1>6

\* The work of the miners, one at a time.
LEMMA WorksAre ==
  ASSUME NEW ms \in Seq(Miner)
  PROVE  /\ WorksOf(ms) \in Seq(Nat) /\ Len(WorksOf(ms)) = Len(ms)
         /\ \A k \in 1..Len(ms) : WorksOf(ms)[k] = ms[k].work /\ ms[k].work \in Nat /\ ms[k].work > 0
         /\ TotalWork(ms) = SumOf(WorksOf(ms)) /\ TotalWork(ms) \in Nat
         /\ ms # << >> => TotalWork(ms) > 0
  <1>1. \A m \in Miner : m.work \in Nat /\ m.work > 0
    BY DEF Miner
  <1> QED
    BY <1>1, RowWorks

\* What is paid so far is no more than the work so far is worth.
Earned(ms, value, acc, k) ==
    PaidSats(acc.payees) * TotalWork(ms) <= SumTo(WorksOf(ms), k) * value

\* One miner placed.
LEMMA PlaceOneValue ==
  ASSUME NEW p, IsParams(p), NEW ms \in Seq(Miner), NEW value \in Nat,
         NEW k \in 1..Len(ms), NEW acc, acc \in Acc, Earned(ms, value, acc, k - 1)
  PROVE  Earned(ms, value, PlaceOne(p, value, TotalWork(ms), acc, ms[k]), k)
  <1> DEFINE total == TotalWork(ms)
             m == ms[k]
             sats == ShareOf(p, m, value, total)
             q == [identity |-> m.identity, work |-> m.work, sats |-> sats]
             new == PlaceOne(p, value, total, acc, m)
             before == PaidSats(acc.payees)
             done == SumTo(WorksOf(ms), k - 1)
  <1>1. Len(ms) \in Nat /\ m \in Miner /\ ms # << >>
    BY LenProperties, ElementOfSeq
  <1>2. total \in Nat /\ total > 0 /\ m.work \in Nat /\ m.identity \in Idents
    BY <1>1, WorksAre DEF Miner
  <1>3. sats \in Nat /\ sats * total <= m.work * value
    BY <1>1, <1>2, ShareIs
  <1>4. k - 1 \in 0..(Len(ms) - 1) /\ k - 1 \in 0..Len(ms) /\ (k - 1) + 1 = k
    BY <1>1
  <1>5. SumTo(WorksOf(ms), k) = done + m.work /\ done \in Nat
    BY <1>4, WorksAre, SumToIs
  <1>6. acc.payees \in Seq(Payee) /\ q \in Payee /\ q.sats = sats
    BY <1>2, <1>3 DEF Acc, Payee
  <1>7. before \in Nat
    BY <1>6, PaidList
  <1>8. new.payees = Append(acc.payees, q) \/ new.payees = acc.payees
    BY DEF PlaceOne
  <1>9. before * total <= done * value
    BY DEF Earned
  <1>10. PaidSats(new.payees) = before + sats \/ PaidSats(new.payees) = before
    BY <1>6, <1>8, PaidList
  <1> HIDE DEF total, m, sats, q, new, before, done
  <1>11. (before + sats) * total <= (done + m.work) * value
    BY <1>2, <1>3, <1>5, <1>7, <1>9, Spread
  <1>12. before * total <= (done + m.work) * value
    <2>1. 0 * total <= m.work * value /\ before + 0 = before
      BY <1>2, <1>7
    <2>2. (before + 0) * total <= (done + m.work) * value
      BY <1>2, <1>5, <1>7, <1>9, <2>1, Spread
    <2> QED
      BY <2>1, <2>2
  <1>13. PaidSats(new.payees) * total <= (done + m.work) * value
    BY <1>10, <1>11, <1>12
  <1> QED
    BY <1>5, <1>13 DEF Earned, new, total, m

\* The miners placed: each limit holds, and no more than the value is paid.
LEMMA PlaceIs ==
  ASSUME NEW p, IsParams(p), NEW ms \in Seq(Miner), Once(ms), NEW value \in Nat
  PROVE  /\ PlacedAll(p, ms, Place(p, ms, value), Len(ms))
         /\ PaidSats(Place(p, ms, value).payees) <= value
  <1> DEFINE n == Len(ms)
  <1>1. n \in Nat
    BY LenProperties
  <1>2. PICK acc : /\ acc[0] = Placing
                   /\ \A k \in 1..n : acc[k] = PlaceOne(p, value, TotalWork(ms), acc[k - 1], ms[k])
                   /\ Place(p, ms, value) = acc[n]
    BY PlaceRuns
  <1> DEFINE T == {k \in 0..n : PlacedAll(p, ms, acc[k], k) /\ Earned(ms, value, acc[k], k)}
  <1>3. 0 \in T
    <2>1. /\ Placing.payees = << >> /\ Placing.bytes = 0 /\ Len(<< >>) = 0
          /\ << >> \in Seq(Payee) /\ << >> \in Seq(Owed)
      BY DEF Placing
    <2>2. Placing \in Acc
      BY <2>1 DEF Placing, Acc
    <2>3. Within(p, << >>, 0)
      <3>1. OutputBytes \in Nat /\ p.max_outputs \in Nat /\ p.output_budget_bytes \in Nat
        BY PayoutAssumption DEF IsParams, OutputBytes
      <3>2. 0 * OutputBytes = 0
        BY <3>1
      <3> QED
        BY <2>1, <3>1, <3>2 DEF Within
    <2>4. Once(<< >>) /\ Scripted(<< >>) /\ Worth(p, << >>) /\ Among(<< >>, ms, 0)
      BY <2>1 DEF Once, Scripted, Worth, Among
    <2>5. PlacedAll(p, ms, Placing, 0)
      BY <2>1, <2>2, <2>3, <2>4 DEF PlacedAll
    <2>6. Earned(ms, value, Placing, 0)
      <3>1. PaidSats(<< >>) = 0 /\ SumTo(WorksOf(ms), 0) = 0 /\ TotalWork(ms) \in Nat
        BY PaidList, WorksAre, SumToIs
      <3> QED
        BY <2>1, <3>1 DEF Earned
    <2> QED
      BY <1>1, <1>2, <2>5, <2>6
  <1>4. ASSUME NEW k \in 0..(n - 1), k \in T PROVE k + 1 \in T
    <2>1. k + 1 \in 1..n /\ (k + 1) - 1 = k /\ k + 1 \in 0..n
      BY <1>1
    <2>2. acc[k + 1] = PlaceOne(p, value, TotalWork(ms), acc[k], ms[k + 1])
      BY <1>2, <2>1
    <2>3. PlacedAll(p, ms, acc[k], k) /\ Earned(ms, value, acc[k], k)
      BY <1>4
    <2>4. ms # << >> /\ TotalWork(ms) \in Nat
      BY <2>1, WorksAre
    <2>5. TotalWork(ms) > 0
      BY <2>4, WorksAre
    <2> DEFINE i == k + 1
    <2>6. i \in 1..Len(ms) /\ PlacedAll(p, ms, acc[k], i - 1) /\ Earned(ms, value, acc[k], i - 1)
      BY <2>1, <2>3
    <2> HIDE DEF i
    <2>7. PlacedAll(p, ms, PlaceOne(p, value, TotalWork(ms), acc[k], ms[i]), i)
      BY <2>4, <2>5, <2>6, PlaceOneStep
    <2>8. acc[k] \in Acc
      BY <2>3 DEF PlacedAll
    <2>9. Earned(ms, value, PlaceOne(p, value, TotalWork(ms), acc[k], ms[i]), i)
      BY <2>6, <2>8, PlaceOneValue
    <2> QED
      BY <2>1, <2>2, <2>7, <2>9 DEF i
  <1>5. \A k \in 0..(n - 1) : k \in T => k + 1 \in T
    BY <1>4
  <1> HIDE DEF T
  <1>6. \A k \in 0..n : k \in T
    BY <1>1, <1>3, <1>5, UpTo
  <1>7. PlacedAll(p, ms, acc[n], n) /\ Earned(ms, value, acc[n], n)
    BY <1>1, <1>6 DEF T
  <1> DEFINE s == acc[n].payees
  <1>8. s \in Seq(Payee) /\ Among(s, ms, n)
    BY <1>7 DEF PlacedAll, Acc
  <1>9. PaidSats(s) \in Nat
    BY <1>8, PaidList
  <1>10. PaidSats(s) <= value
    <2>1. CASE ms = << >>
      <3>1. n = 0
        BY <2>1
      <3>2. Len(s) \in Nat /\ \A j \in 1..Len(s) : FALSE
        BY <1>8, <3>1, LenProperties DEF Among
      <3>3. s = << >>
        BY <1>8, <3>2, EmptySeq
      <3> QED
        BY <3>3, PaidList
    <2>2. CASE ms # << >>
      <3>1. TotalWork(ms) \in Nat /\ TotalWork(ms) > 0 /\ SumTo(WorksOf(ms), n) = TotalWork(ms)
        BY <2>2, WorksAre, SumToIs
      <3>2. PaidSats(s) * TotalWork(ms) <= TotalWork(ms) * value
        BY <1>7, <3>1 DEF Earned
      <3>3. TotalWork(ms) * value = value * TotalWork(ms)
        BY <3>1
      <3> HIDE DEF s
      <3>4. PaidSats(s) * TotalWork(ms) <= value * TotalWork(ms)
        BY <3>2, <3>3
      <3> QED
        BY <1>9, <3>1, <3>4, TimesLess
    <2> QED
      BY <2>1, <2>2
  <1> QED
    BY <1>2, <1>7, <1>10

-----------------------------------------------------------------------------
(* Capping the payees *)

\* The lesser and the greater of two numbers.
LEMMA OfTwo ==
  ASSUME NEW a \in Int, NEW b \in Int
  PROVE  /\ Min({a, b}) = (IF a <= b THEN a ELSE b)
         /\ Max({a, b}) = (IF a >= b THEN a ELSE b)
  <1> DEFINE S == {a, b}
  <1>1. \E x \in S : \A y \in S : x <= y
    OBVIOUS
  <1>2. \E x \in S : \A y \in S : x >= y
    OBVIOUS
  <1>3. Min(S) \in S /\ \A y \in S : Min(S) <= y
    BY <1>1 DEF Min
  <1>4. Max(S) \in S /\ \A y \in S : Max(S) >= y
    BY <1>2 DEF Max
  <1> QED
    BY <1>3, <1>4

\* The greatest and the least of numbers that have a bound.
LEMMA OfMany ==
  ASSUME NEW T \in SUBSET Nat, T # {}, NEW b \in Nat, \A x \in T : x <= b
  PROVE  Max(T) \in T /\ Min(T) \in T
  <1>1. \E m \in T : \A x \in T : m >= x
    <2>1. PICK m \in T : \A x \in T : x <= m
      BY GreatestOf
    <2> QED
      BY <2>1
  <1>2. \E m \in T : \A x \in T : m <= x
    BY LeastOf
  <1>3. Max(T) \in T
    BY <1>1 DEF Max
  <1>4. Min(T) \in T
    BY <1>2 DEF Min
  <1> QED
    BY <1>3, <1>4

\* The fee of all miners is at most the value.
LEMMA AllFees ==
  ASSUME NEW p, IsParams(p), NEW ms \in Seq(Miner), ms # << >>, NEW value \in Nat
  PROVE  ((value * SumOf([k \in DOMAIN ms |-> FeeNum(p, ms[k])])) \div TotalWork(ms)) \div BPS \in 0..value
  <1> DEFINE f == [k \in DOMAIN ms |-> FeeNum(p, ms[k])]
             w == WorksOf(ms)
             total == TotalWork(ms)
             sum == SumOf(f)
             q == (value * sum) \div total
             fee == q \div BPS
  <1>0. BPS \in Nat /\ BPS > 0
    BY DEF BPS
  <1>1. Len(ms) \in Nat /\ DOMAIN ms = 1..Len(ms) /\ \A k \in 1..Len(ms) : ms[k] \in Miner
    BY LenProperties, ElementOfSeq
  <1>2. /\ w \in Seq(Nat) /\ Len(w) = Len(ms) /\ total = SumOf(w) /\ total \in Nat /\ total > 0
        /\ \A k \in 1..Len(ms) : w[k] = ms[k].work
    BY WorksAre
  <1>3. \A k \in 1..Len(ms) : f[k] \in Nat /\ f[k] <= ms[k].work * BPS
    BY <1>1, FeeNumIs
  <1>4. f \in Seq(Nat) /\ Len(f) = Len(ms)
    BY <1>1, <1>3
  <1>5. \A k \in 1..Len(f) : f[k] * 1 <= w[k] * BPS
    <2> TAKE k \in 1..Len(f)
    <2>1. k \in 1..Len(ms)
      BY <1>4
    <2>2. f[k] \in Nat /\ f[k] <= w[k] * BPS
      BY <1>2, <1>3, <2>1
    <2>3. f[k] * 1 = f[k]
      BY <2>2
    <2> QED
      BY <2>2, <2>3
  <1> HIDE DEF f, w, total
  <1>6. SumOf(f) * 1 <= SumOf(w) * BPS
    BY <1>0, <1>2, <1>4, <1>5, SumScaled
  <1>7. sum \in Nat /\ sum <= total * BPS
    BY <1>2, <1>4, <1>6, SumNat
  <1> HIDE DEF sum
  <1>8. value * sum \in Nat /\ total * BPS \in Nat
    BY <1>0, <1>2, <1>7
  <1>9. q \in Nat /\ q * total <= value * sum
    BY <1>2, <1>8, Quotient
  <1>10. value * sum <= value * (total * BPS)
    BY <1>7, <1>8, TimesMore
  <1>11. value * (total * BPS) = (value * BPS) * total /\ value * BPS \in Nat
    BY <1>2 DEF BPS
  <1> HIDE DEF q
  <1>12. q * total <= (value * BPS) * total
    <2>1. q * total \in Nat /\ value * (total * BPS) \in Nat
      BY <1>2, <1>8, <1>9
    <2> QED
      BY <2>1, <1>8, <1>9, <1>10, <1>11
  <1>13. q <= value * BPS
    BY <1>2, <1>9, <1>11, <1>12, TimesLess
  <1>14. fee \in Nat /\ fee * BPS <= q
    BY <1>0, <1>9, Quotient
  <1> HIDE DEF fee
  <1>15. fee * BPS <= value * BPS
    BY <1>9, <1>11, <1>13, <1>14 DEF BPS
  <1>16. fee <= value
    BY <1>0, <1>14, <1>15, TimesLess
  <1> QED
    BY <1>14, <1>16 DEF fee, q, sum, f, total

\* Ranking payees of different identities leaves out none and adds none.
LEMMA RankedPayees ==
  ASSUME NEW s \in Seq(Payee), Once(s), s # << >>,
         NEW r, r = Ranked({s[k] : k \in DOMAIN s})
  PROVE  /\ r \in Seq(Payee) /\ Len(r) \in 1..Len(s) /\ Once(r)
         /\ \A j \in 1..Len(r) : \E k \in 1..Len(s) : r[j] = s[k]
  <1> DEFINE rows == {s[k] : k \in DOMAIN s}
  <1>1. Len(s) \in Nat /\ DOMAIN s = 1..Len(s) /\ \A k \in 1..Len(s) : s[k] \in Payee
    BY LenProperties, ElementOfSeq
  <1>2. rows \in SUBSET Payee /\ \A q \in rows : \E k \in 1..Len(s) : q = s[k]
    BY <1>1
  <1>3. 1 \in 1..Len(s)
    BY <1>1, EmptySeq
  <1>4. IsFiniteSet(rows) /\ Cardinality(rows) <= Len(s)
    <2>1. s \in [1..Len(s) -> rows] /\ \A q \in rows : \E k \in 1..Len(s) : s[k] = q
      BY <1>1
    <2>2. s \in Surjection(1..Len(s), rows)
      BY <2>1 DEF Surjection
    <2>3. IsFiniteSet(1..Len(s)) /\ Cardinality(1..Len(s)) = Len(s)
      BY <1>1, <1>3, FS_Interval
    <2> QED
      BY <2>2, <2>3, FS_Surjection
  <1>5. rows # {}
    BY <1>1, <1>3
  <1> HIDE DEF rows
  <1>6. Comparable(rows)
    <2>1. \A q \in rows : q.identity \in Nat /\ q.work \in Nat
      BY <1>2, PayoutAssumption DEF Payee
    <2>2. ASSUME NEW q \in rows, NEW t \in rows, q.identity = t.identity PROVE q = t
      <3>1. PICK j \in 1..Len(s), k \in 1..Len(s) : q = s[j] /\ t = s[k]
        BY <1>2
      <3>2. j = k
        BY <2>2, <3>1 DEF Once
      <3> QED
        BY <3>1, <3>2
    <2> QED
      BY <1>4, <2>1, <2>2 DEF Comparable
  <1>7. Lists(r, rows)
    BY <1>6, RankedLists DEF rows
  <1>8. /\ r \in Seq(rows) /\ Len(r) = Cardinality(rows)
        /\ \A j, k \in 1..Len(r) : r[j] = r[k] => j = k
    BY <1>7 DEF Lists
  <1>9. Cardinality(rows) \in Nat /\ Cardinality(rows) # 0
    BY <1>4, <1>5, FS_CardinalityType, FS_EmptySet
  <1>10. \A j \in 1..Len(r) : r[j] \in rows
    BY <1>8, ElementOfSeq
  <1>11. r \in Seq(Payee)
    <2>1. r \in [1..Len(r) -> rows] /\ Len(r) \in Nat
      BY <1>8, LenProperties
    <2>2. r \in [1..Len(r) -> Payee]
      BY <1>2, <2>1
    <2> QED
      BY <2>1, <2>2
  <1>12. Once(r)
    <2>1. \A j, k \in 1..Len(r) : r[j].identity = r[k].identity => r[j] = r[k]
      BY <1>6, <1>10 DEF Comparable
    <2> QED
      BY <1>8, <2>1 DEF Once
  <1>13. Len(r) \in 1..Len(s)
    BY <1>1, <1>4, <1>8, <1>9
  <1>14. \A j \in 1..Len(r) : \E k \in 1..Len(s) : r[j] = s[k]
    BY <1>2, <1>10
  <1> QED
    BY <1>11, <1>12, <1>13, <1>14

\* The sats of payees, one at a time.
LEMMA SatsAre ==
  ASSUME NEW r \in Seq(Payee)
  PROVE  /\ [k \in DOMAIN r |-> r[k].sats] \in Seq(Nat)
         /\ Len([k \in DOMAIN r |-> r[k].sats]) = Len(r)
         /\ \A k \in 1..Len(r) : [j \in DOMAIN r |-> r[j].sats][k] = r[k].sats
  <1>1. Len(r) \in Nat /\ DOMAIN r = 1..Len(r) /\ \A k \in 1..Len(r) : r[k] \in Payee
    BY LenProperties, ElementOfSeq
  <1>2. \A k \in 1..Len(r) : r[k].sats \in Nat
    BY <1>1 DEF Payee
  <1> QED
    BY <1>1, <1>2

\* Payees who did some work.
Worker == {q \in Payee : q.work > 0}

\* Rated by their work they get no more than there is.
LEMMA RatedIs ==
  ASSUME NEW s \in Seq(Worker), s # << >>, NEW v \in Nat,
         NEW r, r = [k \in DOMAIN s |-> [s[k] EXCEPT !.sats = (v * s[k].work) \div TotalWork(s)]]
  PROVE  /\ r \in Seq(Payee) /\ Len(r) = Len(s) /\ PaidSats(r) <= v
         /\ \A k \in 1..Len(s) : r[k].identity = s[k].identity
  <1> DEFINE total == TotalWork(s)
             w == WorksOf(s)
             sats == [k \in DOMAIN r |-> r[k].sats]
  <1>1. Len(s) \in Nat /\ DOMAIN s = 1..Len(s) /\ \A k \in 1..Len(s) : s[k] \in Worker
    BY LenProperties, ElementOfSeq
  <1>2. /\ w \in Seq(Nat) /\ Len(w) = Len(s) /\ total = SumOf(w) /\ total \in Nat /\ total > 0
        /\ \A k \in 1..Len(s) : w[k] = s[k].work
    <2>1. \A q \in Worker : q.work \in Nat /\ q.work > 0
      BY DEF Worker, Payee
    <2> QED
      BY <2>1, RowWorks
  <1> HIDE DEF total, w
  <1>3. ASSUME NEW k \in 1..Len(s)
        PROVE  /\ r[k] \in Payee /\ r[k].identity = s[k].identity
               /\ r[k].sats \in Nat /\ r[k].sats * total <= w[k] * v
    <2>1. s[k] \in Payee /\ s[k].work \in Nat
      BY <1>1 DEF Worker, Payee
    <2>2. v * s[k].work \in Nat
      BY <2>1
    <2>3. (v * s[k].work) \div total \in Nat /\ ((v * s[k].work) \div total) * total <= v * s[k].work
      BY <1>2, <2>2, Quotient
    <2>4. r[k] = [s[k] EXCEPT !.sats = (v * s[k].work) \div total]
      BY <1>1 DEF total
    <2> DEFINE x == (v * s[k].work) \div total
    <2>5. x \in Nat /\ x * total <= v * s[k].work /\ r[k] = [s[k] EXCEPT !.sats = x]
      BY <2>3, <2>4
    <2> HIDE DEF x
    <2>6. r[k] \in Payee /\ r[k].identity = s[k].identity /\ r[k].sats = x
      BY <2>1, <2>5 DEF Payee
    <2>7. v * s[k].work = w[k] * v
      BY <1>2, <2>1
    <2> QED
      BY <2>5, <2>6, <2>7
  <1>4. DOMAIN r = 1..Len(s)
    BY <1>1
  <1>5. r \in Seq(Payee) /\ Len(r) = Len(s)
    <2>1. r = [k \in 1..Len(s) |-> r[k]]
      BY <1>1
    <2> QED
      BY <1>1, <1>3, <2>1
  <1>6. sats \in Seq(Nat) /\ Len(sats) = Len(s) /\ \A k \in 1..Len(s) : sats[k] = r[k].sats
    BY <1>5, SatsAre
  <1>7. PaidSats(r) = SumOf(sats)
    BY DEF PaidSats
  <1> HIDE DEF sats
  <1>8. \A k \in 1..Len(sats) : sats[k] * total <= w[k] * v
    BY <1>3, <1>6
  <1>9. SumOf(sats) * total <= SumOf(w) * v
    BY <1>2, <1>6, <1>8, SumScaled
  <1>10. SumOf(sats) \in Nat
    BY <1>6, SumNat
  <1>11. SumOf(w) * v = v * total
    BY <1>2
  <1>12. SumOf(sats) * total <= v * total
    BY <1>9, <1>11
  <1>13. SumOf(sats) <= v
    BY <1>2, <1>10, <1>12, TimesLess
  <1> QED
    BY <1>3, <1>5, <1>7, <1>13

\* What the cap leaves: limits, different identities with a script.
CappedAll(p, acc) ==
    /\ acc \in Acc
    /\ Within(p, acc.payees, acc.bytes)
    /\ Once(acc.payees)
    /\ Scripted(acc.payees)

\* Adding sats to one payee of a list.
LEMMA RaisedIs ==
  ASSUME NEW s \in Seq(Payee), NEW j \in 1..Len(s), NEW t, NEW x \in Nat,
         t = Put(s, j, [s[j] EXCEPT !.sats = x])
  PROVE  /\ t \in Seq(Payee) /\ Len(t) = Len(s)
         /\ PaidSats(t) + s[j].sats = PaidSats(s) + x
         /\ \A k \in 1..Len(s) : t[k].identity = s[k].identity
         /\ t[j].sats = x /\ \A k \in 1..Len(s) : k # j => t[k] = s[k]
  <1> DEFINE q == [s[j] EXCEPT !.sats = x]
  <1>1. s[j] \in Payee
    BY ElementOfSeq
  <1>2. q \in Payee /\ q.identity = s[j].identity /\ q.sats = x
    BY <1>1 DEF Payee
  <1> HIDE DEF q
  <1>3. t = Put(s, j, q)
    BY DEF q
  <1>4. t \in Seq(Payee) /\ Len(t) = Len(s)
    BY <1>2, <1>3, PutSeq
  <1>5. \A k \in 1..Len(s) : t[k] = IF k = j THEN q ELSE s[k]
    BY <1>3, PutAt
  <1>6. PaidSats(t) + s[j].sats = PaidSats(s) + x
    BY <1>2, <1>3, PaidPut
  <1> QED
    BY <1>2, <1>4, <1>5, <1>6

\* The first n of a sequence, and the others.
LEMMA Parted ==
  ASSUME NEW S
  PROVE  \A r \in Seq(S) : \A n \in 0..Len(r) :
            /\ SubSeq(r, 1, n) \in Seq(S) /\ Len(SubSeq(r, 1, n)) = n
            /\ \A j \in 1..n : SubSeq(r, 1, n)[j] = r[j]
            /\ SubSeq(r, n + 1, Len(r)) \in Seq(S)
  OBVIOUS

\* Fewer payees are within the limits too.
LEMMA FewerWithin ==
  ASSUME NEW p, IsParams(p), NEW s \in Seq(Payee), NEW t \in Seq(Payee), Len(t) <= Len(s),
         NEW bytes \in Nat, Within(p, s, bytes)
  PROVE  Within(p, t, bytes)
  <1>1. Len(s) \in Nat /\ Len(t) \in Nat /\ OutputBytes \in Nat /\ p.max_outputs \in Nat
    BY LenProperties, PayoutAssumption DEF IsParams, OutputBytes
  <1>2. Len(t) * OutputBytes <= Len(s) * OutputBytes /\ Len(t) * OutputBytes \in Nat
        /\ Len(s) * OutputBytes \in Nat
    BY <1>1, TimesMore
  <1>3. Len(s) <= p.max_outputs /\ Len(s) * OutputBytes <= bytes /\ bytes <= p.output_budget_bytes
    BY DEF Within
  <1> QED
    BY <1>1, <1>2, <1>3 DEF Within

\* The payees capped: each limit holds, and no more than the value is paid.
LEMMA CapIs ==
  ASSUME NEW p, IsParams(p), p.max_payees > 0, NEW ms \in Seq(Miner), NEW value \in Nat,
         NEW placed, PlacedAll(p, ms, placed, Len(ms)), placed.payees # << >>
  PROVE  CappedAll(p, Cap(p, ms, value, placed)) /\ PaidSats(Cap(p, ms, value, placed).payees) <= value
  <1> DEFINE s == placed.payees
             sum == SumOf([k \in DOMAIN ms |-> FeeNum(p, ms[k])])
             fee == ((value * sum) \div TotalWork(ms)) \div BPS
             r == Ranked({s[k] : k \in DOMAIN s})
             n == Min({Len(r), p.max_payees})
             stay == SubSeq(r, 1, n)
             cut == SubSeq(r, Len(stay) + 1, Len(r))
             v == value - fee
             rated == [k \in DOMAIN stay |-> [stay[k] EXCEPT !.sats = (v * stay[k].work) \div TotalWork(stay)]]
             most == Max({rated[k].sats : k \in DOMAIN rated})
             top == Max({k \in DOMAIN rated : rated[k].sats = most})
             owed == [k \in DOMAIN cut |-> [identity |-> cut[k].identity, sats |-> cut[k].sats,
                                            reason |-> "BelowCut"]]
             t == [rated EXCEPT ![top].sats = @ + value - fee - PaidSats(rated)]
  <1>1. Cap(p, ms, value, placed)
          = [payees |-> t, unpaid |-> placed.unpaid \o owed, bytes |-> placed.bytes, fee |-> fee]
    BY DEF Cap
  <1>2. /\ s \in Seq(Payee) /\ placed.unpaid \in Seq(Owed) /\ placed.bytes \in Nat
        /\ Within(p, s, placed.bytes) /\ Once(s) /\ Scripted(s) /\ Worth(p, s) /\ Among(s, ms, Len(ms))
    BY DEF PlacedAll, Acc
  <1>3. ms # << >>
    <2>1. 1 \in 1..Len(s)
      BY <1>2, EmptySeq, LenProperties
    <2>2. \E i \in 1..Len(ms) : TRUE
      BY <1>2, <2>1 DEF Among
    <2> QED
      BY <2>2
  <1>4. fee \in 0..value
    BY <1>3, AllFees
  <1>5. fee \in Nat /\ v \in Nat /\ v <= value /\ value - fee = v
    BY <1>4
  <1>0. r = Ranked({s[k] : k \in DOMAIN s}) /\ s # << >>
    OBVIOUS
  <1> HIDE DEF s, sum, fee, v, r, t
  <1>6. /\ r \in Seq(Payee) /\ Len(r) \in 1..Len(s) /\ Once(r)
        /\ \A j \in 1..Len(r) : \E k \in 1..Len(s) : r[j] = s[k]
    <2>1. s \in Seq(Payee) /\ Once(s)
      BY <1>2
    <2>2. \A z : z = Ranked({s[k] : k \in DOMAIN s})
            => /\ z \in Seq(Payee) /\ Len(z) \in 1..Len(s) /\ Once(z)
               /\ \A j \in 1..Len(z) : \E k \in 1..Len(s) : z[j] = s[k]
      BY <1>0, <2>1, RankedPayees
    <2> QED
      BY <1>0, <2>2, Zenon
  <1>7. n \in 1..Len(r) /\ Len(r) \in Nat /\ Len(r) <= Len(s) /\ Len(s) \in Nat
    <2>1. Len(s) \in Nat /\ Len(r) \in Nat /\ Len(r) >= 1 /\ Len(r) <= Len(s) /\ p.max_payees \in Nat
      BY <1>2, <1>6, LenProperties DEF IsParams
    <2> QED
      BY <2>1, OfTwo
  <1> HIDE DEF n
  <1>8. stay \in Seq(Payee) /\ Len(stay) = n /\ (\A j \in 1..n : stay[j] = r[j]) /\ cut \in Seq(Payee)
    <2>1. n \in 0..Len(r)
      BY <1>7
    <2> QED
      BY <1>6, <2>1, Parted
  <1> HIDE DEF stay, cut
  <1>9. \A j \in 1..n : \E k \in 1..Len(s) : stay[j] = s[k]
    <2>1. \A j \in 1..n : j \in 1..Len(r)
      BY <1>7
    <2> QED
      BY <1>6, <1>8, <2>1
  <1>10. stay \in Seq(Worker) /\ stay # << >>
    <2>1. \A j \in 1..n : stay[j] \in Worker
      <3> TAKE j \in 1..n
      <3>1. PICK k \in 1..Len(s) : stay[j] = s[k]
        BY <1>9
      <3>2. s[k] \in Payee /\ s[k].work > 0
        BY <1>2, ElementOfSeq DEF Worth
      <3> QED
        BY <3>1, <3>2 DEF Worker
    <2>2. stay \in [1..n -> Payee] /\ n \in Nat /\ n # 0
      BY <1>7, <1>8, LenProperties
    <2>3. stay \in [1..n -> Worker]
      BY <2>1, <2>2
    <2> QED
      BY <1>8, <2>2, <2>3
  <1>11. /\ rated \in Seq(Payee) /\ Len(rated) = n /\ PaidSats(rated) <= v
         /\ \A k \in 1..n : rated[k].identity = stay[k].identity
    <2>1. rated = [k \in DOMAIN stay |-> [stay[k] EXCEPT !.sats = (v * stay[k].work) \div TotalWork(stay)]]
      OBVIOUS
    <2> HIDE DEF rated
    <2>2. /\ rated \in Seq(Payee) /\ Len(rated) = Len(stay) /\ PaidSats(rated) <= v
          /\ \A k \in 1..Len(stay) : rated[k].identity = stay[k].identity
      BY <1>5, <1>10, <2>1, RatedIs
    <2> QED
      BY <1>8, <2>2
  <1> HIDE DEF rated
  <1>12. DOMAIN rated = 1..n /\ \A k \in 1..n : rated[k] \in Payee /\ rated[k].sats \in Nat
    <2>1. DOMAIN rated = 1..n
      BY <1>11, LenProperties
    <2>2. \A k \in 1..n : rated[k] \in Payee
      BY <1>11, ElementOfSeq
    <2> QED
      BY <2>1, <2>2 DEF Payee
  <1>13. PaidSats(rated) \in Nat /\ \A k \in 1..n : rated[k].sats <= PaidSats(rated)
    <2>1. PaidSats(rated) = SumOf([k \in DOMAIN rated |-> rated[k].sats])
      BY DEF PaidSats
    <2> DEFINE sats == [k \in DOMAIN rated |-> rated[k].sats]
    <2>2. sats \in Seq(Nat) /\ Len(sats) = n /\ \A k \in 1..n : sats[k] = rated[k].sats
      BY <1>11, SatsAre
    <2> HIDE DEF sats
    <2>3. \A k \in 1..n : sats[k] <= SumOf(sats)
      BY <2>2, SumMember
    <2> QED
      BY <1>11, <2>1, <2>2, <2>3, PaidList DEF sats
  <1>14. top \in 1..n
    <2> DEFINE all == {rated[k].sats : k \in DOMAIN rated}
               best == {k \in DOMAIN rated : rated[k].sats = most}
    <2>1. all \in SUBSET Nat /\ all # {} /\ \A x \in all : x <= PaidSats(rated)
      BY <1>7, <1>12, <1>13
    <2>2. most \in all
      <3> HIDE DEF all
      <3>1. Max(all) \in all
        BY <1>13, <2>1, OfMany
      <3> QED
        BY <3>1 DEF all
    <2> HIDE DEF most
    <2>3. best \in SUBSET Nat /\ best # {} /\ (\A x \in best : x <= n) /\ n \in Nat
      BY <1>7, <1>12, <2>2
    <2>4. top \in best
      <3> HIDE DEF best
      <3>1. Max(best) \in best
        BY <2>3, OfMany
      <3> QED
        BY <3>1 DEF best
    <2> QED
      BY <1>12, <2>4
  <1> HIDE DEF top, most
  <1> DEFINE x == rated[top].sats + value - fee - PaidSats(rated)
  <1>15. x \in Nat /\ x = rated[top].sats + (v - PaidSats(rated)) /\ rated[top].sats \in Nat
    BY <1>5, <1>11, <1>12, <1>13, <1>14
  <1>16. t = Put(rated, top, [rated[top] EXCEPT !.sats = x])
    <2>1. top \in DOMAIN rated
      BY <1>12, <1>14
    <2> QED
      BY <2>1, Zenon DEF t, Put
  <1> HIDE DEF x
  <1>17. /\ t \in Seq(Payee) /\ Len(t) = n /\ PaidSats(t) + rated[top].sats = PaidSats(rated) + x
         /\ \A k \in 1..n : t[k].identity = rated[k].identity
    BY <1>11, <1>14, <1>15, <1>16, RaisedIs
  <1>18. PaidSats(t) = v
    <2>1. PaidSats(t) \in Nat
      BY <1>17, PaidList
    <2>2. \A a, b, d, e \in Nat : a + b = e + (b + (d - e)) => a = d
      OBVIOUS
    <2> QED
      BY <1>5, <1>13, <1>15, <1>17, <2>1, <2>2, SMTT(30)
  <1>19. \A k \in 1..n : t[k].identity = r[k].identity /\ \E j \in 1..Len(s) : t[k].identity = s[j].identity
    BY <1>8, <1>9, <1>11, <1>17
  <1>20. Once(t)
    <2>1. \A j \in 1..n : j \in 1..Len(r)
      BY <1>7
    <2> QED
      BY <1>6, <1>17, <1>19, <2>1 DEF Once
  <1>21. Scripted(t)
    BY <1>2, <1>17, <1>19 DEF Scripted
  <1>22. Within(p, t, placed.bytes)
    <2>1. Len(t) <= Len(s)
      BY <1>7, <1>17
    <2> QED
      BY <1>2, <1>17, <2>1, FewerWithin
  <1>23. owed \in Seq(Owed)
    <2>1. Len(cut) \in Nat /\ DOMAIN cut = 1..Len(cut) /\ \A k \in 1..Len(cut) : cut[k] \in Payee
      BY <1>8, LenProperties, ElementOfSeq
    <2>2. \A k \in 1..Len(cut) : [identity |-> cut[k].identity, sats |-> cut[k].sats,
                                  reason |-> "BelowCut"] \in Owed
      BY <2>1 DEF Payee, Owed, Reasons
    <2> QED
      BY <2>1, <2>2
  <1> HIDE DEF owed
  <1>24. placed.unpaid \o owed \in Seq(Owed)
    BY <1>2, <1>23, ConcatProperties
  <1> DEFINE new == Cap(p, ms, value, placed)
  <1>25. new.payees = t /\ new.bytes = placed.bytes /\ new \in Acc
    BY <1>1, <1>2, <1>5, <1>17, <1>24 DEF Acc
  <1> HIDE DEF new
  <1>26. CappedAll(p, new)
    BY <1>20, <1>21, <1>22, <1>25 DEF CappedAll
  <1>27. PaidSats(new.payees) <= value
    BY <1>5, <1>18, <1>25
  <1> QED
    BY <1>26, <1>27 DEF new

-----------------------------------------------------------------------------
(* Paying the carry *)

Paid == [identity : Idents, sats : Nat]
PaidAcc == [payees : Seq(Payee), unpaid : Seq(Owed), bytes : Nat, fee : Nat, carry_paid : Seq(Paid)]

\* The loop starts from the payees capped.
Paying(capped) ==
    [payees |-> capped.payees, unpaid |-> capped.unpaid,
     bytes |-> capped.bytes, fee |-> capped.fee, carry_paid |-> << >>]

\* The loop's variable after each entry of the carry ledger.
LEMMA PayRuns ==
  ASSUME NEW p, NEW value, NEW c, NEW capped, NEW ids, ids = ByName(DOMAIN c), Len(ids) \in Nat
  PROVE  \E acc : /\ acc[0] = Paying(capped)
                  /\ \A k \in 1..Len(ids) : acc[k] = PayOne(p, value, c, acc[k - 1], ids[k])
                  /\ PayCarry(p, value, c, capped) = acc[Len(ids)]
  <1> DEFINE n == Len(ids)
             a == Paying(capped)
             One(x, k) == PayOne(p, value, c, x, ids[k])
             Rec(g, m) == g = [k \in 0..m |-> IF k = 0 THEN a ELSE One(g[k - 1], k)]
             T == {m \in 0..n : \E g : Rec(g, m)}
             acc == CHOOSE g : Rec(g, n)
  <1>1. n \in Nat
    OBVIOUS
  <1>2. PayCarry(p, value, c, capped) = acc[n]
    BY DEF PayCarry, Paying
  <1> HIDE DEF n, One, a
  <1>3. 0 \in T
    <2>1. Rec([k \in 0..0 |-> a], 0)
      OBVIOUS
    <2>2. 0 \in 0..n
      BY <1>1
    <2> QED
      BY <2>1, <2>2, Zenon
  <1>4. ASSUME NEW m \in 0..(n - 1), m \in T PROVE m + 1 \in T
    <2>1. PICK g : Rec(g, m)
      BY <1>4
    <2> DEFINE h == [k \in 0..(m + 1) |-> IF k = m + 1 THEN One(g[m], m + 1) ELSE g[k]]
    <2>2. m \in Nat /\ m + 1 \in 0..n
      BY <1>1
    <2>3. g[0] = a /\ \A k \in 1..m : g[k] = One(g[k - 1], k)
      BY <2>1, <2>2
    <2>4. /\ \A k \in 0..m : h[k] = g[k]
          /\ h[m + 1] = One(g[m], m + 1)
      BY <2>2
    <2>5. h = [k \in 0..(m + 1) |-> h[k]]
      OBVIOUS
    <2> HIDE DEF h
    <2>6. ASSUME NEW k \in 0..(m + 1)
          PROVE  h[k] = IF k = 0 THEN a ELSE One(h[k - 1], k)
      <3>1. CASE k = 0
        BY <2>2, <2>3, <2>4, <3>1
      <3>2. CASE k = m + 1
        <4>1. k - 1 = m /\ m \in 0..m /\ k # 0
          BY <2>2, <3>2
        <4>2. h[k - 1] = g[m]
          BY <2>4, <4>1
        <4> QED
          BY <2>4, <3>2, <4>1, <4>2
      <3>3. CASE k \in 1..m
        <4>1. k - 1 \in 0..m /\ k \in 0..m /\ k # 0
          BY <2>2, <3>3
        <4>2. h[k] = g[k] /\ h[k - 1] = g[k - 1]
          BY <2>4, <4>1
        <4> QED
          BY <2>3, <3>3, <4>1, <4>2
      <3> QED
        BY <2>2, <3>1, <3>2, <3>3
    <2>7. Rec(h, m + 1)
      BY <2>5, <2>6, Zenon
    <2> QED
      BY <2>2, <2>7
  <1>5. \A m \in 0..(n - 1) : m \in T => m + 1 \in T
    BY <1>4
  <1> HIDE DEF T
  <1>6. n \in T
    <2>1. \A k \in 0..n : k \in T
      BY <1>1, <1>3, <1>5, UpTo
    <2> QED
      BY <1>1, <2>1
  <1>7. \E g : Rec(g, n)
    BY <1>6 DEF T
  <1>8. Rec(acc, n)
    BY <1>7
  <1> HIDE DEF acc
  <1>9. acc[0] = a /\ \A k \in 1..n : acc[k] = One(acc[k - 1], k)
    BY <1>1, <1>8
  <1> QED
    BY <1>2, <1>9 DEF n, One, a

\* What an entry has for identity i.
SatsFor(R, i) == [e \in R |-> IF e.identity = i THEN e.sats ELSE 0]

\* SatsOf is a sum over entries.
LEMMA SatsOfIs ==
  ASSUME NEW R, \A e \in R : e.sats \in Nat, NEW i
  PROVE  /\ SatsFor(R, i) \in [R -> Nat]
         /\ \A s \in Seq(R) : SatsOf(s, i) = SumBy(SatsFor(R, i), s)
  <1>1. SatsFor(R, i) \in [R -> Nat]
    BY DEF SatsFor
  <1>2. ASSUME NEW s \in Seq(R) PROVE SatsOf(s, i) = SumBy(SatsFor(R, i), s)
    <2>1. \A k \in DOMAIN s : s[k] \in R
      BY LenProperties, ElementOfSeq
    <2>2. \A k \in DOMAIN s : SatsFor(R, i)[s[k]] = IF s[k].identity = i THEN s[k].sats ELSE 0
      BY <2>1 DEF SatsFor
    <2>3. [k \in DOMAIN s |-> SatsFor(R, i)[s[k]]]
            = [k \in DOMAIN s |-> IF s[k].identity = i THEN s[k].sats ELSE 0]
      BY <2>2, Zenon
    <2> QED
      BY <2>3 DEF SatsOf, SumBy
  <1> QED
    BY <1>1, <1>2

\* What entries have for identity i, one entry at a time.
LEMMA SatsList ==
  ASSUME NEW R, \A e \in R : e.sats \in Nat, NEW i
  PROVE  /\ SatsOf(<< >>, i) = 0
         /\ \A s \in Seq(R) : SatsOf(s, i) \in Nat
         /\ \A s \in Seq(R), e \in R :
               SatsOf(Append(s, e), i) = SatsOf(s, i) + (IF e.identity = i THEN e.sats ELSE 0)
  <1>1. SatsOf(<< >>, i) = 0
    <2>1. << >> \in Seq(R)
      OBVIOUS
    <2> QED
      BY <2>1, SatsOfIs, ByEmpty, ZenonT(30)
  <1>2. \A s \in Seq(R) : SatsOf(s, i) \in Nat
    <2> DEFINE f == SatsFor(R, i)
    <2>1. f \in [R -> Nat] /\ \A r \in Seq(R) : SatsOf(r, i) = SumBy(f, r)
      BY SatsOfIs
    <2> HIDE DEF f
    <2>2. \A s \in Seq(R) : SumBy(f, s) \in Nat
      BY <2>1, ByNat
    <2> QED
      BY <2>1, <2>2
  <1>3. ASSUME NEW s \in Seq(R), NEW e \in R
        PROVE  SatsOf(Append(s, e), i) = SatsOf(s, i) + (IF e.identity = i THEN e.sats ELSE 0)
    <2> DEFINE f == SatsFor(R, i)
    <2>1. f \in [R -> Nat] /\ \A r \in Seq(R) : SatsOf(r, i) = SumBy(f, r)
      BY SatsOfIs
    <2>2. Append(s, e) \in Seq(R)
      BY AppendProperties
    <2>3. f[e] = IF e.identity = i THEN e.sats ELSE 0
      BY DEF SatsFor
    <2> HIDE DEF f
    <2>4. SumBy(f, Append(s, e)) = SumBy(f, s) + f[e]
      BY <2>1, ByAppend
    <2> QED
      BY <2>1, <2>2, <2>3, <2>4
  <1> QED
    BY <1>1, <1>2, <1>3

\* What is given is owed, and the value still covers it.
LEMMA GiveIs ==
  ASSUME NEW owed \in Nat, NEW value \in Nat, NEW s \in Seq(Payee), PaidSats(s) <= value
  PROVE  /\ Give(owed, value, s) \in Nat /\ Give(owed, value, s) <= owed
         /\ PaidSats(s) + Give(owed, value, s) <= value
  <1> DEFINE left == value - PaidSats(s)
  <1>1. PaidSats(s) \in Nat
    BY PaidList
  <1>2. left \in Nat
    BY <1>1
  <1> HIDE DEF left
  <1>3. Max({0, left}) = left
    <2>1. Max({0, left}) = IF 0 >= left THEN 0 ELSE left
      <3>1. 0 \in Int /\ left \in Int
        BY <1>2
      <3>2. \A a, b \in Int : Max({a, b}) = IF a >= b THEN a ELSE b
        BY OfTwo
      <3> QED
        BY <3>1, <3>2, Zenon
    <2> QED
      BY <1>2, <2>1
  <1>4. Give(owed, value, s) = Min({owed, Max({0, left})})
    BY DEF Give, left
  <1>5. Give(owed, value, s) = IF owed <= left THEN owed ELSE left
    BY <1>2, <1>3, <1>4, OfTwo
  <1> QED
    BY <1>1, <1>2, <1>5 DEF left

\* Payees above the floor.
Floor(p, payees) == \A j \in 1..Len(payees) : payees[j].sats >= p.min_payout

\* No output under the floor unless payees are capped, the limits, and the value.
PaidAll(p, value, acc) ==
    /\ acc \in PaidAcc
    /\ Within(p, acc.payees, acc.bytes)
    /\ PaidSats(acc.payees) <= value
    /\ p.max_payees = 0 => Floor(p, acc.payees)

\* Of the first k identities no more is paid than they are owed, and of the
\* others nothing.
Taken(c, ids, entries, k) ==
    \A j \in 1..Len(ids) : SatsOf(entries, ids[j]) <= IF j <= k THEN c[ids[j]] ELSE 0

\* An amount on record.
LEMMA GaveIs ==
  ASSUME NEW acc \in PaidAcc, NEW t \in Seq(Payee), NEW b \in Nat, NEW i \in Idents, NEW give \in Nat
  PROVE  /\ Gave(acc, t, b, i, give) \in PaidAcc
         /\ Gave(acc, t, b, i, give).payees = t
         /\ Gave(acc, t, b, i, give).bytes = b
  <1> DEFINE e == [identity |-> i, sats |-> give]
             l == Append(acc.carry_paid, e)
  <1>1. e \in Paid
    BY DEF Paid
  <1>2. acc.unpaid \in Seq(Owed) /\ acc.fee \in Nat /\ acc.carry_paid \in Seq(Paid)
    BY DEF PaidAcc
  <1>3. Gave(acc, t, b, i, give)
          = [payees |-> t, unpaid |-> acc.unpaid, bytes |-> b, fee |-> acc.fee, carry_paid |-> l]
    BY DEF Gave
  <1> HIDE DEF e
  <1>4. l \in Seq(Paid)
    BY <1>1, <1>2, AppendProperties
  <1> HIDE DEF l
  <1>5. Gave(acc, t, b, i, give) \in PaidAcc
    BY <1>2, <1>3, <1>4 DEF PaidAcc
  <1> QED
    BY <1>3, <1>5 DEF e, l

\* The entry it leaves.
LEMMA GaveEntry ==
  ASSUME NEW acc, NEW t, NEW b, NEW i, NEW give
  PROVE  Gave(acc, t, b, i, give).carry_paid = Append(acc.carry_paid, [identity |-> i, sats |-> give])
  BY DEF Gave

\* One entry of the carry ledger on top of an output.
LEMMA PaidMore ==
  ASSUME NEW p, IsParams(p), NEW value \in Nat, NEW acc, PaidAll(p, value, acc), NEW i \in Idents,
         NEW give \in Nat, PaidSats(acc.payees) + give <= value,
         NEW j \in 1..Len(acc.payees), NEW x \in Nat, x = acc.payees[j].sats + give,
         NEW t, t = Put(acc.payees, j, [acc.payees[j] EXCEPT !.sats = x])
  PROVE  PaidAll(p, value, Gave(acc, t, acc.bytes, i, give))
  <1> DEFINE s == acc.payees
             new == Gave(acc, t, acc.bytes, i, give)
  <1>1. acc \in PaidAcc /\ s \in Seq(Payee) /\ acc.bytes \in Nat
    BY DEF PaidAll, PaidAcc
  <1>2. Within(p, s, acc.bytes) /\ PaidSats(s) <= value /\ (p.max_payees = 0 => Floor(p, s))
    BY DEF PaidAll
  <1>3. s[j] \in Payee
    BY <1>1, ElementOfSeq
  <1>4. s[j].sats \in Nat
    BY <1>3 DEF Payee
  <1>5. /\ t \in Seq(Payee) /\ Len(t) = Len(s)
        /\ PaidSats(t) + s[j].sats = PaidSats(s) + x
        /\ t[j].sats = x /\ \A k \in 1..Len(s) : k # j => t[k] = s[k]
    BY <1>1, RaisedIs
  <1>6. PaidSats(t) \in Nat /\ PaidSats(s) \in Nat
    BY <1>1, <1>5, PaidList
  <1>7. PaidSats(t) <= value
    <2> DEFINE a == PaidSats(t)
               b == PaidSats(s)
               d == s[j].sats
    <2>1. a \in Nat /\ b \in Nat /\ d \in Nat
      BY <1>4, <1>6
    <2>2. a + d = b + x /\ x = d + give /\ b + give <= value
      BY <1>5
    <2> HIDE DEF a, b, d
    <2>3. a = b + give
      BY <2>1, <2>2, SMTT(30)
    <2>4. a <= value
      BY <2>2, <2>3
    <2> QED
      BY <2>4 DEF a
  <1>8. ASSUME p.max_payees = 0 PROVE Floor(p, t)
    <2>1. \A k \in 1..Len(s) : s[k].sats >= p.min_payout
      BY <1>2, <1>8 DEF Floor
    <2>2. p.min_payout \in Nat
      BY DEF IsParams
    <2>3. x >= p.min_payout
      BY <1>4, <2>1, <2>2
    <2>4. \A k \in 1..Len(s) : t[k].sats >= p.min_payout
      BY <1>5, <2>1, <2>3
    <2> QED
      BY <1>5, <2>4 DEF Floor
  <1>9. Within(p, t, acc.bytes)
    BY <1>2, <1>5 DEF Within
  <1>10. new \in PaidAcc /\ new.payees = t /\ new.bytes = acc.bytes
    <2>1. acc \in PaidAcc /\ t \in Seq(Payee) /\ acc.bytes \in Nat
      BY <1>1, <1>5
    <2> QED
      BY <2>1, GaveIs
  <1> HIDE DEF new
  <1>11. PaidAll(p, value, new)
    BY <1>7, <1>8, <1>9, <1>10 DEF PaidAll
  <1> QED
    BY <1>11 DEF new

\* One entry of the carry ledger in an output of its own.
LEMMA PaidNew ==
  ASSUME NEW p, IsParams(p), NEW value \in Nat, NEW acc, PaidAll(p, value, acc), NEW i \in Idents,
         NEW give \in Nat, PaidSats(acc.payees) + give <= value, Reason(p, acc, i, give) = "none",
         NEW q, q = [identity |-> i, work |-> 0, sats |-> give]
  PROVE  PaidAll(p, value, Gave(acc, Append(acc.payees, q), acc.bytes + OutputBytes, i, give))
  <1> DEFINE s == acc.payees
             t == Append(s, q)
             b == acc.bytes + OutputBytes
             new == Gave(acc, t, b, i, give)
  <1>1. acc \in PaidAcc /\ s \in Seq(Payee) /\ acc.bytes \in Nat
    BY DEF PaidAll, PaidAcc
  <1>2. Within(p, s, acc.bytes) /\ PaidSats(s) <= value /\ (p.max_payees = 0 => Floor(p, s))
    BY DEF PaidAll
  <1>4. give >= p.min_payout /\ Fits(p, s, acc.bytes)
    BY NoReason
  <1>5. q \in Payee /\ q.sats = give
    BY DEF Payee
  <1>6. PaidSats(s) + give <= value
    OBVIOUS
  <1> HIDE DEF s
  <1>7. /\ t \in Seq(Payee) /\ Len(t) = Len(s) + 1 /\ Len(s) \in Nat
        /\ t[Len(s) + 1] = q /\ \A j \in 1..Len(s) : t[j] = s[j]
        /\ \A j \in 1..(Len(s) + 1) : j \in 1..Len(s) \/ j = Len(s) + 1
    BY <1>1, <1>5, MorePayees
  <1>8. Within(p, t, b) /\ b \in Nat
    BY <1>1, <1>2, <1>4, <1>5, MoreWithin
  <1>9. PaidSats(t) <= value
    BY <1>1, <1>5, <1>6, PaidList
  <1> HIDE DEF t, b
  <1>10. ASSUME p.max_payees = 0 PROVE Floor(p, t)
    <2>1. \A k \in 1..Len(s) : s[k].sats >= p.min_payout
      BY <1>2, <1>10 DEF Floor
    <2> QED
      BY <1>4, <1>5, <1>7, <2>1 DEF Floor
  <1>11. new \in PaidAcc /\ new.payees = t /\ new.bytes = b
    <2>1. acc \in PaidAcc /\ t \in Seq(Payee) /\ b \in Nat
      BY <1>1, <1>7, <1>8
    <2> QED
      BY <2>1, GaveIs
  <1> HIDE DEF new
  <1>12. PaidAll(p, value, new)
    BY <1>8, <1>9, <1>10, <1>11 DEF PaidAll
  <1> QED
    BY <1>12 DEF new, t, s, b

\* An identity that is given nothing, and one that is.
LEMMA TakenMore ==
  ASSUME NEW c \in [Idents -> Nat], NEW ids, Lists(ids, Idents), NEW entries \in Seq(Paid),
         NEW k \in 1..Len(ids), Taken(c, ids, entries, k - 1)
  PROVE  /\ Taken(c, ids, entries, k)
         /\ \A give \in Nat : give <= c[ids[k]] =>
               Taken(c, ids, Append(entries, [identity |-> ids[k], sats |-> give]), k)
  <1>1. /\ Len(ids) \in Nat /\ \A j \in 1..Len(ids) : ids[j] \in Idents /\ c[ids[j]] \in Nat
        /\ \A i, j \in 1..Len(ids) : ids[i] = ids[j] => i = j
    <2>1. ids \in Seq(Idents)
      BY DEF Lists
    <2>2. Len(ids) \in Nat /\ \A j \in 1..Len(ids) : ids[j] \in Idents
      BY <2>1, LenProperties, ElementOfSeq
    <2> QED
      BY <2>2 DEF Lists
  <1>2. \A e \in Paid : e.sats \in Nat
    BY DEF Paid
  <1>3. \A i : SatsOf(entries, i) \in Nat
    BY <1>2, SatsList
  <1>4. \A j \in 1..Len(ids) : SatsOf(entries, ids[j]) <= IF j <= k - 1 THEN c[ids[j]] ELSE 0
    BY DEF Taken
  <1>5. ASSUME NEW j \in 1..Len(ids) PROVE SatsOf(entries, ids[j]) <= IF j <= k THEN c[ids[j]] ELSE 0
    BY <1>1, <1>3, <1>4
  <1>6. Taken(c, ids, entries, k)
    BY <1>5 DEF Taken
  <1>7. ASSUME NEW give \in Nat, give <= c[ids[k]]
        PROVE  Taken(c, ids, Append(entries, [identity |-> ids[k], sats |-> give]), k)
    <2> DEFINE e == [identity |-> ids[k], sats |-> give]
               more == Append(entries, e)
    <2>1. e \in Paid /\ e.identity = ids[k] /\ e.sats = give
      BY <1>1 DEF Paid
    <2> HIDE DEF e
    <2>2. \A i : SatsOf(more, i) = SatsOf(entries, i) + (IF e.identity = i THEN e.sats ELSE 0)
      BY <1>2, <2>1, SatsList, ZenonT(30)
    <2> HIDE DEF more
    <2>3. ASSUME NEW j \in 1..Len(ids), j # k
          PROVE  SatsOf(more, ids[j]) <= IF j <= k THEN c[ids[j]] ELSE 0
      <3>1. SatsOf(more, ids[j]) = SatsOf(entries, ids[j])
        BY <1>1, <1>3, <2>1, <2>2, <2>3
      <3> QED
        BY <1>5, <3>1
    <2>4. SatsOf(more, ids[k]) <= IF k <= k THEN c[ids[k]] ELSE 0
      <3>1. SatsOf(entries, ids[k]) <= 0
        BY <1>1, <1>4
      <3>2. SatsOf(more, ids[k]) = SatsOf(entries, ids[k]) + give
        BY <2>1, <2>2
      <3> QED
        BY <1>1, <1>3, <1>7, <3>1, <3>2
    <2>5. Taken(c, ids, more, k)
      BY <2>3, <2>4 DEF Taken
    <2> QED
      BY <2>5 DEF more, e
  <1> QED
    BY <1>6, <1>7

\* One entry of the carry ledger.
LEMMA PayOneStep ==
  ASSUME NEW p, IsParams(p), NEW value \in Nat, NEW c \in [Idents -> Nat],
         NEW ids, Lists(ids, Idents), NEW k \in 1..Len(ids),
         NEW acc, PaidAll(p, value, acc), Taken(c, ids, acc.carry_paid, k - 1)
  PROVE  /\ PaidAll(p, value, PayOne(p, value, c, acc, ids[k]))
         /\ Taken(c, ids, PayOne(p, value, c, acc, ids[k]).carry_paid, k)
  <1> DEFINE i == ids[k]
             s == acc.payees
             give == Give(c[i], value, s)
             has == {j \in DOMAIN s : s[j].identity = i}
             t == [s EXCEPT ![Min(has)].sats = @ + give]
             q == [identity |-> i, work |-> 0, sats |-> give]
             raised == Gave(acc, t, acc.bytes, i, give)
             added == Gave(acc, Append(s, q), acc.bytes + OutputBytes, i, give)
             new == PayOne(p, value, c, acc, i)
             Good(a) == PaidAll(p, value, a) /\ Taken(c, ids, a.carry_paid, k)
  <1>1. i \in Idents /\ c[i] \in Nat
    BY ElementOfSeq DEF Lists
  <1>2. acc \in PaidAcc /\ s \in Seq(Payee) /\ acc.carry_paid \in Seq(Paid) /\ PaidSats(s) <= value
    BY DEF PaidAll, PaidAcc
  <1>3. give \in Nat /\ give <= c[i] /\ PaidSats(s) + give <= value
    BY <1>1, <1>2, GiveIs
  <1>4. new = IF give = 0 THEN acc ELSE IF has # {} THEN raised
              ELSE IF Reason(p, acc, i, give) # "none" THEN acc ELSE added
    BY DEF PayOne
  <1>5. /\ Taken(c, ids, acc.carry_paid, k)
        /\ Taken(c, ids, Append(acc.carry_paid, [identity |-> i, sats |-> give]), k)
    BY <1>2, <1>3, TakenMore
  <1>6. Good(acc)
    BY <1>5
  <1>7. /\ raised.carry_paid = Append(acc.carry_paid, [identity |-> i, sats |-> give])
        /\ added.carry_paid = Append(acc.carry_paid, [identity |-> i, sats |-> give])
    <2> HIDE DEF t, q, give, i
    <2> QED
      BY GaveEntry
  <1> HIDE DEF i, give, new, has
  <1>8. ASSUME has # {} PROVE Good(raised)
    <2> DEFINE j == Min(has)
               x == s[j].sats + give
    <2>1. has \in SUBSET (1..Len(s)) /\ Len(s) \in Nat /\ DOMAIN s = 1..Len(s)
      BY <1>2, LenProperties DEF has
    <2>2. j \in 1..Len(s)
      <3>1. has \in SUBSET Nat /\ \A m \in has : m <= Len(s)
        BY <2>1
      <3>2. j \in has
        BY <1>8, <2>1, <3>1, OfMany
      <3> QED
        BY <2>1, <3>2
    <2>3. s[j] \in Payee
      BY <1>2, <2>2, ElementOfSeq
    <2>4. x \in Nat
      BY <1>3, <2>3 DEF Payee
    <2>5. t = Put(s, j, [s[j] EXCEPT !.sats = x])
      BY <2>1, <2>2, Zenon DEF Put
    <2>6. x = s[j].sats + give
      OBVIOUS
    <2> HIDE DEF x, j, t
    <2>7. PaidAll(p, value, Gave(acc, t, acc.bytes, i, give))
      BY <1>1, <1>3, <2>2, <2>4, <2>5, <2>6, PaidMore
    <2> QED
      BY <1>5, <1>7, <2>7
  <1>9. ASSUME Reason(p, acc, i, give) = "none" PROVE Good(added)
    <2>1. q = [identity |-> i, work |-> 0, sats |-> give]
      OBVIOUS
    <2> HIDE DEF q
    <2>2. PaidAll(p, value, Gave(acc, Append(s, q), acc.bytes + OutputBytes, i, give))
      BY <1>1, <1>3, <1>9, <2>1, PaidNew
    <2> QED
      BY <1>5, <1>7, <2>2
  <1> HIDE DEF Good, raised, added
  <1>10. Good(new)
    BY <1>4, <1>6, <1>8, <1>9, Zenon
  <1> QED
    BY <1>10 DEF Good, new, i

\* The carry paid: the limits hold, no more than the value is paid, and no
\* more than is owed.
LEMMA PayIs ==
  ASSUME NEW p, IsParams(p), NEW value \in Nat, NEW c \in [Idents -> Nat], NEW capped \in Acc,
         Within(p, capped.payees, capped.bytes), PaidSats(capped.payees) <= value,
         p.max_payees = 0 => Floor(p, capped.payees)
  PROVE  /\ PaidAll(p, value, PayCarry(p, value, c, capped))
         /\ \A i \in Idents : SatsOf(PayCarry(p, value, c, capped).carry_paid, i) <= c[i]
  <1> DEFINE ids == ByName(DOMAIN c)
             n == Len(ids)
  <1>1. ids = ByName(DOMAIN c) /\ DOMAIN c = Idents
    OBVIOUS
  <1> HIDE DEF ids
  <1>2. Lists(ids, Idents)
    BY <1>1, ByNameLists, PayoutAssumption
  <1>3. n \in Nat
    BY <1>2, LenProperties DEF Lists
  <1>4. PICK acc : /\ acc[0] = Paying(capped)
                   /\ \A k \in 1..n : acc[k] = PayOne(p, value, c, acc[k - 1], ids[k])
                   /\ PayCarry(p, value, c, capped) = acc[n]
    BY <1>1, <1>3, PayRuns
  <1> DEFINE T == {k \in 0..n : PaidAll(p, value, acc[k]) /\ Taken(c, ids, acc[k].carry_paid, k)}
  <1>5. 0 \in T
    <2> DEFINE a == Paying(capped)
    <2>1. /\ capped.payees \in Seq(Payee) /\ capped.unpaid \in Seq(Owed) /\ capped.bytes \in Nat
          /\ capped.fee \in Nat /\ << >> \in Seq(Paid)
      BY DEF Acc
    <2>2. a.payees = capped.payees /\ a.bytes = capped.bytes /\ a.carry_paid = << >>
      BY DEF Paying
    <2>3. a \in PaidAcc
      BY <2>1 DEF Paying, PaidAcc
    <2> HIDE DEF a
    <2>4. PaidAll(p, value, a)
      BY <2>2, <2>3 DEF PaidAll
    <2>5. \A e \in Paid : e.sats \in Nat
      BY DEF Paid
    <2>6. \A i : SatsOf(<< >>, i) = 0
      BY <2>5, SatsList
    <2>7. Taken(c, ids, << >>, 0)
      BY <1>3, <2>6 DEF Taken
    <2> QED
      BY <1>3, <1>4, <2>2, <2>4, <2>7 DEF a
  <1>6. ASSUME NEW k \in 0..(n - 1), k \in T PROVE k + 1 \in T
    <2> DEFINE j == k + 1
    <2>1. j \in 1..n /\ j - 1 = k /\ j \in 0..n
      BY <1>3
    <2>2. acc[j] = PayOne(p, value, c, acc[k], ids[j])
      BY <1>4, <2>1
    <2>3. PaidAll(p, value, acc[k]) /\ Taken(c, ids, acc[k].carry_paid, j - 1)
      BY <1>6, <2>1
    <2> HIDE DEF j
    <2>4. /\ PaidAll(p, value, PayOne(p, value, c, acc[k], ids[j]))
          /\ Taken(c, ids, PayOne(p, value, c, acc[k], ids[j]).carry_paid, j)
      BY <1>2, <2>1, <2>3, PayOneStep
    <2>5. j \in T
      BY <2>1, <2>2, <2>4
    <2> QED
      BY <2>5 DEF j
  <1>7. \A k \in 0..(n - 1) : k \in T => k + 1 \in T
    BY <1>6
  <1> HIDE DEF T
  <1>8. \A k \in 0..n : k \in T
    BY <1>3, <1>5, <1>7, UpTo
  <1>9. PaidAll(p, value, acc[n]) /\ Taken(c, ids, acc[n].carry_paid, n)
    BY <1>3, <1>8 DEF T
  <1>10. ASSUME NEW i \in Idents PROVE SatsOf(acc[n].carry_paid, i) <= c[i]
    <2>1. PICK j \in 1..n : ids[j] = i
      BY <1>2 DEF Lists
    <2>2. SatsOf(acc[n].carry_paid, ids[j]) <= IF j <= n THEN c[ids[j]] ELSE 0
      BY <1>9 DEF Taken
    <2>3. j <= n
      BY <1>3
    <2> QED
      BY <2>1, <2>2, <2>3
  <1> QED
    BY <1>4, <1>9, <1>10

-----------------------------------------------------------------------------
(* The split *)

IsSplit(s) ==
    /\ s.payees \in Seq(Payee)
    /\ s.unpaid \in Seq(Owed)
    /\ s.carry_paid \in Seq(Paid)
    /\ s.value \in Nat
    /\ s.pool_sats \in Nat

\* A split spends its value to the sat, keeps the limits and the dust floor,
\* and pays no carry that is not owed.
SplitSound(p, c, s) ==
    /\ PaidSats(s.payees) + s.pool_sats = s.value
    /\ Len(s.payees) <= p.max_outputs
    /\ Len(s.payees) * OutputBytes <= p.output_budget_bytes
    /\ p.max_payees = 0 => Floor(p, s.payees)
    /\ \A i \in Idents : SatsOf(s.carry_paid, i) <= c[i]

\* For any window, parameters, value and carry ledger compute_with_carry spends
\* the value to the sat, within the limits, and pays no carry that is not owed;
\* without a cap every output is at least min_payout.
THEOREM ComputeSound ==
  ASSUME NEW p, IsParams(p), NEW ms \in Seq(Miner), Once(ms), NEW value \in Nat,
         NEW c \in [Idents -> Nat]
  PROVE  /\ IsSplit(Compute(p, ms, value, c))
         /\ SplitSound(p, c, Compute(p, ms, value, c))
         /\ Compute(p, ms, value, c).value = value
  <1> DEFINE placed == Place(p, ms, value)
             capped == IF p.max_payees > 0 /\ placed.payees # << >>
                       THEN Cap(p, ms, value, placed) ELSE placed
             paid == PayCarry(p, value, c, capped)
             left == value - PaidSats(paid.payees)
             new == Compute(p, ms, value, c)
  <1>1. new = [payees |-> paid.payees, unpaid |-> paid.unpaid, fee |-> paid.fee,
               carry_paid |-> paid.carry_paid, value |-> value, pool_sats |-> Max({0, left})]
    BY DEF Compute
  <1>2. PlacedAll(p, ms, placed, Len(ms)) /\ PaidSats(placed.payees) <= value
    BY PlaceIs
  <1>3. capped = Cap(p, ms, value, placed) \/ capped = placed
    OBVIOUS
  <1>4. p.max_payees = 0 => capped = placed
    OBVIOUS
  <1>5. p.max_payees > 0 /\ placed.payees # << >>
          => /\ CappedAll(p, Cap(p, ms, value, placed))
             /\ PaidSats(Cap(p, ms, value, placed).payees) <= value
    <2> HIDE DEF placed
    <2> QED
      BY <1>2, CapIs
  <1>6. placed \in Acc /\ Within(p, placed.payees, placed.bytes) /\ Floor(p, placed.payees)
    <2> HIDE DEF placed
    <2>1. placed \in Acc /\ Within(p, placed.payees, placed.bytes) /\ Worth(p, placed.payees)
      BY <1>2 DEF PlacedAll
    <2> QED
      BY <2>1 DEF Worth, Floor
  <1>7. capped \in Acc /\ Within(p, capped.payees, capped.bytes) /\ PaidSats(capped.payees) <= value
    <2> HIDE DEF placed
    <2>1. CASE p.max_payees > 0 /\ placed.payees # << >>
      BY <1>5, <2>1 DEF CappedAll
    <2>2. CASE ~(p.max_payees > 0 /\ placed.payees # << >>)
      BY <1>2, <1>6, <2>2
    <2> QED
      BY <2>1, <2>2
  <1>8. p.max_payees = 0 => Floor(p, capped.payees)
    BY <1>4, <1>6, Zenon
  <1> HIDE DEF placed, capped
  <1>9. PaidAll(p, value, paid) /\ \A i \in Idents : SatsOf(paid.carry_paid, i) <= c[i]
    BY <1>7, <1>8, PayIs
  <1> HIDE DEF paid, new
  <1>10. /\ paid.payees \in Seq(Payee) /\ paid.unpaid \in Seq(Owed) /\ paid.carry_paid \in Seq(Paid)
         /\ paid.bytes \in Nat
         /\ Within(p, paid.payees, paid.bytes) /\ PaidSats(paid.payees) <= value
         /\ p.max_payees = 0 => Floor(p, paid.payees)
    BY <1>9 DEF PaidAll, PaidAcc
  <1>11. PaidSats(paid.payees) \in Nat /\ left \in Nat /\ PaidSats(paid.payees) + left = value
    BY <1>10, PaidList
  <1>12. Max({0, left}) = left
    <2>1. 0 \in Int /\ left \in Int
      BY <1>11
    <2>2. \A a, b \in Int : Max({a, b}) = IF a >= b THEN a ELSE b
      BY OfTwo
    <2> HIDE DEF left
    <2>3. Max({0, left}) = IF 0 >= left THEN 0 ELSE left
      BY <2>1, <2>2, Zenon
    <2> QED
      BY <1>11, <2>3
  <1> HIDE DEF left
  <1>13. /\ new.payees = paid.payees /\ new.unpaid = paid.unpaid /\ new.carry_paid = paid.carry_paid
         /\ new.value = value /\ new.pool_sats = left
    BY <1>1, <1>12
  <1>14. IsSplit(new)
    BY <1>10, <1>11, <1>13 DEF IsSplit
  <1>15. Len(paid.payees) <= p.max_outputs /\ Len(paid.payees) * OutputBytes <= p.output_budget_bytes
    <2>1. Len(paid.payees) \in Nat /\ OutputBytes \in Nat /\ p.output_budget_bytes \in Nat
      BY <1>10, LenProperties, PayoutAssumption DEF OutputBytes, IsParams
    <2>2. Len(paid.payees) * OutputBytes \in Nat
      BY <2>1
    <2>3. /\ Len(paid.payees) <= p.max_outputs /\ Len(paid.payees) * OutputBytes <= paid.bytes
          /\ paid.bytes <= p.output_budget_bytes
      BY <1>10 DEF Within
    <2> QED
      BY <1>10, <2>1, <2>2, <2>3
  <1>16. SplitSound(p, c, new)
    BY <1>9, <1>10, <1>11, <1>13, <1>15 DEF SplitSound
  <1> QED
    BY <1>13, <1>14, <1>16 DEF new

-----------------------------------------------------------------------------
(* Lists of outputs *)

Scripts ==
    {ScriptOf[i] : i \in Idents} \cup {PoolScript, Witness}
        \cup {CHOOSE c \in F : TRUE : F \in SUBSET OpReturns}
Out == [script : Scripts, sats : Nat]
SatsOut == [o \in Out |-> o.sats]

\* ValueOf is a sum over outputs.
LEMMA ValueIs ==
  /\ SatsOut \in [Out -> Nat]
  /\ \A s \in Seq(Out) : ValueOf(s) = SumBy(SatsOut, s)
  <1>1. SatsOut \in [Out -> Nat]
    BY DEF SatsOut, Out
  <1>2. ASSUME NEW s \in Seq(Out) PROVE ValueOf(s) = SumBy(SatsOut, s)
    <2>1. \A k \in DOMAIN s : SatsOut[s[k]] = s[k].sats
      <3>1. \A k \in DOMAIN s : s[k] \in Out
        BY LenProperties, ElementOfSeq
      <3> QED
        BY <3>1 DEF SatsOut
    <2>2. [k \in DOMAIN s |-> SatsOut[s[k]]] = [k \in DOMAIN s |-> s[k].sats]
      BY <2>1, Zenon
    <2> QED
      BY <2>2 DEF ValueOf, SumBy
  <1> QED
    BY <1>1, <1>2

\* What a list of outputs is worth.
LEMMA ValueList ==
  /\ ValueOf(<< >>) = 0
  /\ \A s \in Seq(Out) : ValueOf(s) \in Nat
  /\ \A s, t \in Seq(Out) : s \o t \in Seq(Out) /\ ValueOf(s \o t) = ValueOf(s) + ValueOf(t)
  <1>1. ValueOf(<< >>) = 0
    <2>1. << >> \in Seq(Out)
      OBVIOUS
    <2> QED
      BY <2>1, ValueIs, ByEmpty
  <1>2. \A s \in Seq(Out) : ValueOf(s) \in Nat
    BY ValueIs, ByNat
  <1>3. ASSUME NEW s \in Seq(Out), NEW t \in Seq(Out)
        PROVE  s \o t \in Seq(Out) /\ ValueOf(s \o t) = ValueOf(s) + ValueOf(t)
    <2>1. s \o t \in Seq(Out)
      BY ConcatProperties
    <2>2. SumBy(SatsOut, s \o t) = SumBy(SatsOut, s) + SumBy(SatsOut, t)
      BY ValueIs, ByConcat
    <2> QED
      BY <2>1, <2>2, ValueIs
  <1> QED
    BY <1>1, <1>2, <1>3

\* A list of one output.
LEMMA OneOutput ==
  ASSUME NEW script \in Scripts, NEW sats \in Nat
  PROVE  <<Output(script, sats)>> \in Seq(Out) /\ ValueOf(<<Output(script, sats)>>) = sats
  <1> DEFINE o == Output(script, sats)
             s == << >>
  <1>1. o \in Out /\ o.sats = sats
    BY DEF Out, Output
  <1> HIDE DEF o
  <1>2. s \in Seq(Out) /\ Append(s, o) = <<o>>
    OBVIOUS
  <1> HIDE DEF s
  <1>3. Append(s, o) \in Seq(Out)
    BY <1>1, <1>2, AppendProperties
  <1>4. SumBy(SatsOut, Append(s, o)) = SumBy(SatsOut, s) + SatsOut[o]
    BY <1>1, <1>2, ValueIs, ByAppend
  <1>5. SumBy(SatsOut, s) = 0
    BY ByEmpty DEF s
  <1>6. SatsOut[o] = sats
    BY <1>1 DEF SatsOut
  <1>7. ValueOf(Append(s, o)) = sats
    <2>1. SumBy(SatsOut, Append(s, o)) = sats
      BY <1>4, <1>5, <1>6
    <2>2. ValueOf(Append(s, o)) = SumBy(SatsOut, Append(s, o))
      BY <1>3, ValueIs, Zenon
    <2> QED
      BY <2>1, <2>2
  <1>8. ValueOf(<<o>>) = sats /\ <<o>> \in Seq(Out)
    BY <1>2, <1>3, <1>7
  <1> QED
    BY <1>8 DEF o

\* The payees' outputs pay what the payees get.
LEMMA PayeeOutputs ==
  ASSUME NEW s \in Seq(Payee)
  PROVE  /\ [k \in DOMAIN s |-> Output(ScriptOf[s[k].identity], s[k].sats)] \in Seq(Out)
         /\ ValueOf([k \in DOMAIN s |-> Output(ScriptOf[s[k].identity], s[k].sats)]) = PaidSats(s)
  <1> DEFINE m == [k \in DOMAIN s |-> Output(ScriptOf[s[k].identity], s[k].sats)]
  <1>1. Len(s) \in Nat /\ DOMAIN s = 1..Len(s) /\ \A k \in 1..Len(s) : s[k] \in Payee
    BY LenProperties, ElementOfSeq
  <1>2. \A k \in 1..Len(s) : ScriptOf[s[k].identity] \in Scripts /\ s[k].sats \in Nat
    BY <1>1 DEF Payee, Scripts
  <1>3. \A k \in 1..Len(s) : Output(ScriptOf[s[k].identity], s[k].sats) \in Out
    BY <1>2 DEF Output, Out
  <1>4. m \in Seq(Out)
    BY <1>1, <1>3
  <1>5. \A k \in DOMAIN s : m[k].sats = s[k].sats
    BY DEF Output
  <1>6. DOMAIN m = DOMAIN s
    OBVIOUS
  <1> HIDE DEF m
  <1>7. [k \in DOMAIN m |-> m[k].sats] = [k \in DOMAIN s |-> s[k].sats]
    BY <1>5, <1>6, Zenon
  <1>8. ValueOf(m) = PaidSats(s)
    BY <1>7 DEF ValueOf, PaidSats
  <1> QED
    BY <1>4, <1>8 DEF m

\* The list Prime sends spends the value to the sat.
LEMMA OutputsIs ==
  ASSUME NEW s, IsSplit(s), PaidSats(s.payees) + s.pool_sats = s.value,
         NEW commit \in Seq(Out), ValueOf(commit) = 0
  PROVE  OutputsOf(s, commit) \in Seq(Out) /\ ValueOf(OutputsOf(s, commit)) = s.value
  <1> DEFINE m == [k \in DOMAIN s.payees |-> Output(ScriptOf[s.payees[k].identity], s.payees[k].sats)]
             rest == IF s.pool_sats > 0 THEN <<Output(PoolScript, s.pool_sats)>> ELSE << >>
  <1>1. s.payees \in Seq(Payee) /\ s.pool_sats \in Nat
    BY DEF IsSplit
  <1>2. m \in Seq(Out) /\ ValueOf(m) = PaidSats(s.payees)
    BY <1>1, PayeeOutputs
  <1>3. PoolScript \in Scripts
    BY DEF Scripts
  <1>4. rest \in Seq(Out) /\ ValueOf(rest) = s.pool_sats
    <2>1. CASE s.pool_sats > 0
      BY <1>1, <1>3, <2>1, OneOutput
    <2>2. CASE ~(s.pool_sats > 0)
      <3>1. rest = << >> /\ s.pool_sats = 0 /\ << >> \in Seq(Out)
        BY <1>1, <2>2
      <3> QED
        BY <3>1, ValueList
    <2> QED
      BY <2>1, <2>2
  <1>5. OutputsOf(s, commit) = (commit \o m) \o rest
    BY DEF OutputsOf
  <1> HIDE DEF m, rest
  <1>6. commit \o m \in Seq(Out) /\ ValueOf(commit \o m) = ValueOf(commit) + ValueOf(m)
    BY <1>2, ValueList
  <1> DEFINE front == commit \o m
  <1>7. front \in Seq(Out) /\ ValueOf(front) = PaidSats(s.payees) /\ OutputsOf(s, commit) = front \o rest
    <2>1. PaidSats(s.payees) \in Nat
      BY <1>1, PaidList
    <2> QED
      BY <1>2, <1>5, <1>6, <2>1
  <1> HIDE DEF front
  <1>8. front \o rest \in Seq(Out) /\ ValueOf(front \o rest) = ValueOf(front) + ValueOf(rest)
    BY <1>4, <1>7, ValueList
  <1> QED
    BY <1>4, <1>7, <1>8

\* The commitment carries no sats.
LEMMA CommitmentIs ==
  ASSUME setup \in Setups, NEW old
  PROVE  Commitment(old) \in Seq(Out) /\ ValueOf(Commitment(old)) = 0
  <1> DEFINE fresh == Commits \ {o.script : o \in ToSet(old)}
             c == CHOOSE x \in fresh : TRUE
  <1>1. Commits \subseteq OpReturns
    BY PayoutAssumption DEF Commits
  <1>2. fresh \in SUBSET OpReturns
    BY <1>1
  <1>3. Commitment(old) = IF Commits = {} THEN << >> ELSE <<Output(c, 0)>>
    BY DEF Commitment
  <1> HIDE DEF fresh
  <1>4. c \in Scripts
    BY <1>2 DEF Scripts
  <1> HIDE DEF c
  <1>5. <<Output(c, 0)>> \in Seq(Out) /\ ValueOf(<<Output(c, 0)>>) = 0
    BY <1>4, OneOutput
  <1>6. << >> \in Seq(Out) /\ ValueOf(<< >>) = 0
    BY ValueList
  <1> QED
    BY <1>3, <1>5, <1>6

\* A coinbase of a prefix of the list.
LEMMA PrefixIs ==
  ASSUME NEW s \in Seq(Out), NEW k \in 0..Len(s)
  PROVE  PrefixOf(s, k) \in Seq(Out)
  <1> DEFINE some == SubSeq(s, 1, k)
             rest == ValueOf(s) - ValueOf(some)
             last == IF rest > 0 THEN <<Output(PoolScript, rest)>> ELSE << >>
  <1>1. some \in Seq(Out)
    BY Parted
  <1>2. rest \in Int
    <2> HIDE DEF some
    <2>1. ValueOf(s) \in Nat /\ ValueOf(some) \in Nat
      BY <1>1, ValueList
    <2> QED
      BY <2>1
  <1>3. PrefixOf(s, k) = some \o last
    BY DEF PrefixOf
  <1> HIDE DEF some, rest
  <1>4. last \in Seq(Out)
    <2>1. PoolScript \in Scripts
      BY DEF Scripts
    <2>2. CASE rest > 0
      <3>1. rest \in Nat
        BY <1>2, <2>2
      <3>2. <<Output(PoolScript, rest)>> \in Seq(Out)
        BY <2>1, <3>1, OneOutput
      <3> QED
        BY <2>2, <3>2
    <2>3. CASE ~(rest > 0)
      BY <2>3
    <2> QED
      BY <2>2, <2>3
  <1> HIDE DEF last
  <1> QED
    BY <1>1, <1>3, <1>4, ValueList

\* The sats of outputs, one at a time.
LEMMA OutSats ==
  ASSUME NEW r \in Seq(Out)
  PROVE  /\ [k \in DOMAIN r |-> r[k].sats] \in Seq(Nat)
         /\ Len([k \in DOMAIN r |-> r[k].sats]) = Len(r)
         /\ \A k \in 1..Len(r) : [j \in DOMAIN r |-> r[j].sats][k] = r[k].sats
  <1>1. Len(r) \in Nat /\ DOMAIN r = 1..Len(r) /\ \A k \in 1..Len(r) : r[k] \in Out
    BY LenProperties, ElementOfSeq
  <1>2. \A k \in 1..Len(r) : r[k].sats \in Nat
    BY <1>1 DEF Out
  <1> QED
    BY <1>1, <1>2

\* sats in proportion are a natural, and no more than in proportion.
LEMMA ScaleIs ==
  ASSUME NEW sats \in Nat, NEW value \in Nat, NEW total \in Nat
  PROVE  /\ Scale(sats, value, total) \in Nat
         /\ total > 0 => Scale(sats, value, total) * total <= sats * value
         /\ total = 0 => Scale(sats, value, total) = sats
  <1>1. sats * value \in Nat
    OBVIOUS
  <1>2. ASSUME total > 0
        PROVE  (sats * value) \div total \in Nat /\ ((sats * value) \div total) * total <= sats * value
    BY <1>1, <1>2, Quotient
  <1>3. CASE total = 0
    BY <1>3 DEF Scale
  <1>4. CASE total > 0
    <2> DEFINE x == (sats * value) \div total
    <2>1. Scale(sats, value, total) = x
      BY <1>4 DEF Scale
    <2>2. x \in Nat /\ x * total <= sats * value
      BY <1>2, <1>4
    <2> HIDE DEF x
    <2> QED
      BY <1>4, <2>1, <2>2
  <1> QED
    BY <1>3, <1>4

\* The floors of a list in proportion to another value are worth no more than
\* that value.
LEMMA ScaledDown ==
  ASSUME NEW s \in Seq(Out), NEW value \in Nat, NEW down,
         down = [k \in DOMAIN s |-> [s[k] EXCEPT !.sats = Scale(@, value, ValueOf(s))]]
  PROVE  down \in Seq(Out) /\ Len(down) = Len(s) /\ ValueOf(down) \in Nat /\ ValueOf(down) <= value
  <1> DEFINE n == Len(s)
             total == ValueOf(s)
             a == [k \in DOMAIN s |-> s[k].sats]
             b == [k \in DOMAIN down |-> down[k].sats]
  <1>1. n \in Nat /\ DOMAIN s = 1..n /\ \A k \in 1..n : s[k] \in Out
    BY LenProperties, ElementOfSeq
  <1>2. total \in Nat
    BY ValueList
  <1>3. DOMAIN down = 1..n /\ \A k \in 1..n : down[k] = [s[k] EXCEPT !.sats = Scale(s[k].sats, value, total)]
    BY <1>1
  <1>4. down = [k \in 1..n |-> down[k]]
    BY <1>1
  <1>5. /\ a \in Seq(Nat) /\ Len(a) = n /\ \A k \in 1..n : a[k] = s[k].sats
    BY OutSats
  <1>6. total = SumOf(a)
    BY DEF ValueOf
  <1> HIDE DEF n, total, a
  <1>7. ASSUME NEW k \in 1..n
        PROVE  /\ down[k] \in Out /\ down[k].sats \in Nat
               /\ total > 0 => down[k].sats * total <= a[k] * value
               /\ total = 0 => down[k].sats = a[k]
    <2>1. s[k] \in Out /\ s[k].sats \in Nat
      BY <1>1 DEF Out
    <2> DEFINE x == Scale(s[k].sats, value, total)
    <2>2. /\ x \in Nat /\ (total > 0 => x * total <= s[k].sats * value)
          /\ (total = 0 => x = s[k].sats)
      BY <1>2, <2>1, ScaleIs
    <2>3. down[k] = [s[k] EXCEPT !.sats = x]
      BY <1>3
    <2> HIDE DEF x
    <2>4. down[k] \in Out /\ down[k].sats = x
      BY <2>1, <2>2, <2>3 DEF Out
    <2> QED
      BY <1>5, <2>2, <2>4
  <1>8. down \in Seq(Out) /\ Len(down) = n
    <2>1. \A k \in 1..n : down[k] \in Out
      BY <1>7
    <2>2. down \in [1..n -> Out]
      BY <1>4, <2>1, Zenon
    <2> QED
      BY <1>1, <2>2, SeqDef, LenProperties
  <1>9. /\ b \in Seq(Nat) /\ Len(b) = n /\ \A k \in 1..n : b[k] = down[k].sats
    BY <1>8, OutSats
  <1>10. ValueOf(down) = SumOf(b)
    BY DEF ValueOf
  <1> HIDE DEF b
  <1>11. SumOf(b) \in Nat /\ SumOf(a) \in Nat
    BY <1>5, <1>9, SumNat
  <1>12. SumOf(b) <= value
    <2>1. CASE total > 0
      <3>1. \A k \in 1..Len(b) : b[k] * total <= a[k] * value
        BY <1>7, <1>9, <2>1
      <3>2. SumOf(b) * total <= SumOf(a) * value
        BY <1>2, <1>5, <1>9, <3>1, SumScaled
      <3>3. SumOf(a) * value = value * total
        BY <1>2, <1>6
      <3>4. SumOf(b) * total <= value * total
        BY <3>2, <3>3
      <3> QED
        BY <1>2, <1>11, <2>1, <3>4, TimesLess
    <2>2. CASE total = 0
      <3>1. \A k \in 1..Len(b) : b[k] * 1 <= a[k] * 1
        <4> TAKE k \in 1..Len(b)
        <4>1. b[k] \in Nat /\ b[k] = a[k]
          BY <1>7, <1>9, <2>2
        <4> QED
          BY <4>1
      <3>2. SumOf(b) * 1 <= SumOf(a) * 1
        BY <1>5, <1>9, <3>1, SumScaled
      <3> QED
        BY <1>6, <1>11, <2>2, <3>2
    <2> QED
      BY <1>2, <2>1, <2>2
  <1> QED
    BY <1>8, <1>10, <1>11, <1>12 DEF n

\* A coinbase of the list rescaled.
LEMMA RescaledIs ==
  ASSUME NEW s \in Seq(Out), s # << >>, NEW value \in Nat
  PROVE  Rescaled(s, value) \in Seq(Out)
  <1> DEFINE down == [k \in DOMAIN s |-> [s[k] EXCEPT !.sats = Scale(@, value, ValueOf(s))]]
             n == Len(down)
             t == [down EXCEPT ![n].sats = @ + value - ValueOf(down)]
             x == down[n].sats + value - ValueOf(down)
             o == [down[n] EXCEPT !.sats = x]
  <1>0. down = [k \in DOMAIN s |-> [s[k] EXCEPT !.sats = Scale(@, value, ValueOf(s))]]
    OBVIOUS
  <1>1. Rescaled(s, value) = t
    BY DEF Rescaled
  <1> HIDE DEF down
  <1>2. down \in Seq(Out) /\ n = Len(s) /\ ValueOf(down) \in Nat /\ ValueOf(down) <= value
    BY <1>0, ScaledDown
  <1>3. n \in Nat /\ DOMAIN down = 1..n /\ n # 0
    BY <1>2, LenProperties, EmptySeq
  <1>4. n \in 1..n
    BY <1>3
  <1>5. down[n] \in Out
    BY <1>2, <1>4, ElementOfSeq
  <1>6. down[n].sats \in Nat
    BY <1>5 DEF Out
  <1>7. x \in Nat
    BY <1>2, <1>6
  <1>8. t = Put(down, n, o)
    BY <1>3, <1>4, Zenon DEF Put
  <1> HIDE DEF x, t
  <1>9. o \in Out
    BY <1>5, <1>7 DEF Out
  <1> HIDE DEF o
  <1>10. n \in 1..Len(down)
    BY <1>4
  <1> HIDE DEF n
  <1>11. Put(down, n, o) \in Seq(Out)
    BY <1>2, <1>9, <1>10, PutSeq
  <1> QED
    BY <1>1, <1>8, <1>11

\* Every coinbase a gateway builds is a list of outputs.
LEMMA CoinbaseIs ==
  ASSUME setup \in Setups, NEW s \in Seq(Out), NEW cb \in Coinbases(s)
  PROVE  cb \in Seq(Out) /\ ValueOf(cb) \in Nat
  <1> DEFINE bodies == {PrefixOf(s, k) : k \in 0..Len(s)}
                       \cup (IF Rescales /\ s # << >> THEN {Rescaled(s, v) : v \in Values} ELSE {})
  <1>1. Coinbases(s) = {b \o <<Output(Witness, 0)>> : b \in bodies}
    BY DEF Coinbases
  <1>2. Values \subseteq Nat
    BY PayoutAssumption DEF Values
  <1>3. ASSUME NEW b \in bodies PROVE b \in Seq(Out)
    <2>1. CASE \E k \in 0..Len(s) : b = PrefixOf(s, k)
      BY <2>1, PrefixIs
    <2>2. CASE s # << >> /\ \E v \in Values : b = Rescaled(s, v)
      BY <1>2, <2>2, RescaledIs
    <2> QED
      BY <2>1, <2>2
  <1> HIDE DEF bodies
  <1>4. PICK b \in bodies : cb = b \o <<Output(Witness, 0)>>
    BY <1>1
  <1>5. Witness \in Scripts
    BY DEF Scripts
  <1>6. <<Output(Witness, 0)>> \in Seq(Out)
    BY <1>5, OneOutput
  <1>7. b \in Seq(Out)
    BY <1>3
  <1>8. b \o <<Output(Witness, 0)>> \in Seq(Out)
    BY <1>6, <1>7, ValueList
  <1>9. cb \in Seq(Out)
    BY <1>4, <1>8
  <1> QED
    BY <1>9, ValueList

-----------------------------------------------------------------------------
(* Records and the window *)

\* A payee dropped or an entry the split left unpaid.
Due == Owed \cup Payee

\* Filtering a sequence.
LEMMA FilteredIs ==
  ASSUME NEW S, NEW s \in Seq(S), NEW places \in SUBSET DOMAIN s
  PROVE  Filtered(s, places) \in Seq(S)
  <1> DEFINE at == ByName(places)
  <1>1. Len(s) \in Nat /\ DOMAIN s = 1..Len(s) /\ \A k \in 1..Len(s) : s[k] \in S
    BY LenProperties, ElementOfSeq
  <1>2. IsFiniteSet(places) /\ places \in SUBSET Nat
    <2>1. 0 + 1 \in Int /\ Len(s) \in Int
      BY <1>1
    <2>2. IsFiniteSet(1..Len(s))
      BY <2>1, FS_Interval
    <2> QED
      BY <1>1, <2>2, FS_Subset
  <1>3. Lists(at, places)
    BY <1>2, ByNameLists
  <1>4. Filtered(s, places) = [k \in DOMAIN at |-> s[at[k]]]
    BY DEF Filtered
  <1> HIDE DEF at
  <1>5. at \in Seq(places)
    BY <1>3 DEF Lists
  <1>6. Len(at) \in Nat /\ DOMAIN at = 1..Len(at) /\ \A k \in 1..Len(at) : at[k] \in places
    BY <1>5, LenProperties, ElementOfSeq
  <1>7. \A k \in 1..Len(at) : s[at[k]] \in S
    BY <1>1, <1>6
  <1> QED
    BY <1>4, <1>6, <1>7

\* What goes on record as owed.
LEMMA RecordedIs ==
  ASSUME NEW s, IsSplit(s)
  PROVE  Recorded(s) \in Seq(Due)
  <1> DEFINE places == {k \in DOMAIN s.unpaid : s.unpaid[k].reason # "NoScript"}
  <1>1. s.unpaid \in Seq(Owed)
    BY DEF IsSplit
  <1>2. Owed \subseteq Due
    BY DEF Due
  <1>3. s.unpaid \in Seq(Due)
    BY <1>1, <1>2, SeqMonotonic
  <1>4. places \in SUBSET DOMAIN s.unpaid /\ Recorded(s) = Filtered(s.unpaid, places)
    BY DEF Recorded
  <1> HIDE DEF places
  <1>5. Filtered(s.unpaid, places) \in Seq(Due)
    BY <1>3, <1>4, FilteredIs
  <1> QED
    BY <1>4, <1>5

\* classify_coinbase returns one of four kinds.
LEMMA KindIs ==
  ASSUME NEW cb, NEW l, NEW tolerance
  PROVE  Classify(cb, l, tolerance).kind \in {"Split", "Partial", "PoolOnly", "Foreign"}
  <1> DEFINE Kinds == {"Split", "Partial", "PoolOnly", "Foreign"}
  <1>1. \A k, n : Kind(k, n).kind = k
    BY DEF Kind
  <1>2. ByPool(cb).kind \in Kinds
    BY <1>1, Zenon DEF ByPool
  <1>3. Judge(cb, l, tolerance).kind \in Kinds
    BY <1>1, <1>2, Zenon DEF Judge
  <1> QED
    BY <1>1, <1>2, <1>3, Zenon DEF Classify

\* What a coinbase does not pay its payees.
LEMMA DroppedIs ==
  ASSUME NEW kind \in {"Split", "Partial", "PoolOnly"}, NEW cb, ValueOf(cb) \in Nat,
         IsSplit(DueSplit(cb))
  PROVE  Dropped(kind, cb) \in Seq(Due)
  <1> DEFINE d == DueSplit(cb)
             s == d.payees
             places == {k \in DOMAIN s : PaidTo(cb, ScriptOf[s[k].identity]) = 0}
             scaled == [k \in DOMAIN s |-> [s[k] EXCEPT !.sats = Scale(@, ValueOf(cb), d.value)]]
  <1>1. s \in Seq(Payee) /\ d.value \in Nat
    BY DEF IsSplit
  <1>2. Payee \subseteq Due
    BY DEF Due
  <1>3. kind = "Split" => Dropped(kind, cb) = << >>
    BY DEF Dropped
  <1>4. kind = "Partial" => Dropped(kind, cb) = Filtered(s, places)
    BY DEF Dropped
  <1>5. kind = "PoolOnly" => Dropped(kind, cb) = scaled
    BY DEF Dropped
  <1>6. << >> \in Seq(Due)
    OBVIOUS
  <1> HIDE DEF d
  <1>7. Filtered(s, places) \in Seq(Due)
    <2>1. places \in SUBSET DOMAIN s
      OBVIOUS
    <2> HIDE DEF s, places
    <2>2. s \in Seq(Due)
      BY <1>1, <1>2, SeqMonotonic
    <2> QED
      BY <2>1, <2>2, FilteredIs
  <1>8. scaled \in Seq(Due)
    <2>1. Len(s) \in Nat /\ DOMAIN s = 1..Len(s) /\ \A k \in 1..Len(s) : s[k] \in Payee
      BY <1>1, LenProperties, ElementOfSeq
    <2>2. ASSUME NEW k \in 1..Len(s)
          PROVE  [s[k] EXCEPT !.sats = Scale(@, ValueOf(cb), d.value)] \in Due
      <3> DEFINE x == Scale(s[k].sats, ValueOf(cb), d.value)
      <3>1. s[k] \in Payee /\ s[k].sats \in Nat
        BY <2>1 DEF Payee
      <3>2. x \in Nat
        BY <1>1, <3>1, ScaleIs
      <3> HIDE DEF x
      <3>3. [s[k] EXCEPT !.sats = x] \in Payee
        BY <3>1, <3>2 DEF Payee
      <3> QED
        BY <1>2, <3>3 DEF x
    <2>3. scaled \in [1..Len(s) -> Due]
      BY <2>1, <2>2
    <2> QED
      BY <2>1, <2>3, IsASeq
  <1> QED
    BY <1>3, <1>4, <1>5, <1>6, <1>7, <1>8, Zenon

\* The carry after a block settles is a natural.
LEMMA AppliedIs ==
  ASSUME NEW owed \in Nat, NEW r, r.unpaid \in Seq(Due), r.carry_paid \in Seq(Paid), NEW i
  PROVE  Applied(owed, r, i) \in Nat
  <1> DEFINE x == SatsOf(r.carry_paid, i)
             y == SatsOf(r.unpaid, i)
             d == owed - x
  <1>1. x \in Nat
    <2>1. \A e \in Paid : e.sats \in Nat
      BY DEF Paid
    <2> QED
      BY <2>1, SatsList
  <1>2. y \in Nat
    <2>1. \A e \in Due : e.sats \in Nat
      BY DEF Due, Owed, Payee
    <2> QED
      BY <2>1, SatsList
  <1>3. Applied(owed, r, i) = Max({0, d}) + y
    BY DEF Applied
  <1>4. 0 \in Int /\ d \in Int
    BY <1>1
  <1> HIDE DEF d
  <1>5. \A a, b \in Int : Max({a, b}) = IF a >= b THEN a ELSE b
    BY OfTwo
  <1>6. Max({0, d}) = IF 0 >= d THEN 0 ELSE d
    BY <1>4, <1>5, Zenon
  <1>7. Max({0, d}) \in Nat
    BY <1>4, <1>6
  <1> QED
    BY <1>2, <1>3, <1>7

\* Window::miners: one row for each identity with work.
LEMMA MinersWithIs ==
  ASSUME NEW work \in [Idents -> Nat]
  PROVE  MinersWith(work) \in Seq(Miner) /\ Once(MinersWith(work))
  <1> DEFINE ids == {j \in Idents : work[j] > 0}
             Row(i) == [identity |-> i, work |-> work[i],
                        stratum_work |-> IF i \in House THEN work[i] ELSE 0]
             rows == {Row(i) : i \in ids}
             r == MinersWith(work)
  <1>1. r = Ranked(rows)
    BY DEF MinersWith
  <1>2. ids \in SUBSET Idents /\ IsFiniteSet(ids)
    BY PayoutAssumption, FS_Subset
  <1>3. \A i \in ids : Row(i) \in Miner /\ Row(i).identity = i
    BY DEF Miner
  <1>4. IsFiniteSet(rows)
    <2> DEFINE f == [i \in ids |-> Row(i)]
    <2> HIDE DEF Row, ids
    <2>1. f \in Surjection(ids, rows)
      BY DEF Surjection
    <2> HIDE DEF f, rows
    <2> QED
      BY <1>2, <2>1, FS_Surjection
  <1>5. rows \in SUBSET Miner /\ \A q \in rows : \E i \in ids : q = Row(i)
    <2> HIDE DEF Row, ids
    <2> QED
      BY <1>3
  <1>6. \A p, q \in rows : p.identity = q.identity => p = q
    <2> HIDE DEF Row, ids, rows
    <2> QED
      BY <1>3, <1>5
  <1> HIDE DEF Row, ids, rows, r
  <1>7. Comparable(rows)
    <2>1. \A q \in rows : q.identity \in Nat /\ q.work \in Nat
      BY <1>5, PayoutAssumption DEF Miner
    <2> QED
      BY <1>4, <1>6, <2>1 DEF Comparable
  <1>8. Lists(r, rows)
    BY <1>1, <1>7, RankedLists
  <1>9. r \in Seq(rows) /\ \A j, k \in 1..Len(r) : r[j] = r[k] => j = k
    BY <1>8 DEF Lists
  <1>10. r \in Seq(Miner)
    BY <1>5, <1>9, SeqMonotonic
  <1>11. \A j \in 1..Len(r) : r[j] \in rows
    BY <1>9, ElementOfSeq
  <1>12. Once(r)
    <2>1. \A j, k \in 1..Len(r) : r[j].identity = r[k].identity => r[j] = r[k]
      BY <1>6, <1>11
    <2> QED
      BY <1>9, <2>1 DEF Once
  <1> QED
    BY <1>10, <1>12 DEF r

-----------------------------------------------------------------------------
(* The issued list *)

\* The list Prime has under the coinbaser id is the split's, and the split is
\* sound for the carry ledger as it still is.
IssuedSound ==
    phase = "issued" /\ issued # Unissued =>
        ValueOf(issued) = split.value /\ SplitSound(Params, carry, split)

PayoutTypes ==
    /\ setup \in Setups
    /\ miners \in Seq(Miner)
    /\ Once(miners)
    /\ carry \in [Idents -> Nat]
    /\ list \in Seq(Out)
    /\ IsSplit(split)

RecordType == record.unpaid \in Seq(Due) /\ record.carry_paid \in Seq(Paid)

PayoutInv == PayoutTypes /\ RecordType /\ IssuedSound

\* The parameters in force are ones that were let through.
LEMMA ParamsAre ==
  ASSUME setup \in Setups
  PROVE  IsParams(Params) /\ Values \subseteq Nat /\ Works \subseteq [Idents -> Nat]
  BY PayoutAssumption DEF Params, Values, Works

Nothing == [i \in Idents |-> 0]

\* A split of an empty window.
LEMMA NoSplitIs ==
  ASSUME setup \in Setups
  PROVE  IsSplit(NoSplit)
  <1>1. << >> \in Seq(Miner) /\ Once(<< >>)
    <2>1. Len(<< >>) = 0 /\ << >> \in Seq(Miner)
      OBVIOUS
    <2> QED
      BY <2>1 DEF Once
  <1>2. Nothing \in [Idents -> Nat]
    BY DEF Nothing
  <1>3. IsSplit(Compute(Params, << >>, 0, Nothing))
    <2> DEFINE ms == << >>
    <2>1. ms \in Seq(Miner) /\ Once(ms)
      BY <1>1
    <2> HIDE DEF ms
    <2>2. 0 \in Nat
      OBVIOUS
    <2>3. IsSplit(Compute(Params, ms, 0, Nothing))
      BY <1>2, <2>1, <2>2, ParamsAre, ComputeSound
    <2> QED
      BY <2>3 DEF ms
  <1> QED
    BY <1>3 DEF NoSplit, Nothing

\* The pool starts with nothing issued.
LEMMA PayoutInit == Init => PayoutInv
  <1> SUFFICES ASSUME Init PROVE PayoutInv
    OBVIOUS
  <1>1. /\ setup \in Setups /\ phase = "idle" /\ miners = << >> /\ split = NoSplit /\ list = << >>
        /\ record = NoRecord /\ carry = [i \in Idents |-> 0]
    BY DEF Init
  <1>2. miners \in Seq(Miner) /\ Once(miners) /\ list \in Seq(Out)
    <2>1. Len(<< >>) = 0 /\ << >> \in Seq(Miner) /\ << >> \in Seq(Out)
      OBVIOUS
    <2> QED
      BY <1>1, <2>1 DEF Once
  <1>3. carry \in [Idents -> Nat]
    BY <1>1
  <1>4. IsSplit(split)
    BY <1>1, NoSplitIs
  <1>5. RecordType
    BY <1>1 DEF RecordType, NoRecord
  <1>6. IssuedSound
    BY <1>1 DEF IssuedSound
  <1> QED
    BY <1>1, <1>2, <1>3, <1>4, <1>5, <1>6 DEF PayoutInv, PayoutTypes

\* A list computed from the window and the carry ledger as they are.
LEMMA ComputedIs ==
  ASSUME setup \in Setups, NEW ms \in Seq(Miner), Once(ms), NEW v \in Values,
         carry \in [Idents -> Nat], NEW s, s = Compute(Params, ms, v, carry), NEW old
  PROVE  /\ IsSplit(s) /\ SplitSound(Params, carry, s)
         /\ OutputsOf(s, Commitment(old)) \in Seq(Out)
         /\ ValueOf(OutputsOf(s, Commitment(old))) = s.value
  <1>1. IsParams(Params) /\ v \in Nat
    BY ParamsAre
  <1>2. IsSplit(s) /\ SplitSound(Params, carry, s)
    BY <1>1, ComputeSound
  <1>3. PaidSats(s.payees) + s.pool_sats = s.value
    BY <1>2 DEF SplitSound
  <1> DEFINE c == Commitment(old)
  <1>4. c \in Seq(Out) /\ ValueOf(c) = 0
    BY CommitmentIs
  <1> HIDE DEF c
  <1>5. OutputsOf(s, c) \in Seq(Out) /\ ValueOf(OutputsOf(s, c)) = s.value
    BY <1>2, <1>3, <1>4, OutputsIs
  <1> QED
    BY <1>2, <1>5 DEF c

\* on_coinbaser_request keeps the invariant.
LEMMA IssueStep ==
  ASSUME PayoutInv, NEW work \in Works, NEW v \in Values, IssueCoinbaser(work, v)
  PROVE  PayoutInv'
  <1>1. setup \in Setups /\ carry \in [Idents -> Nat] /\ RecordType
    BY DEF PayoutInv, PayoutTypes
  <1>2. /\ miners' = MinersWith(work) /\ split' = Compute(Params, miners', v, carry)
        /\ list' = OutputsOf(split', Commitment(<< >>)) /\ issued' = list'
        /\ setup' = setup /\ carry' = carry /\ record' = record
    BY DEF IssueCoinbaser
  <1>3. work \in [Idents -> Nat]
    BY <1>1, ParamsAre
  <1>4. miners' \in Seq(Miner) /\ Once(miners')
    BY <1>2, <1>3, MinersWithIs
  <1>5. /\ IsSplit(split') /\ SplitSound(Params, carry, split')
        /\ list' \in Seq(Out) /\ ValueOf(list') = split'.value
    <2> DEFINE s == split'
               ms == miners'
               c == Commitment(<< >>)
    <2>1. s = Compute(Params, ms, v, carry) /\ ms \in Seq(Miner) /\ Once(ms)
      BY <1>2, <1>4
    <2> HIDE DEF s, ms
    <2>2. /\ IsSplit(s) /\ SplitSound(Params, carry, s)
          /\ OutputsOf(s, c) \in Seq(Out)
          /\ ValueOf(OutputsOf(s, c)) = s.value
      BY <1>1, <2>1, ComputedIs
    <2> QED
      BY <1>2, <2>2 DEF s
  <1>6. Params' = Params
    BY <1>2 DEF Params
  <1>7. IssuedSound'
    BY <1>2, <1>5, <1>6 DEF IssuedSound
  <1>8. Once(miners)'
    BY <1>4 DEF Once
  <1>9. PayoutTypes'
    BY <1>1, <1>2, <1>4, <1>5, <1>8 DEF PayoutTypes
  <1>10. RecordType'
    BY <1>1, <1>2 DEF RecordType
  <1> QED
    BY <1>7, <1>9, <1>10 DEF PayoutInv

\* So does the end of a session.
LEMMA ReconnectStep ==
  ASSUME PayoutInv, NEW work \in Works, Reconnect(work)
  PROVE  PayoutInv'
  <1>1. setup \in Setups /\ carry \in [Idents -> Nat] /\ list \in Seq(Out) /\ RecordType
    BY DEF PayoutInv, PayoutTypes
  <1>2. /\ miners' = MinersWith(work) /\ split' = NoSplit /\ issued' = Unissued
        /\ setup' = setup /\ carry' = carry /\ record' = record /\ list' = list
    BY DEF Reconnect
  <1>3. work \in [Idents -> Nat]
    BY <1>1, ParamsAre
  <1>4. miners' \in Seq(Miner) /\ Once(miners')
    BY <1>2, <1>3, MinersWithIs
  <1>5. IsSplit(split')
    BY <1>1, <1>2, NoSplitIs
  <1>6. IssuedSound'
    BY <1>2 DEF IssuedSound
  <1>7. Once(miners)'
    BY <1>4 DEF Once
  <1>8. PayoutTypes'
    BY <1>1, <1>2, <1>4, <1>5, <1>7 DEF PayoutTypes
  <1>9. RecordType'
    BY <1>1, <1>2 DEF RecordType
  <1> QED
    BY <1>6, <1>8, <1>9 DEF PayoutInv

\* So does the next session's list under the same id.
LEMMA ReissueStep ==
  ASSUME PayoutInv, NEW v \in Values, Reissue(v)
  PROVE  PayoutInv'
  <1>1. /\ setup \in Setups /\ carry \in [Idents -> Nat] /\ list \in Seq(Out) /\ RecordType
        /\ miners \in Seq(Miner) /\ Once(miners)
    BY DEF PayoutInv, PayoutTypes
  <1>2. /\ split' = Compute(Params, miners, v, carry)
        /\ issued' = OutputsOf(split', Commitment(list))
        /\ setup' = setup /\ carry' = carry /\ record' = record /\ list' = list /\ miners' = miners
    BY DEF Reissue
  <1>3. /\ IsSplit(split') /\ SplitSound(Params, carry, split')
        /\ ValueOf(issued') = split'.value
    <2> DEFINE s == split'
    <2>1. s = Compute(Params, miners, v, carry) /\ issued' = OutputsOf(s, Commitment(list))
      BY <1>2
    <2> HIDE DEF s
    <2>2. /\ IsSplit(s) /\ SplitSound(Params, carry, s)
          /\ ValueOf(OutputsOf(s, Commitment(list))) = s.value
      BY <1>1, <2>1, ComputedIs
    <2> QED
      BY <2>1, <2>2 DEF s
  <1>4. Params' = Params
    BY <1>2 DEF Params
  <1>5. IssuedSound'
    BY <1>2, <1>3, <1>4 DEF IssuedSound
  <1>6. Once(miners)'
    BY <1>1, <1>2 DEF Once
  <1>7. PayoutTypes'
    BY <1>1, <1>2, <1>3, <1>6 DEF PayoutTypes
  <1>8. RecordType'
    BY <1>1, <1>2 DEF RecordType
  <1> QED
    BY <1>5, <1>7, <1>8 DEF PayoutInv

\* So does on_block_candidate.
LEMMA FindBlockStep ==
  ASSUME PayoutInv, NEW cb \in Coinbases(list), FindBlock(cb)
  PROVE  PayoutInv'
  <1>1. PayoutTypes
    BY DEF PayoutInv
  <1>2. /\ setup \in Setups /\ carry \in [Idents -> Nat] /\ list \in Seq(Out)
        /\ miners \in Seq(Miner) /\ Once(miners) /\ IsSplit(split)
    BY <1>1 DEF PayoutTypes
  <1> DEFINE kind == Classify(cb, issued, Tolerance).kind
             known == issued # Unissued
             u == (IF known THEN Recorded(split) ELSE << >>) \o Dropped(kind, cb)
             p == IF known THEN split.carry_paid ELSE << >>
  <1>3. kind # "Foreign" /\ phase' = "found" /\ record'.unpaid = u /\ record'.carry_paid = p
    BY DEF FindBlock
  <1>4. UNCHANGED <<setup, miners, split, list, carry>>
    BY DEF FindBlock
  <1>5. kind \in {"Split", "Partial", "PoolOnly"}
    <2>1. kind \in {"Split", "Partial", "PoolOnly", "Foreign"}
      BY KindIs
    <2> HIDE DEF kind
    <2> QED
      BY <1>3, <2>1
  <1>6. ValueOf(cb) \in Nat
    BY <1>2, CoinbaseIs
  <1>7. IsSplit(DueSplit(cb))
    <2>1. CASE known
      <3>1. DueSplit(cb) = split
        BY <2>1 DEF DueSplit
      <3> QED
        BY <1>2, <3>1
    <2>2. CASE ~known
      <3>1. DueSplit(cb) = Compute(Params, miners, ValueOf(cb), Nothing)
        BY <2>2 DEF DueSplit, Nothing
      <3>2. Nothing \in [Idents -> Nat]
        BY DEF Nothing
      <3>3. IsSplit(Compute(Params, miners, ValueOf(cb), Nothing))
        BY <1>2, <1>6, <3>2, ParamsAre, ComputeSound
      <3> QED
        BY <3>1, <3>3
    <2> QED
      BY <2>1, <2>2
  <1> HIDE DEF kind
  <1>8. Dropped(kind, cb) \in Seq(Due)
    BY <1>5, <1>6, <1>7, DroppedIs
  <1>9. (IF known THEN Recorded(split) ELSE << >>) \in Seq(Due)
    <2>1. Recorded(split) \in Seq(Due) /\ << >> \in Seq(Due)
      BY <1>2, RecordedIs
    <2> QED
      BY <2>1
  <1>10. u \in Seq(Due)
    <2> DEFINE a == IF known THEN Recorded(split) ELSE << >>
               b == Dropped(kind, cb)
    <2>1. a \in Seq(Due) /\ b \in Seq(Due) /\ u = a \o b
      BY <1>8, <1>9
    <2> HIDE DEF a, b, u
    <2> QED
      BY <2>1, ConcatProperties
  <1>11. p \in Seq(Paid)
    <2>1. split.carry_paid \in Seq(Paid) /\ << >> \in Seq(Paid)
      BY <1>2 DEF IsSplit
    <2> QED
      BY <2>1
  <1> HIDE DEF u, p
  <1>12. RecordType'
    BY <1>3, <1>10, <1>11 DEF RecordType
  <1>13. IssuedSound'
    BY <1>3 DEF IssuedSound
  <1>14. PayoutTypes'
    BY <1>1, <1>4 DEF PayoutTypes, Once, IsSplit
  <1> QED
    BY <1>12, <1>13, <1>14 DEF PayoutInv

\* So does applying the record to the carry ledger.
LEMMA SettleStep ==
  ASSUME PayoutInv, Settle
  PROVE  PayoutInv'
  <1>1. PayoutTypes /\ RecordType
    BY DEF PayoutInv
  <1>2. /\ phase' = "idle" /\ carry' = [i \in Idents |-> Applied(carry[i], record, i)]
        /\ record' = NoRecord
    BY DEF Settle
  <1>3. UNCHANGED <<setup, miners, split, list>>
    BY DEF Settle
  <1>4. \A i \in Idents : carry[i] \in Nat
    BY <1>1 DEF PayoutTypes
  <1>5. \A i \in Idents : Applied(carry[i], record, i) \in Nat
    BY <1>1, <1>4, AppliedIs DEF RecordType
  <1>6. carry' \in [Idents -> Nat]
    BY <1>2, <1>5
  <1>7. PayoutTypes'
    BY <1>1, <1>3, <1>6 DEF PayoutTypes, Once, IsSplit
  <1>8. RecordType'
    BY <1>2 DEF RecordType, NoRecord
  <1>9. IssuedSound'
    BY <1>2 DEF IssuedSound
  <1> QED
    BY <1>7, <1>8, <1>9 DEF PayoutInv

\* No step breaks the invariant.
LEMMA PayoutNext == PayoutInv /\ [Next]_vars => PayoutInv'
  <1> SUFFICES ASSUME PayoutInv, [Next]_vars PROVE PayoutInv'
    OBVIOUS
  <1>1. CASE \E work \in Works, v \in Values : IssueCoinbaser(work, v)
    BY <1>1, IssueStep
  <1>2. CASE \E work \in Works : Reconnect(work)
    BY <1>2, ReconnectStep
  <1>3. CASE \E v \in Values : Reissue(v)
    BY <1>3, ReissueStep
  <1>4. CASE \E cb \in Coinbases(list) : FindBlock(cb)
    BY <1>4, FindBlockStep
  <1>5. CASE Settle
    BY <1>5, SettleStep
  <1>6. CASE UNCHANGED vars
    BY <1>6 DEF vars, PayoutInv, PayoutTypes, RecordType, IssuedSound, Once, IsSplit, SplitSound,
                Floor, Params
  <1> QED
    BY <1>1, <1>2, <1>3, <1>4, <1>5, <1>6 DEF Next, Done

\* The list is sound where the invariant holds.
LEMMA SoundList == PayoutInv => ListSound
  <1> SUFFICES ASSUME PayoutInv, phase = "issued" /\ issued # Unissued
               PROVE  /\ ValueOf(issued) = split.value
                      /\ Len(split.payees) <= Params.max_outputs
                      /\ Len(split.payees) * OutputBytes <= Params.output_budget_bytes
                      /\ Params.max_payees = 0 =>
                            \A k \in DOMAIN split.payees : split.payees[k].sats >= Params.min_payout
                      /\ \A i \in Idents : SatsOf(split.carry_paid, i) <= carry[i]
    BY DEF ListSound
  <1>1. ValueOf(issued) = split.value /\ SplitSound(Params, carry, split)
    BY DEF PayoutInv, IssuedSound
  <1>2. split.payees \in Seq(Payee)
    BY DEF PayoutInv, PayoutTypes, IsSplit
  <1>3. DOMAIN split.payees = 1..Len(split.payees)
    BY <1>2, LenProperties
  <1>4. Params.max_payees = 0 =>
           \A k \in DOMAIN split.payees : split.payees[k].sats >= Params.min_payout
    BY <1>1, <1>3 DEF SplitSound, Floor
  <1> QED
    BY <1>1, <1>4 DEF SplitSound

\* In every pool, after any blocks, reconnects and rescaled coinbases, the list
\* Prime holds a gateway to spends the template's value to the sat, keeps the
\* limits of on_coinbaser_request and pays no carry that is not owed.
THEOREM ListsSound == Spec => []ListSound
  <1>1. Init => PayoutInv
    BY PayoutInit
  <1>2. PayoutInv /\ [Next]_vars => PayoutInv'
    BY PayoutNext
  <1>3. PayoutInv => ListSound
    BY SoundList
  <1> QED
    BY <1>1, <1>2, <1>3, PTL DEF Spec
=============================================================================
