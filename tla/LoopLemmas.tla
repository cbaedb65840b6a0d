---------------------------- MODULE LoopLemmas ----------------------------
(***************************************************************************)
(* What the proofs about loops over a sequence rest on: induction on       *)
(* numbers and on sequences, what a loop leaves behind, and sums.          *)
(***************************************************************************)
EXTENDS Sums, TLAPS, WellFoundedInduction, SequenceTheorems

-----------------------------------------------------------------------------
(* Numbers *)

\* A set of naturals has a least element.
LEMMA LeastOf ==
  ASSUME NEW T \in SUBSET Nat, T # {}
  PROVE  \E m \in T : \A k \in T : m <= k
  <1>1. PICK m \in T : \A k \in T : ~(<<k, m>> \in OpToRel(<, Nat))
    BY WFMin, NatLessThanWellFounded, Zenon
  <1>2. \A k \in T : ~(k < m)
    BY <1>1, Zenon DEF OpToRel
  <1> QED
    BY <1>2

\* Induction up to n, on a set of numbers.
LEMMA UpTo ==
  ASSUME NEW n \in Nat, NEW T, 0 \in T, \A k \in 0..(n - 1) : k \in T => k + 1 \in T
  PROVE  \A k \in 0..n : k \in T
  <1> DEFINE bad == {k \in 0..n : k \notin T}
  <1> SUFFICES ASSUME bad # {} PROVE FALSE
    OBVIOUS
  <1>1. bad \in SUBSET Nat
    OBVIOUS
  <1>2. PICK m \in bad : \A k \in bad : m <= k
    BY <1>1, LeastOf
  <1>3. m # 0 /\ m \in 0..n /\ m \notin T
    BY <1>2
  <1>4. m - 1 \in 0..(n - 1) /\ m - 1 \notin bad
    BY <1>2, <1>3
  <1>5. m - 1 \in T
    BY <1>4
  <1>6. (m - 1) + 1 \in T
    BY <1>4, <1>5
  <1> QED
    BY <1>3, <1>6

\* Induction on sequences, on a set of sequences.
LEMMA SeqInduct ==
  ASSUME NEW S, NEW T, << >> \in T,
         \A s \in Seq(S), x \in S : s \in T => Append(s, x) \in T
  PROVE  \A s \in Seq(S) : s \in T
  <1> DEFINE L == {k \in Nat : \A s \in Seq(S) : Len(s) = k => s \in T}
  <1>1. 0 \in L
    <2>1. \A s \in Seq(S) : Len(s) = 0 => s = << >>
      BY EmptySeq
    <2> QED
      BY <2>1
  <1>2. ASSUME NEW k \in Nat, k \in L PROVE k + 1 \in L
    <2>1. ASSUME NEW s \in Seq(S), Len(s) = k + 1 PROVE s \in T
      <3>1. s # << >>
        BY <2>1, EmptySeq
      <3>2. PICK r \in Seq(S), x \in S : s = Append(r, x)
        BY <3>1, SequenceEmptyOrAppend
      <3>3. Len(s) = Len(r) + 1 /\ Len(r) \in Nat
        BY <3>2, AppendProperties, LenProperties
      <3>4. Len(r) = k
        BY <3>3, <2>1
      <3>5. r \in T
        BY <1>2, <3>4
      <3> QED
        BY <3>2, <3>5
    <2> QED
      BY <2>1
  <1> HIDE DEF L
  <1>3. ASSUME NEW s \in Seq(S) PROVE s \in T
    <2>1. Len(s) \in Nat
      BY LenProperties
    <2>2. \A k \in 0..(Len(s) - 1) : k \in L => k + 1 \in L
      BY <1>2
    <2>3. \A k \in 0..Len(s) : k \in L
      BY <2>1, <2>2, <1>1, UpTo
    <2>4. Len(s) \in L
      BY <2>1, <2>3
    <2> QED
      BY <2>4 DEF L
  <1> QED
    BY <1>3

-----------------------------------------------------------------------------
(* Loops over a sequence *)

\* A loop over elements of S with a variable in V, first a, that element x makes
\* op[x][v] from v.
Loop(S, V, a, op) == a \in V /\ op \in [S -> [V -> V]]

\* What a variable with values in V, first a, may be after each element of s
\* when element x makes it op[x][v] from v.
Runs(s, V, a, op) ==
    {g \in [0..Len(s) -> V] :
        g[0] = a /\ \A k \in 1..Len(s) : g[k] = op[s[k]][g[k - 1]]}

\* One element more: the loop goes on from where it was.
LEMMA RunOn ==
  ASSUME NEW S, NEW V, NEW a, NEW op, Loop(S, V, a, op),
         NEW s \in Seq(S), NEW x \in S, NEW g \in Runs(s, V, a, op)
  PROVE  [k \in 0..(Len(s) + 1) |-> IF k <= Len(s) THEN g[k] ELSE op[x][g[Len(s)]]]
            \in Runs(Append(s, x), V, a, op)
  <1> USE DEF Loop
  <1> DEFINE n == Len(s)
             t == Append(s, x)
             h == [k \in 0..(n + 1) |-> IF k <= n THEN g[k] ELSE op[x][g[n]]]
  <1>1. n \in Nat /\ Len(t) = n + 1
    BY LenProperties, AppendProperties
  <1>2. (\A k \in 1..n : t[k] = s[k]) /\ t[n + 1] = x
    BY AppendProperties
  <1>3. (\A k \in 0..n : g[k] \in V) /\ g[0] = a /\ \A k \in 1..n : g[k] = op[s[k]][g[k - 1]]
    BY <1>1 DEF Runs
  <1> HIDE DEF n, t
  <1>4. g[n] \in V
    BY <1>1, <1>3
  <1>5. op[x][g[n]] \in V
    BY <1>4
  <1>6. \A k \in 0..(n + 1) : h[k] \in V
    BY <1>1, <1>3, <1>5
  <1>7. h[0] = a
    BY <1>1, <1>3
  <1>8. \A k \in 1..(n + 1) : h[k] = op[t[k]][h[k - 1]]
    <2> TAKE k \in 1..(n + 1)
    <2>1. CASE k <= n
      <3>1. k \in 1..n /\ h[k] = g[k] /\ h[k - 1] = g[k - 1]
        BY <1>1, <2>1
      <3> QED
        BY <1>2, <1>3, <3>1
    <2>2. CASE k = n + 1
      <3>1. h[k] = op[x][g[n]] /\ h[k - 1] = g[n] /\ t[k] = x
        BY <1>1, <1>2, <2>2
      <3> QED
        BY <3>1
    <2> QED
      BY <1>1, <2>1, <2>2
  <1>9. h \in [0..(n + 1) -> V]
    BY <1>6
  <1> HIDE DEF h
  <1>10. h \in Runs(t, V, a, op)
    BY <1>1, <1>7, <1>8, <1>9 DEF Runs
  <1> QED
    BY <1>10 DEF h, n, t

\* A loop runs.
LEMMA RunExists ==
  ASSUME NEW S, NEW V, NEW a, NEW op, Loop(S, V, a, op)
  PROVE  \A s \in Seq(S) : Runs(s, V, a, op) # {}
  <1> USE DEF Loop
  <1> DEFINE T == {s \in Seq(S) : Runs(s, V, a, op) # {}}
  <1>1. << >> \in T
    <2> DEFINE h == [k \in 0..0 |-> a]
    <2>1. h \in [0..0 -> V] /\ h[0] = a /\ Len(<< >>) = 0 /\ << >> \in Seq(S)
      OBVIOUS
    <2>2. \A k \in 1..0 : FALSE
      OBVIOUS
    <2> HIDE DEF h
    <2>3. h \in Runs(<< >>, V, a, op)
      BY <2>1, <2>2 DEF Runs
    <2> QED
      BY <2>1, <2>3
  <1>2. ASSUME NEW s \in Seq(S), NEW x \in S, s \in T PROVE Append(s, x) \in T
    <2>1. PICK g : g \in Runs(s, V, a, op)
      BY <1>2
    <2>2. Runs(Append(s, x), V, a, op) # {}
      BY <2>1, RunOn
    <2>3. Append(s, x) \in Seq(S)
      BY AppendProperties
    <2> QED
      BY <2>2, <2>3
  <1>3. \A s \in Seq(S), x \in S : s \in T => Append(s, x) \in T
    BY <1>2
  <1> HIDE DEF T
  <1>4. \A s \in Seq(S) : s \in T
    BY <1>1, <1>3, SeqInduct
  <1> QED
    BY <1>4 DEF T

\* Two runs of a loop are the same, element by element.
LEMMA RunSame ==
  ASSUME NEW S, NEW V, NEW a, NEW op, Loop(S, V, a, op),
         NEW s \in Seq(S)
  PROVE  \A g, h \in Runs(s, V, a, op) : g = h
  <1> USE DEF Loop
  <1> TAKE g, h \in Runs(s, V, a, op)
  <1> DEFINE n == Len(s)
             T == {k \in Nat : k <= n => g[k] = h[k]}
  <1>1. n \in Nat
    BY LenProperties
  <1>2. /\ g \in [0..n -> V] /\ g[0] = a /\ \A k \in 1..n : g[k] = op[s[k]][g[k - 1]]
        /\ h \in [0..n -> V] /\ h[0] = a /\ \A k \in 1..n : h[k] = op[s[k]][h[k - 1]]
    BY DEF Runs
  <1> HIDE DEF n
  <1>3. 0 \in T
    BY <1>2
  <1>4. ASSUME NEW k \in 0..(n - 1), k \in T PROVE k + 1 \in T
    <2>1. k + 1 \in 1..n /\ (k + 1) - 1 = k /\ g[k] = h[k]
      BY <1>1, <1>4
    <2>2. g[k + 1] = h[k + 1]
      BY <1>2, <2>1
    <2> QED
      BY <2>2
  <1>5. \A k \in 0..(n - 1) : k \in T => k + 1 \in T
    BY <1>4
  <1> HIDE DEF T
  <1>6. \A k \in 0..n : k \in T
    BY <1>1, <1>3, <1>5, UpTo
  <1>7. \A k \in 0..n : g[k] = h[k]
    BY <1>1, <1>6 DEF T
  <1>8. g \in [0..n -> V] /\ h \in [0..n -> V]
    BY <1>2
  <1>9. g = [k \in 0..n |-> g[k]] /\ h = [k \in 0..n |-> h[k]]
    BY <1>8
  <1>10. [k \in 0..n |-> g[k]] = [k \in 0..n |-> h[k]]
    BY <1>7, Zenon
  <1> QED
    BY <1>9, <1>10, Zenon

\* g follows the loop as long as its values are in V.
Follows(g, s, V, a, op) ==
    /\ g = [k \in 0..Len(s) |-> g[k]]
    /\ g[0] = a
    /\ \A k \in 1..Len(s) : g[k - 1] \in V => g[k] = op[s[k]][g[k - 1]]

\* Such a function is a run.
LEMMA RunIs ==
  ASSUME NEW S, NEW V, NEW a, NEW op, Loop(S, V, a, op), NEW s \in Seq(S),
         NEW g, Follows(g, s, V, a, op)
  PROVE  g \in Runs(s, V, a, op)
  <1> USE DEF Loop
  <1> DEFINE n == Len(s)
             T == {k \in Nat : k <= n => g[k] \in V}
  <1>1. n \in Nat /\ \A k \in 1..n : s[k] \in S
    BY LenProperties, ElementOfSeq
  <1>2. g[0] = a /\ \A k \in 1..n : g[k - 1] \in V => g[k] = op[s[k]][g[k - 1]]
    BY DEF Follows
  <1>3. g = [k \in 0..n |-> g[k]]
    BY DEF Follows
  <1> HIDE DEF n
  <1>4. 0 \in T
    BY <1>2
  <1>5. ASSUME NEW k \in 0..(n - 1), k \in T PROVE k + 1 \in T
    <2>1. k + 1 \in 1..n /\ (k + 1) - 1 = k /\ g[k] \in V
      BY <1>1, <1>5
    <2>2. g[k + 1] = op[s[k + 1]][g[k]]
      BY <1>2, <2>1
    <2>3. op[s[k + 1]] \in [V -> V]
      BY <1>1, <2>1
    <2>4. g[k + 1] \in V
      BY <2>1, <2>2, <2>3
    <2> QED
      BY <2>4
  <1>6. \A k \in 0..(n - 1) : k \in T => k + 1 \in T
    BY <1>5
  <1> HIDE DEF T
  <1>7. \A k \in 0..n : k \in T
    BY <1>1, <1>4, <1>6, UpTo
  <1>8. \A k \in 0..n : g[k] \in V
    BY <1>1, <1>7 DEF T
  <1>9. g \in [0..n -> V]
    BY <1>3, <1>8
  <1>10. \A k \in 1..n : g[k] = op[s[k]][g[k - 1]]
    <2> TAKE k \in 1..n
    <2>1. k - 1 \in 0..n
      BY <1>1
    <2> QED
      BY <1>2, <1>8, <2>1
  <1> QED
    BY <1>2, <1>9, <1>10 DEF Runs, n

\* What a loop may leave behind.
Results(s, V, a, op) == {g[Len(s)] : g \in Runs(s, V, a, op)}

\* What a loop leaves behind is a value of its variable.
LEMMA ResultIn ==
  ASSUME NEW S, NEW V, NEW a, NEW op, Loop(S, V, a, op), NEW s \in Seq(S),
         NEW v \in Results(s, V, a, op)
  PROVE  v \in V
  <1>1. Len(s) \in Nat
    BY LenProperties
  <1>2. PICK g \in Runs(s, V, a, op) : v = g[Len(s)]
    BY DEF Results
  <1>3. g \in [0..Len(s) -> V] /\ Len(s) \in 0..Len(s)
    BY <1>1 DEF Runs
  <1> QED
    BY <1>2, <1>3

\* Over nothing it leaves its first value.
LEMMA ResultEmpty ==
  ASSUME NEW V, NEW a \in V, NEW op, NEW v \in Results(<< >>, V, a, op)
  PROVE  v = a
  <1>1. Len(<< >>) = 0
    OBVIOUS
  <1> QED
    BY <1>1 DEF Results, Runs

\* Over one element more it leaves one step more.
LEMMA ResultAppend ==
  ASSUME NEW S, NEW V, NEW a, NEW op, Loop(S, V, a, op),
         NEW s \in Seq(S), NEW x \in S,
         NEW v \in Results(s, V, a, op), NEW w \in Results(Append(s, x), V, a, op)
  PROVE  w = op[x][v]
  <1>1. PICK g \in Runs(s, V, a, op) : v = g[Len(s)]
    BY DEF Results
  <1>2. PICK h \in Runs(Append(s, x), V, a, op) : w = h[Len(Append(s, x))]
    BY DEF Results
  <1> DEFINE n == Len(s)
             f == [k \in 0..(n + 1) |-> IF k <= n THEN g[k] ELSE op[x][g[n]]]
  <1>3. n \in Nat /\ Len(Append(s, x)) = n + 1 /\ Append(s, x) \in Seq(S)
    BY LenProperties, AppendProperties
  <1>4. f \in Runs(Append(s, x), V, a, op)
    BY RunOn
  <1>5. f[n + 1] = op[x][g[n]]
    BY <1>3
  <1> HIDE DEF f, n
  <1> DEFINE t == Append(s, x)
  <1>6. t \in Seq(S) /\ f \in Runs(t, V, a, op) /\ h \in Runs(t, V, a, op)
    BY <1>2, <1>3, <1>4
  <1> HIDE DEF t
  <1>7. \A p, q \in Runs(t, V, a, op) : p = q
    BY <1>6, RunSame
  <1>8. f = h
    BY <1>6, <1>7, Zenon
  <1>9. h[n + 1] = op[x][g[n]]
    BY <1>5, <1>8
  <1> QED
    BY <1>1, <1>2, <1>3, <1>9 DEF n

-----------------------------------------------------------------------------
(* Sums *)

Adding == [x \in Nat |-> [v \in Nat |-> v + x]]

\* Adding numbers is a loop on the naturals.
LEMMA AddingLoop == Loop(Nat, Nat, 0, Adding)
  BY DEF Loop, Adding

\* A sum is what the adding loop leaves behind.
LEMMA SumRun ==
  ASSUME NEW s \in Seq(Nat)
  PROVE  SumOf(s) \in Results(s, Nat, 0, Adding)
  <1> DEFINE n == Len(s)
             Rec(g) == g = [k \in 0..n |-> IF k = 0 THEN 0 ELSE g[k - 1] + s[k]]
             upTo == CHOOSE g : Rec(g)
  <1>1. n \in Nat /\ \A k \in 1..n : s[k] \in Nat
    BY LenProperties, ElementOfSeq
  <1>2. SumOf(s) = upTo[n]
    BY DEF SumOf
  <1>3. \A k \in 1..n, v \in Nat : Adding[s[k]][v] = v + s[k]
    BY <1>1 DEF Adding
  <1>4. PICK h : h \in Runs(s, Nat, 0, Adding)
    BY AddingLoop, RunExists
  <1>5. /\ h \in [0..n -> Nat] /\ h[0] = 0
        /\ \A k \in 1..n : h[k] = Adding[s[k]][h[k - 1]]
    BY <1>4 DEF Runs
  <1> HIDE DEF n, upTo
  <1>6. \A k \in 1..n : h[k] = h[k - 1] + s[k]
    <2> TAKE k \in 1..n
    <2>1. k - 1 \in 0..n
      BY <1>1
    <2>2. h[k - 1] \in Nat
      BY <2>1, <1>5
    <2> QED
      BY <2>2, <1>3, <1>5
  <1>7. Rec(h)
    BY <1>1, <1>5, <1>6
  <1>8. Rec(upTo)
    BY <1>7 DEF upTo
  <1>9. upTo = [k \in 0..n |-> upTo[k]]
    BY <1>8
  <1>10. upTo[0] = 0 /\ \A k \in 1..n : upTo[k] = upTo[k - 1] + s[k]
    BY <1>1, <1>8
  <1>11. \A k \in 1..n : upTo[k - 1] \in Nat => upTo[k] = Adding[s[k]][upTo[k - 1]]
    BY <1>3, <1>10
  <1>12. Follows(upTo, s, Nat, 0, Adding)
    BY <1>9, <1>10, <1>11 DEF Follows, n
  <1>13. upTo \in Runs(s, Nat, 0, Adding)
    BY <1>12, AddingLoop, RunIs
  <1> QED
    BY <1>2, <1>13 DEF Results, n

\* SumOf adds naturals to a natural.
LEMMA SumNat ==
  ASSUME NEW s \in Seq(Nat)
  PROVE  SumOf(s) \in Nat
  BY SumRun, AddingLoop, ResultIn

\* SumOf of nothing.
LEMMA SumEmpty == SumOf(<< >>) = 0
  <1>1. << >> \in Seq(Nat)
    OBVIOUS
  <1>2. SumOf(<< >>) \in Results(<< >>, Nat, 0, Adding)
    BY <1>1, SumRun
  <1> QED
    BY <1>2, ResultEmpty

\* SumOf of one number more.
LEMMA SumAppend ==
  ASSUME NEW s \in Seq(Nat), NEW x \in Nat
  PROVE  SumOf(Append(s, x)) = SumOf(s) + x
  <1>1. Append(s, x) \in Seq(Nat)
    BY AppendProperties
  <1>2. /\ SumOf(s) \in Results(s, Nat, 0, Adding)
        /\ SumOf(Append(s, x)) \in Results(Append(s, x), Nat, 0, Adding)
    BY <1>1, SumRun
  <1>3. SumOf(Append(s, x)) = Adding[x][SumOf(s)]
    BY <1>2, AddingLoop, ResultAppend
  <1> QED
    BY <1>3, SumNat DEF Adding

\* The sum over a sequence of what f makes of its elements.
SumBy(f, s) == SumOf([k \in DOMAIN s |-> f[s[k]]])

\* What f makes of no elements.
LEMMA MapEmpty == ASSUME NEW f PROVE [k \in DOMAIN << >> |-> f[<< >>[k]]] = << >>
  OBVIOUS

\* What f makes of a sequence is a sequence as long.
LEMMA MapSeq ==
  ASSUME NEW S, NEW f \in [S -> Nat], NEW s \in Seq(S)
  PROVE  /\ [k \in DOMAIN s |-> f[s[k]]] \in Seq(Nat)
         /\ Len([k \in DOMAIN s |-> f[s[k]]]) = Len(s)
  <1>1. Len(s) \in Nat /\ DOMAIN s = 1..Len(s) /\ \A k \in 1..Len(s) : s[k] \in S
    BY LenProperties, ElementOfSeq
  <1>2. \A k \in 1..Len(s) : f[s[k]] \in Nat
    BY <1>1
  <1> QED
    BY <1>1, <1>2

\* What f makes of one element more.
LEMMA MapAppend ==
  ASSUME NEW S, NEW f \in [S -> Nat], NEW s \in Seq(S), NEW x \in S
  PROVE  [k \in DOMAIN Append(s, x) |-> f[Append(s, x)[k]]]
            = Append([k \in DOMAIN s |-> f[s[k]]], f[x])
  <1> DEFINE m == [k \in DOMAIN s |-> f[s[k]]]
             t == Append(s, x)
             l == [k \in DOMAIN t |-> f[t[k]]]
             r == Append(m, f[x])
             n == Len(s)
  <1>1. m \in Seq(Nat) /\ Len(m) = n /\ n \in Nat
    BY MapSeq, LenProperties
  <1>2. t \in Seq(S) /\ Len(t) = n + 1 /\ (\A k \in 1..n : t[k] = s[k]) /\ t[n + 1] = x
    BY AppendProperties
  <1>3. l \in Seq(Nat) /\ Len(l) = n + 1
    BY <1>2, MapSeq
  <1>4. f[x] \in Nat
    OBVIOUS
  <1>5. \A k \in 1..(n + 1) : l[k] = f[t[k]]
    <2>1. DOMAIN t = 1..(n + 1)
      BY <1>2, LenProperties
    <2> QED
      BY <2>1
  <1>6. \A k \in 1..n : m[k] = f[s[k]]
    <2>1. DOMAIN s = 1..n
      BY LenProperties
    <2> QED
      BY <2>1
  <1> HIDE DEF m, t, l, n
  <1>7. r \in Seq(Nat) /\ Len(r) = n + 1 /\ (\A k \in 1..n : r[k] = m[k]) /\ r[n + 1] = f[x]
    BY <1>1, <1>4, AppendProperties
  <1> HIDE DEF r
  <1>8. \A k \in 1..(n + 1) : l[k] = r[k]
    <2> TAKE k \in 1..(n + 1)
    <2>1. CASE k \in 1..n
      <3>1. t[k] = s[k] /\ m[k] = f[s[k]] /\ r[k] = m[k]
        BY <2>1, <1>2, <1>6, <1>7
      <3>2. l[k] = f[t[k]]
        BY <1>5
      <3> QED
        BY <3>1, <3>2, Zenon
    <2>2. CASE k = n + 1
      BY <2>2, <1>1, <1>2, <1>5, <1>7
    <2> QED
      BY <1>1, <2>1, <2>2
  <1>9. l = r
    BY <1>3, <1>7, <1>8, SeqEqual
  <1> QED
    BY <1>9 DEF l, r, m, t

\* SumBy is a natural.
LEMMA ByNat ==
  ASSUME NEW S, NEW f \in [S -> Nat], NEW s \in Seq(S)
  PROVE  SumBy(f, s) \in Nat
  BY MapSeq, SumNat DEF SumBy

\* SumBy of nothing.
LEMMA ByEmpty == ASSUME NEW f PROVE SumBy(f, << >>) = 0
  BY MapEmpty, SumEmpty DEF SumBy

\* SumBy of one element more.
LEMMA ByAppend ==
  ASSUME NEW S, NEW f \in [S -> Nat], NEW s \in Seq(S), NEW x \in S
  PROVE  SumBy(f, Append(s, x)) = SumBy(f, s) + f[x]
  <1> DEFINE m == [k \in DOMAIN s |-> f[s[k]]]
  <1>1. m \in Seq(Nat) /\ f[x] \in Nat
    BY MapSeq
  <1>2. SumBy(f, Append(s, x)) = SumOf(Append(m, f[x]))
    <2>1. [k \in DOMAIN Append(s, x) |-> f[Append(s, x)[k]]] = Append(m, f[x])
      BY MapAppend
    <2> QED
      BY <2>1, Zenon DEF SumBy
  <1>3. SumBy(f, s) = SumOf(m)
    BY DEF SumBy
  <1> HIDE DEF m
  <1> QED
    BY <1>1, <1>2, <1>3, SumAppend

\* One more at the end of the second of two sequences put together.
LEMMA ConcatAppend ==
  ASSUME NEW S
  PROVE  \A s, r \in Seq(S) : \A x \in S : s \o Append(r, x) = Append(s \o r, x)
  OBVIOUS

\* The sum over two sequences put together.
LEMMA ByConcat ==
  ASSUME NEW S, NEW f \in [S -> Nat], NEW s \in Seq(S), NEW t \in Seq(S)
  PROVE  SumBy(f, s \o t) = SumBy(f, s) + SumBy(f, t)
  <1>0. \A r \in Seq(S) : \A x \in S : s \o Append(r, x) = Append(s \o r, x)
    OBVIOUS
  <1> DEFINE T == {r \in Seq(S) : SumBy(f, s \o r) = SumBy(f, s) + SumBy(f, r)}
  <1>1. << >> \in T
    <2>1. s \o << >> = s /\ << >> \in Seq(S)
      BY ConcatEmptySeq, EmptySeq
    <2>2. SumBy(f, << >>) = 0 /\ SumBy(f, s) \in Nat
      BY ByEmpty, ByNat
    <2> QED
      BY <2>1, <2>2
  <1>2. ASSUME NEW r \in Seq(S), NEW x \in S, r \in T PROVE Append(r, x) \in T
    <2>1. s \o Append(r, x) = Append(s \o r, x)
      BY <1>0
    <2>2. s \o r \in Seq(S) /\ Append(r, x) \in Seq(S)
      BY ConcatProperties, AppendProperties
    <2>3. SumBy(f, Append(s \o r, x)) = SumBy(f, s \o r) + f[x]
      BY <2>2, ByAppend
    <2>4. SumBy(f, Append(r, x)) = SumBy(f, r) + f[x]
      BY ByAppend
    <2>5. SumBy(f, s \o r) = SumBy(f, s) + SumBy(f, r)
      BY <1>2
    <2>6. SumBy(f, s) \in Nat /\ SumBy(f, r) \in Nat /\ f[x] \in Nat
      BY ByNat
    <2>7. SumBy(f, s \o Append(r, x)) = SumBy(f, s) + SumBy(f, Append(r, x))
      BY <2>1, <2>3, <2>4, <2>5, <2>6
    <2> QED
      BY <2>2, <2>7
  <1>3. \A r \in Seq(S), x \in S : r \in T => Append(r, x) \in T
    BY <1>2
  <1> HIDE DEF T
  <1>4. \A r \in Seq(S) : r \in T
    BY <1>1, <1>3, SeqInduct
  <1> QED
    BY <1>4 DEF T

\* A sum is zero just when every number is.
LEMMA ByZero ==
  ASSUME NEW S, NEW f \in [S -> Nat], NEW s \in Seq(S)
  PROVE  SumBy(f, s) = 0 <=> \A k \in 1..Len(s) : f[s[k]] = 0
  <1> DEFINE Zero(r) == \A k \in 1..Len(r) : f[r[k]] = 0
             T == {r \in Seq(S) : SumBy(f, r) = 0 <=> Zero(r)}
  <1>1. << >> \in T
    <2>1. << >> \in Seq(S) /\ Len(<< >>) = 0 /\ SumBy(f, << >>) = 0
      BY EmptySeq, ByEmpty
    <2> QED
      BY <2>1
  <1>2. ASSUME NEW r \in Seq(S), NEW x \in S, r \in T PROVE Append(r, x) \in T
    <2>1. SumBy(f, Append(r, x)) = SumBy(f, r) + f[x]
      BY ByAppend
    <2>2. SumBy(f, r) \in Nat /\ f[x] \in Nat
      BY ByNat
    <2>3. SumBy(f, Append(r, x)) = 0 <=> SumBy(f, r) = 0 /\ f[x] = 0
      BY <2>1, <2>2
    <2>4. Len(r) \in Nat /\ Append(r, x) \in Seq(S) /\ Len(Append(r, x)) = Len(r) + 1
      BY LenProperties, AppendProperties
    <2>5. Append(r, x)[Len(r) + 1] = x /\ \A k \in 1..Len(r) : Append(r, x)[k] = r[k]
      BY AppendProperties
    <2>6. Zero(Append(r, x)) <=> Zero(r) /\ f[x] = 0
      BY <2>4, <2>5
    <2> HIDE DEF Zero
    <2> QED
      BY <1>2, <2>3, <2>4, <2>6
  <1>3. \A r \in Seq(S), x \in S : r \in T => Append(r, x) \in T
    BY <1>2
  <1> HIDE DEF T
  <1>4. \A r \in Seq(S) : r \in T
    BY <1>1, <1>3, SeqInduct
  <1> QED
    BY <1>4 DEF T

\* A sum is that of what a sequence starts with and of the rest.
LEMMA ByParts ==
  ASSUME NEW S, NEW f \in [S -> Nat], NEW s \in Seq(S), NEW n \in 0..Len(s)
  PROVE  SumBy(f, s) = SumBy(f, SubSeq(s, 1, n)) + SumBy(f, SubSeq(s, n + 1, Len(s)))
  <1> DEFINE l == SubSeq(s, 1, n)
             r == SubSeq(s, n + 1, Len(s))
  <1>1. l \in Seq(S) /\ r \in Seq(S)
    OBVIOUS
  <1>2. l \o r = s
    <2>1. Len(s) \in Nat /\ 1 \in 1..(Len(s) + 1) /\ n \in (1 - 1)..Len(s) /\ Len(s) \in n..Len(s)
      BY LenProperties
    <2>2. l \o r = SubSeq(s, 1, Len(s))
      BY <2>1, ConcatAdjacentSubSeq
    <2> QED
      BY <2>2, SubSeqFull
  <1> HIDE DEF l, r
  <1>3. SumBy(f, l \o r) = SumBy(f, l) + SumBy(f, r)
    BY <1>1, ByConcat
  <1> QED
    BY <1>2, <1>3 DEF l, r

-----------------------------------------------------------------------------
(* Sums of changed, scaled and cut sequences *)

\* s with v in place j.
Put(s, j, v) == [k \in DOMAIN s |-> IF k = j THEN v ELSE s[k]]

\* Another element in one place of a sequence.
LEMMA PutSeq ==
  ASSUME NEW S, NEW s \in Seq(S), NEW j \in 1..Len(s), NEW v \in S
  PROVE  Put(s, j, v) \in Seq(S) /\ Len(Put(s, j, v)) = Len(s)
  <1>1. Len(s) \in Nat /\ DOMAIN s = 1..Len(s) /\ \A k \in 1..Len(s) : s[k] \in S
    BY LenProperties, ElementOfSeq
  <1> QED
    BY <1>1 DEF Put

\* What is in its places.
LEMMA PutAt ==
  ASSUME NEW S, NEW s \in Seq(S), NEW j \in 1..Len(s), NEW v
  PROVE  \A k \in 1..Len(s) : Put(s, j, v)[k] = IF k = j THEN v ELSE s[k]
  <1>1. DOMAIN s = 1..Len(s)
    BY LenProperties
  <1> QED
    BY <1>1 DEF Put

\* Another element in the last place.
LEMMA PutLast ==
  ASSUME NEW S, NEW r \in Seq(S), NEW x \in S, NEW v \in S
  PROVE  Put(Append(r, x), Len(r) + 1, v) = Append(r, v)
  <1> DEFINE n == Len(r)
             a == Append(r, x)
             l == Put(a, n + 1, v)
             q == Append(r, v)
  <1>1. n \in Nat /\ a \in Seq(S) /\ Len(a) = n + 1 /\ \A k \in 1..n : a[k] = r[k]
    BY AppendProperties, LenProperties
  <1>2. q \in Seq(S) /\ Len(q) = n + 1 /\ q[n + 1] = v /\ \A k \in 1..n : q[k] = r[k]
    BY AppendProperties
  <1> HIDE DEF a, n, q
  <1>3. n + 1 \in 1..Len(a)
    BY <1>1
  <1>4. l \in Seq(S) /\ Len(l) = Len(a)
    BY <1>1, <1>3, PutSeq
  <1>5. \A k \in 1..Len(a) : l[k] = IF k = n + 1 THEN v ELSE a[k]
    BY <1>1, <1>3, PutAt
  <1> HIDE DEF l
  <1>6. \A k \in 1..(n + 1) : l[k] = q[k]
    BY <1>1, <1>2, <1>5
  <1>7. l = q
    BY <1>1, <1>2, <1>4, <1>6, SeqEqual
  <1> QED
    BY <1>7 DEF l, q, a, n

\* Another element in a place before the last.
LEMMA PutEarlier ==
  ASSUME NEW S, NEW r \in Seq(S), NEW x \in S, NEW v \in S, NEW j \in 1..Len(r)
  PROVE  Put(Append(r, x), j, v) = Append(Put(r, j, v), x)
  <1> DEFINE n == Len(r)
             a == Append(r, x)
             l == Put(a, j, v)
             m == Put(r, j, v)
             q == Append(m, x)
  <1>1. n \in Nat /\ a \in Seq(S) /\ Len(a) = n + 1 /\ a[n + 1] = x /\ \A k \in 1..n : a[k] = r[k]
    BY AppendProperties, LenProperties
  <1>2. m \in Seq(S) /\ Len(m) = n
    BY PutSeq
  <1>3. \A k \in 1..n : m[k] = IF k = j THEN v ELSE r[k]
    BY PutAt
  <1>4. j \in 1..n
    OBVIOUS
  <1> HIDE DEF a, n, m
  <1>5. q \in Seq(S) /\ Len(q) = n + 1 /\ q[n + 1] = x /\ \A k \in 1..n : q[k] = m[k]
    BY <1>2, AppendProperties
  <1>6. j \in 1..Len(a)
    BY <1>1, <1>4
  <1>7. l \in Seq(S) /\ Len(l) = Len(a)
    BY <1>1, <1>6, PutSeq
  <1>8. \A k \in 1..Len(a) : l[k] = IF k = j THEN v ELSE a[k]
    BY <1>1, <1>6, PutAt
  <1> HIDE DEF l, q
  <1>9. \A k \in 1..(n + 1) : l[k] = q[k]
    BY <1>1, <1>3, <1>4, <1>5, <1>8
  <1>10. l = q
    BY <1>1, <1>5, <1>7, <1>9, SeqEqual
  <1> QED
    BY <1>10 DEF l, q, a, m

\* The sum of s changes by as much as the number in one place.
Follow(s) == \A i \in 1..Len(s) : \A u \in Nat : SumOf(Put(s, i, u)) + s[i] = SumOf(s) + u

\* So it is with one number more.
LEMMA FollowMore ==
  ASSUME NEW r \in Seq(Nat), NEW x \in Nat, Follow(r)
  PROVE  Follow(Append(r, x))
  <1> DEFINE n == Len(r)
             a == Append(r, x)
  <1>1. n \in Nat /\ a \in Seq(Nat) /\ Len(a) = n + 1 /\ a[n + 1] = x /\ \A k \in 1..n : a[k] = r[k]
    BY AppendProperties, LenProperties
  <1>2. \A u \in Nat : Put(a, n + 1, u) = Append(r, u)
    BY PutLast
  <1>3. \A u \in Nat : \A i \in 1..n : Put(a, i, u) = Append(Put(r, i, u), x)
    BY PutEarlier
  <1>4. \A u \in Nat : \A i \in 1..n : Put(r, i, u) \in Seq(Nat)
    BY PutSeq
  <1>5. \A q \in Seq(Nat) : \A u \in Nat : SumOf(Append(q, u)) = SumOf(q) + u /\ SumOf(q) \in Nat
    BY SumAppend, SumNat
  <1>6. SumOf(a) = SumOf(r) + x
    BY <1>5
  <1>7. \A i \in 1..n : r[i] \in Nat
    BY ElementOfSeq
  <1>8. \A i \in 1..n : \A u \in Nat : SumOf(Put(r, i, u)) + r[i] = SumOf(r) + u
    BY DEF Follow
  <1> HIDE DEF n, a
  <1>9. ASSUME NEW i \in 1..(n + 1), NEW u \in Nat
        PROVE  SumOf(Put(a, i, u)) + a[i] = SumOf(a) + u
    <2>1. CASE i = n + 1
      <3>1. SumOf(Put(a, i, u)) = SumOf(r) + u
        BY <1>2, <1>5, <2>1
      <3>2. a[i] = x /\ SumOf(r) \in Nat
        BY <1>1, <1>5, <2>1
      <3> QED
        BY <3>1, <3>2, <1>6
    <2>2. CASE i \in 1..n
      <3>1. SumOf(Put(a, i, u)) = SumOf(Put(r, i, u)) + x /\ SumOf(Put(r, i, u)) \in Nat
        BY <1>3, <1>4, <1>5, <2>2
      <3>2. a[i] = r[i] /\ r[i] \in Nat /\ SumOf(r) \in Nat
        BY <1>1, <1>5, <1>7, <2>2
      <3>3. SumOf(Put(r, i, u)) + r[i] = SumOf(r) + u
        BY <1>8, <2>2
      <3>4. \A y, z, w \in Nat : y + z = w + u => (y + x) + z = (w + x) + u
        OBVIOUS
      <3>5. (SumOf(Put(r, i, u)) + x) + r[i] = (SumOf(r) + x) + u
        BY <3>1, <3>2, <3>3, <3>4
      <3> QED
        BY <3>1, <3>2, <3>5, <1>6
    <2> QED
      BY <1>1, <2>1, <2>2
  <1>10. \A i \in 1..Len(a) : \A u \in Nat : SumOf(Put(a, i, u)) + a[i] = SumOf(a) + u
    BY <1>1, <1>9
  <1> QED
    BY <1>10 DEF Follow, a

\* So it is with every sequence.
LEMMA SumReplaced ==
  ASSUME NEW s \in Seq(Nat), NEW j \in 1..Len(s), NEW v \in Nat
  PROVE  SumOf(Put(s, j, v)) + s[j] = SumOf(s) + v
  <1> DEFINE T == {r \in Seq(Nat) : Follow(r)}
  <1>1. << >> \in T
    <2>1. << >> \in Seq(Nat) /\ Len(<< >>) = 0
      OBVIOUS
    <2> QED
      BY <2>1 DEF Follow
  <1>2. \A r \in Seq(Nat), x \in Nat : r \in T => Append(r, x) \in T
    BY FollowMore, AppendProperties
  <1> HIDE DEF T
  <1>3. \A r \in Seq(Nat) : r \in T
    BY <1>1, <1>2, SeqInduct
  <1>4. Follow(s)
    BY <1>3 DEF T
  <1> QED
    BY <1>4 DEF Follow

\* One number is no more than the sum.
LEMMA SumMember ==
  ASSUME NEW s \in Seq(Nat), NEW j \in 1..Len(s)
  PROVE  s[j] \in Nat /\ s[j] <= SumOf(s)
  <1>1. SumOf(Put(s, j, 0)) + s[j] = SumOf(s) + 0
    BY SumReplaced
  <1>2. Put(s, j, 0) \in Seq(Nat) /\ s[j] \in Nat
    BY PutSeq, ElementOfSeq
  <1>3. SumOf(Put(s, j, 0)) \in Nat /\ SumOf(s) \in Nat
    BY <1>2, SumNat
  <1> QED
    BY <1>1, <1>2, <1>3

\* The sum of a sequence's first k numbers.
SumTo(s, k) == SumOf(SubSeq(s, 1, k))

\* The first numbers of a sequence, one at a time.
LEMMA OneMore ==
  ASSUME NEW S
  PROVE  \A s \in Seq(S) :
            /\ SubSeq(s, 1, 0) = << >>
            /\ SubSeq(s, 1, Len(s)) = s
            /\ \A k \in 0..Len(s) : SubSeq(s, 1, k) \in Seq(S) /\ Len(SubSeq(s, 1, k)) = k
            /\ \A k \in 0..(Len(s) - 1) : SubSeq(s, 1, k + 1) = Append(SubSeq(s, 1, k), s[k + 1])
  OBVIOUS

\* A sum, one number at a time.
LEMMA SumToIs ==
  ASSUME NEW s \in Seq(Nat)
  PROVE  /\ SumTo(s, 0) = 0
         /\ SumTo(s, Len(s)) = SumOf(s)
         /\ \A k \in 0..Len(s) : SumTo(s, k) \in Nat
         /\ \A k \in 0..(Len(s) - 1) : s[k + 1] \in Nat /\ SumTo(s, k + 1) = SumTo(s, k) + s[k + 1]
  <1>1. SumTo(s, 0) = 0
    BY OneMore, SumEmpty DEF SumTo
  <1>2. SumTo(s, Len(s)) = SumOf(s)
    BY OneMore DEF SumTo
  <1>3. \A k \in 0..Len(s) : SumTo(s, k) \in Nat
    BY OneMore, SumNat DEF SumTo
  <1>4. ASSUME NEW k \in 0..(Len(s) - 1)
        PROVE  s[k + 1] \in Nat /\ SumTo(s, k + 1) = SumTo(s, k) + s[k + 1]
    <2>1. k \in 0..Len(s) /\ k + 1 \in 1..Len(s)
      BY LenProperties
    <2>2. s[k + 1] \in Nat
      BY <2>1, ElementOfSeq
    <2>3. SubSeq(s, 1, k) \in Seq(Nat)
      BY <2>1, OneMore
    <2>4. SubSeq(s, 1, k + 1) = Append(SubSeq(s, 1, k), s[k + 1])
      BY OneMore
    <2> QED
      BY <2>2, <2>3, <2>4, SumAppend DEF SumTo
  <1> QED
    BY <1>1, <1>2, <1>3, <1>4

\* Products of sums.
LEMMA Spread ==
  ASSUME NEW x \in Nat, NEW y \in Nat, NEW a \in Nat, NEW z \in Nat, NEW w \in Nat, NEW b \in Nat,
         x * a <= z * b, y * a <= w * b
  PROVE  (x + y) * a <= (z + w) * b
  <1>1. (x + y) * a = x * a + y * a /\ (z + w) * b = z * b + w * b
    OBVIOUS
  <1>2. x * a \in Nat /\ y * a \in Nat /\ z * b \in Nat /\ w * b \in Nat
    OBVIOUS
  <1> QED
    BY <1>1, <1>2

\* If each number of s times a is at most that of t times b, so are the sums.
LEMMA SumScaled ==
  ASSUME NEW s \in Seq(Nat), NEW t \in Seq(Nat), Len(s) = Len(t), NEW a \in Nat, NEW b \in Nat,
         \A k \in 1..Len(s) : s[k] * a <= t[k] * b
  PROVE  SumOf(s) * a <= SumOf(t) * b
  <1> DEFINE n == Len(s)
             T == {k \in 0..n : SumTo(s, k) * a <= SumTo(t, k) * b}
  <1>1. n \in Nat
    BY LenProperties
  <1>2. 0 \in T
    BY <1>1, SumToIs
  <1>3. ASSUME NEW k \in 0..(n - 1), k \in T PROVE k + 1 \in T
    <2>1. k \in 0..n /\ k + 1 \in 1..n /\ k + 1 \in 0..n
      BY <1>1
    <2>2. /\ s[k + 1] \in Nat /\ SumTo(s, k + 1) = SumTo(s, k) + s[k + 1] /\ SumTo(s, k) \in Nat
          /\ t[k + 1] \in Nat /\ SumTo(t, k + 1) = SumTo(t, k) + t[k + 1] /\ SumTo(t, k) \in Nat
      BY <2>1, SumToIs
    <2>3. SumTo(s, k) * a <= SumTo(t, k) * b /\ s[k + 1] * a <= t[k + 1] * b
      BY <1>3, <2>1
    <2>4. (SumTo(s, k) + s[k + 1]) * a <= (SumTo(t, k) + t[k + 1]) * b
      BY <2>2, <2>3, Spread
    <2> QED
      BY <2>1, <2>2, <2>4
  <1>4. \A k \in 0..(n - 1) : k \in T => k + 1 \in T
    BY <1>3
  <1> HIDE DEF T
  <1>5. \A k \in 0..n : k \in T
    BY <1>1, <1>2, <1>4, UpTo
  <1>6. n \in T
    BY <1>1, <1>5
  <1>7. SumTo(s, n) * a <= SumTo(t, n) * b
    BY <1>6 DEF T
  <1> QED
    BY <1>7, SumToIs

-----------------------------------------------------------------------------
(* Products and quotients *)

\* A quotient, rounded down.
LEMMA Quotient ==
  ASSUME NEW a \in Nat, NEW b \in Nat, b > 0
  PROVE  a \div b \in Nat /\ (a \div b) * b <= a
  OBVIOUS

\* Multiplying keeps the order.
LEMMA TimesMore ==
  ASSUME NEW x \in Nat, NEW y \in Nat, NEW c \in Nat, x <= y
  PROVE  x * c \in Nat /\ y * c \in Nat /\ x * c <= y * c /\ c * x <= c * y
  <1>1. PICK d \in Nat : y = x + d
    <2>1. y - x \in Nat /\ y = x + (y - x)
      OBVIOUS
    <2> QED
      BY <2>1
  <1>2. (x + d) * c = x * c + d * c /\ x * c \in Nat /\ d * c \in Nat
    OBVIOUS
  <1>3. c * x = x * c /\ c * y = y * c
    OBVIOUS
  <1> QED
    BY <1>1, <1>2, <1>3

\* And so does dividing.
LEMMA TimesLess ==
  ASSUME NEW x \in Nat, NEW y \in Nat, NEW c \in Nat, c > 0, x * c <= y * c
  PROVE  x <= y
  <1> SUFFICES ASSUME y + 1 <= x PROVE FALSE
    OBVIOUS
  <1>1. (y + 1) * c <= x * c
    BY TimesMore
  <1>2. (y + 1) * c = y * c + c /\ y * c \in Nat /\ x * c \in Nat
    OBVIOUS
  <1> QED
    BY <1>1, <1>2

-----------------------------------------------------------------------------
(* Sums of what a function makes of the elements *)

\* One element replaced.
LEMMA ByPut ==
  ASSUME NEW S, NEW f \in [S -> Nat], NEW s \in Seq(S), NEW j \in 1..Len(s), NEW v \in S
  PROVE  SumBy(f, Put(s, j, v)) + f[s[j]] = SumBy(f, s) + f[v]
  <1> DEFINE n == Len(s)
             m == [k \in DOMAIN s |-> f[s[k]]]
             t == Put(s, j, v)
             l == [k \in DOMAIN t |-> f[t[k]]]
             w == f[v]
             r == Put(m, j, w)
  <1>1. n \in Nat /\ DOMAIN s = 1..n /\ j \in 1..n /\ w \in Nat
    BY LenProperties
  <1>2. m \in Seq(Nat) /\ Len(m) = n
    BY MapSeq
  <1>3. \A k \in 1..n : m[k] = f[s[k]]
    BY <1>1
  <1>4. t \in Seq(S) /\ Len(t) = n
    BY PutSeq
  <1>5. \A k \in 1..n : t[k] = IF k = j THEN v ELSE s[k]
    BY PutAt
  <1> HIDE DEF t, m
  <1>6. DOMAIN t = 1..n
    BY <1>4, LenProperties
  <1>7. l \in Seq(Nat) /\ Len(l) = n
    BY <1>4, MapSeq
  <1>8. \A k \in 1..n : l[k] = f[t[k]]
    BY <1>6
  <1> HIDE DEF n, w
  <1>9. j \in 1..Len(m)
    BY <1>1, <1>2
  <1>10. r \in Seq(Nat) /\ Len(r) = Len(m)
    <2>1. m \in Seq(Nat) /\ w \in Nat
      BY <1>1, <1>2
    <2>2. \A x \in Nat : Put(m, j, x) \in Seq(Nat) /\ Len(Put(m, j, x)) = Len(m)
      BY <2>1, <1>9, PutSeq
    <2> QED
      BY <2>1, <2>2
  <1>11. \A k \in 1..Len(m) : r[k] = IF k = j THEN w ELSE m[k]
    BY <1>2, <1>9, PutAt
  <1> HIDE DEF l, r
  <1>12. \A k \in 1..n : l[k] = r[k]
    <2> TAKE k \in 1..n
    <2>1. l[k] = f[t[k]] /\ m[k] = f[s[k]]
      BY <1>3, <1>8
    <2>2. t[k] = (IF k = j THEN v ELSE s[k]) /\ r[k] = (IF k = j THEN w ELSE m[k])
      BY <1>2, <1>5, <1>11
    <2>3. CASE k = j
      BY <2>1, <2>2, <2>3 DEF w
    <2>4. CASE k # j
      BY <2>1, <2>2, <2>4
    <2> QED
      BY <2>3, <2>4
  <1>13. l = r
    BY <1>2, <1>7, <1>10, <1>12, SeqEqual
  <1>14. SumOf(r) + m[j] = SumOf(m) + w
    BY <1>1, <1>2, <1>9, SumReplaced DEF r
  <1>15. m[j] = f[s[j]]
    BY <1>1, <1>3
  <1>16. SumBy(f, t) = SumOf(l) /\ SumBy(f, s) = SumOf(m)
    BY DEF SumBy, l, m
  <1> QED
    BY <1>13, <1>14, <1>15, <1>16 DEF t, w

\* One element is no more than all.
LEMMA ByMember ==
  ASSUME NEW S, NEW f \in [S -> Nat], NEW s \in Seq(S), NEW j \in 1..Len(s)
  PROVE  f[s[j]] \in Nat /\ f[s[j]] <= SumBy(f, s)
  <1> DEFINE m == [k \in DOMAIN s |-> f[s[k]]]
  <1>1. m \in Seq(Nat) /\ Len(m) = Len(s)
    BY MapSeq
  <1>2. m[j] = f[s[j]]
    BY LenProperties
  <1>3. SumBy(f, s) = SumOf(m)
    BY DEF SumBy
  <1> HIDE DEF m
  <1>4. m[j] \in Nat /\ m[j] <= SumOf(m)
    BY <1>1, SumMember
  <1> QED
    BY <1>2, <1>3, <1>4

-----------------------------------------------------------------------------
(* Least and greatest *)

\* The greatest of naturals that have a bound.
LEMMA GreatestOf ==
  ASSUME NEW T \in SUBSET Nat, T # {}, NEW b \in Nat, \A x \in T : x <= b
  PROVE  \E m \in T : \A x \in T : x <= m
  <1> DEFINE D == {d \in Nat : \E x \in T : d = b - x}
  <1>1. D \in SUBSET Nat /\ D # {}
    <2>1. PICK x \in T : TRUE
      OBVIOUS
    <2>2. b - x \in Nat
      BY <2>1
    <2> QED
      BY <2>1, <2>2
  <1>2. PICK d \in D : \A e \in D : d <= e
    BY <1>1, LeastOf
  <1>3. PICK m \in T : d = b - m
    BY <1>2
  <1>4. ASSUME NEW x \in T PROVE x <= m
    <2>1. b - x \in D
      BY <1>4
    <2>2. b - m <= b - x
      BY <1>2, <1>3, <2>1
    <2> QED
      BY <2>2, <1>3
  <1> QED
    BY <1>3, <1>4
=============================================================================
