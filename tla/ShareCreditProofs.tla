------------------------- MODULE ShareCreditProofs -------------------------
(***************************************************************************)
(* Proofs about ShareCredit, for any number of sessions, shares, heights   *)
(* and restarts and any caps: a run of the process credits no share twice, *)
(* pruning forgets nothing the staleness test still lets through, the set  *)
(* keeps within its caps, and what is recorded gets its credit: on_pow     *)
(* refuses nothing once it has recorded it.                                *)
(***************************************************************************)
EXTENDS ShareCredit, FiniteSetTheorems, TLAPS

-----------------------------------------------------------------------------
(* Finite sets *)

\* Taking a part off a finite set takes the part's size off its size.
LEMMA PrunedSize ==
  ASSUME NEW S, IsFiniteSet(S), NEW T, T \subseteq S
  PROVE  /\ IsFiniteSet(S \ T)
         /\ Cardinality(T) \in 0..Cardinality(S)
         /\ Cardinality(S \ T) = Cardinality(S) - Cardinality(T)
  <1>1. IsFiniteSet(S \ T) /\ IsFiniteSet(T)
    BY FS_Subset
  <1>2. /\ Cardinality(S) \in Nat
        /\ Cardinality(T) \in Nat
        /\ Cardinality(S \ T) \in Nat
    BY <1>1, FS_CardinalityType
  <1>3. S \cap T = T
    OBVIOUS
  <1>4. Cardinality(S \ T) = Cardinality(S) - Cardinality(T)
    BY <1>3, FS_Difference
  <1>5. Cardinality(T) <= Cardinality(S)
    BY <1>2, <1>4
  <1>. QED  BY <1>1, <1>2, <1>4, <1>5

\* Sizes are natural numbers, and a part is no larger than the whole.
LEMMA PartSize ==
  ASSUME NEW S, IsFiniteSet(S), NEW T, T \subseteq S
  PROVE  IsFiniteSet(T) /\ Cardinality(T) \in Nat /\ Cardinality(T) <= Cardinality(S)
  BY FS_Subset, FS_CardinalityType

-----------------------------------------------------------------------------
(* Types, and the size of the set of credited shares *)

\* total is a natural number only because it is the size of the set, and it
\* is the size of the set only because sessions hold shares.
BaseInv ==
    /\ TypeOK
    /\ HoldsShare
    /\ IsFiniteSet(seen)
    /\ SeenBounded

\* Prime starts with an empty set, so types and caps hold.
LEMMA BaseInit == Init => BaseInv
<1> SUFFICES ASSUME Init PROVE BaseInv
  OBVIOUS
<1> USE BoundAssumption, ShareAssumption
<1>1. TypeOK
  BY DEF Init, TypeOK, Heights, Stages, NoTip
<1>2. HoldsShare
  BY DEF Init, HoldsShare
<1>3. IsFiniteSet(seen) /\ Cardinality(seen) = 0
  BY FS_EmptySet DEF Init
<1>4. ASSUME NEW h \in Heights
      PROVE  Cardinality(At(seen, h)) <= MAX_PER_HEIGHT
  <2>1. At(seen, h) = {}
    BY DEF At, Init
  <2>. QED  BY <2>1, FS_EmptySet
<1>5. SeenBounded
  BY <1>3, <1>4 DEF SeenBounded, Init
<1>. QED  BY <1>1, <1>2, <1>3, <1>5 DEF BaseInv

\* Every step of sessions, poller, housekeeping and restart keeps types and
\* caps: insert tests both caps, prune_below takes off what it removes.
LEMMA BaseStep == BaseInv /\ [Next]_vars => BaseInv'
<1> SUFFICES ASSUME BaseInv, [Next]_vars
             PROVE  BaseInv'
  OBVIOUS
<1> USE BoundAssumption, ShareAssumption DEF BaseInv
<1>0. Cardinality(seen) \in Nat
  BY FS_CardinalityType
\* Most steps leave the set and its total alone.
<1>k. ASSUME UNCHANGED <<seen, total>>
      PROVE  IsFiniteSet(seen)' /\ SeenBounded'
  BY <1>k DEF SeenBounded, At
<1>1. ASSUME NEW s \in Sessions, NEW x \in Shares, NEW i \in Identities, Receive(s, x, i)
      PROVE  BaseInv'
  BY <1>1, <1>k DEF Receive, UsernameOk, TypeOK, HoldsShare, Stages
<1>2. ASSUME NEW s \in Sessions, CheckTip(s)
      PROVE  BaseInv'
  BY <1>2, <1>k DEF CheckTip, Receipt, TypeOK, HoldsShare, Stages
<1>3. ASSUME NEW s \in Sessions, VerifyFails(s)
      PROVE  BaseInv'
  BY <1>3, <1>k DEF VerifyFails, Receipt, TypeOK, HoldsShare, Stages
<1>4. ASSUME NEW s \in Sessions, Insert(s)
      PROVE  BaseInv'
  <2>1. CASE SeenInsert(share[s]) = "Fresh"
    <3>1. /\ share[s] \in Shares \ seen
          /\ ~(Cardinality(At(seen, HeightOf[share[s]])) >= MAX_PER_HEIGHT)
          /\ ~(total >= MAX_TOTAL)
      BY <1>4, <2>1 DEF Insert, HoldsShare, SeenInsert
    <3>2. IsFiniteSet(seen') /\ Cardinality(seen') = Cardinality(seen) + 1
      BY <1>4, <2>1, <3>1, FS_AddElement DEF Insert
    <3>3. ASSUME NEW h \in Heights
          PROVE  Cardinality(At(seen', h)) <= MAX_PER_HEIGHT
      <4>1. IsFiniteSet(At(seen, h)) /\ Cardinality(At(seen, h)) \in Nat
        BY PartSize DEF At
      <4>2. CASE HeightOf[share[s]] = h
        <5>1. At(seen', h) = At(seen, h) \cup {share[s]}
          BY <1>4, <2>1, <4>2 DEF Insert, At
        <5>2. share[s] \notin At(seen, h)
          BY <3>1 DEF At
        <5>3. Cardinality(At(seen', h)) = Cardinality(At(seen, h)) + 1
          BY <4>1, <5>1, <5>2, FS_AddElement
        <5>. QED  BY <3>1, <4>1, <4>2, <5>3
      <4>3. CASE HeightOf[share[s]] # h
        <5>1. At(seen', h) = At(seen, h)
          BY <1>4, <2>1, <4>3 DEF Insert, At
        <5>. QED  BY <5>1 DEF SeenBounded
      <4>. QED  BY <4>2, <4>3
    <3>4. SeenBounded'
      <4>1. total' = Cardinality(seen') /\ total' <= MAX_TOTAL
        BY <1>0, <1>4, <2>1, <3>1, <3>2 DEF Insert, SeenBounded
      <4>. QED  BY <3>3, <4>1 DEF SeenBounded, Heights
    <3>5. TypeOK'
      BY <1>4, <2>1, <3>1 DEF Insert, TypeOK, Stages
    <3>6. HoldsShare'
      BY <1>4, <2>1, <3>1 DEF Insert, HoldsShare, TypeOK
    <3>. QED  BY <3>2, <3>4, <3>5, <3>6
  <2>2. CASE SeenInsert(share[s]) # "Fresh"
    BY <1>4, <1>k, <2>2 DEF Insert, Receipt, TypeOK, HoldsShare, Stages
  <2>. QED  BY <2>1, <2>2
<1>5. ASSUME NEW s \in Sessions, Credit(s)
      PROVE  BaseInv'
  BY <1>5, <1>k DEF Credit, Receipt, TypeOK, HoldsShare, Stages
<1>6. ASSUME NEW h \in Heights, NewTip(h)
      PROVE  BaseInv'
  BY <1>6, <1>k DEF NewTip, TypeOK, HoldsShare
<1>7. CASE GraceEnds
  BY <1>7, <1>k DEF GraceEnds, TypeOK, HoldsShare
<1>8. CASE HouseRead
  BY <1>8, <1>k DEF HouseRead, TypeOK, HoldsShare
<1>9. CASE HousePrune
  <2> DEFINE min == KeepFrom(house)
             gone == Below(seen, min)
  <2>1. min \in Heights
    BY <1>9 DEF HousePrune, KeepFrom, TypeOK, Heights, NoTip
  <2>2. seen' = seen \ gone /\ total' = total - Cardinality(gone)
    BY <1>9 DEF HousePrune
  <2>3. /\ IsFiniteSet(seen')
        /\ Cardinality(gone) \in 0..Cardinality(seen)
        /\ Cardinality(seen') = Cardinality(seen) - Cardinality(gone)
    <3>1. gone \subseteq seen
      BY DEF Below
    <3>. QED  BY <2>2, <3>1, PrunedSize
  <2>4. total' \in Nat /\ total' = Cardinality(seen') /\ total' <= MAX_TOTAL
    BY <1>0, <2>2, <2>3 DEF SeenBounded
  <2>5. ASSUME NEW h \in Heights
        PROVE  Cardinality(At(seen', h)) <= MAX_PER_HEIGHT
    <3>1. At(seen', h) \subseteq At(seen, h)
      BY <2>2 DEF At
    <3>2. IsFiniteSet(At(seen, h))
      BY PartSize DEF At
    <3>3. /\ Cardinality(At(seen', h)) <= Cardinality(At(seen, h))
          /\ Cardinality(At(seen', h)) \in Nat
          /\ Cardinality(At(seen, h)) \in Nat
      BY <3>1, <3>2, PartSize, FS_CardinalityType
    <3>. QED  BY <3>3 DEF SeenBounded
  <2>6. TypeOK'
    BY <1>9, <2>1, <2>2, <2>4 DEF HousePrune, TypeOK, Heights
  <2>7. HoldsShare'
    BY <1>9 DEF HousePrune, HoldsShare
  <2>. QED  BY <2>3, <2>4, <2>5, <2>6, <2>7 DEF SeenBounded, Heights
<1>10. CASE Restart
  <2>1. TypeOK'
    BY <1>10 DEF Restart, TypeOK, Heights, Stages, NoTip
  <2>2. HoldsShare'
    BY <1>10 DEF Restart, HoldsShare
  <2>3. IsFiniteSet(seen') /\ Cardinality(seen') = 0
    BY <1>10, FS_EmptySet DEF Restart
  <2>4. ASSUME NEW h \in Heights
        PROVE  Cardinality(At(seen', h)) <= MAX_PER_HEIGHT
    <3>1. At(seen', h) = {}
      BY <1>10 DEF Restart, At
    <3>. QED  BY <3>1, FS_EmptySet
  <2>5. SeenBounded'
    BY <1>10, <2>3, <2>4 DEF Restart, SeenBounded, Heights
  <2>. QED  BY <2>1, <2>2, <2>3, <2>5
<1>11. CASE UNCHANGED vars
  BY <1>11, <1>k DEF vars, TypeOK, HoldsShare
<1>. QED
  BY <1>1, <1>2, <1>3, <1>4, <1>5, <1>6, <1>7, <1>8, <1>9, <1>10, <1>11
     DEF Next, OnPow

\* Every variable keeps its type in every behaviour of Prime's share path.
THEOREM TypeCorrect == Spec => []TypeOK
<1>1. BaseInv => TypeOK
  BY DEF BaseInv
<1>. QED  BY BaseInit, BaseStep, <1>1, PTL DEF Spec

\* SeenShares::total counts the set exactly and neither cap is passed,
\* whatever the caps are.
THEOREM SeenWithinCaps == Spec => []SeenBounded
<1>1. BaseInv => SeenBounded
  BY DEF BaseInv
<1>. QED  BY BaseInit, BaseStep, <1>1, PTL DEF Spec

-----------------------------------------------------------------------------
(* No share is credited twice *)

\* Nothing is in flight, recorded or credited when Prime starts.
LEMMA CreditInit == Init => CreditInv
<1> SUFFICES ASSUME Init PROVE CreditInv
  OBVIOUS
<1>1. TypeOK /\ HoldsShare
  BY BaseInit DEF BaseInv
<1>2. TipInv
  BY MarginAssumption DEF Init, TipInv, NoTip, KeepFrom
<1>3. FlightInv /\ InsertedInv
  BY DEF Init, FlightInv, InsertedInv
<1>4. CreditedInv /\ SeenIsCredited
  BY DEF Init, CreditedInv, SeenIsCredited
<1>. QED  BY <1>1, <1>2, <1>3, <1>4 DEF CreditInv

\* A share the staleness test lets through is at most as old as the tip it
\* was tested against.
LEMMA PassedIsRecent ==
  ASSUME NEW h \in Nat, NEW t \in Nat, NEW g, ~Stale(h, t, g)
  PROVE  h >= t
  BY DEF Stale, NoTip

\* Every step keeps a recorded share recorded until its height is below the
\* floor, where the staleness test refuses it.
LEMMA CreditStep == BaseInv /\ CreditInv /\ [Next]_vars => CreditInv'
<1> SUFFICES ASSUME BaseInv, CreditInv, [Next]_vars
             PROVE  CreditInv'
  OBVIOUS
<1> USE MarginAssumption, BoundAssumption, ShareAssumption
<1>0. TypeOK' /\ HoldsShare' /\ TypeOK /\ HoldsShare
  BY BaseStep DEF BaseInv
\* Most steps take no share off the sessions that are about to credit one.
<1>h. ASSUME UNCHANGED <<seen, credited>>,
             \A r \in Sessions : stage[r] = "inserted" =>
                 stage'[r] = "inserted" /\ share'[r] = share[r]
      PROVE  SeenIsCredited'
  BY <1>h DEF CreditInv, SeenIsCredited
<1>1. ASSUME NEW s \in Sessions, NEW x \in Shares, NEW i \in Identities, Receive(s, x, i)
      PROVE  CreditInv'
  <2> USE <1>0, <1>1 DEF Receive, TypeOK
  <2>1. TipInv'
    BY DEF CreditInv, TipInv, KeepFrom
  <2>2. FlightInv'
    BY DEF CreditInv, FlightInv, KeepFrom
  <2>3. InsertedInv'
    BY DEF CreditInv, InsertedInv
  <2>4. CreditedInv'
    BY DEF CreditInv, CreditedInv
  <2>5. SeenIsCredited'
    BY <1>h
  <2>. QED  BY <2>1, <2>2, <2>3, <2>4, <2>5 DEF CreditInv
<1>2. ASSUME NEW s \in Sessions, CheckTip(s)
      PROVE  CreditInv'
  <2>1. TipInv'
    BY <1>2 DEF CheckTip, CreditInv, TipInv, KeepFrom
  <2>2. FlightInv'
    <3> SUFFICES ASSUME NEW r \in Sessions, stage'[r] = "checked"
                 PROVE  /\ checked'[r] # NoTip => HeightOf[share'[r]] >= checked'[r]
                        /\ HeightOf[share'[r]] >= floor
                        /\ house # NoTip => HeightOf[share'[r]] >= KeepFrom(house)
      BY <1>2 DEF CheckTip, FlightInv, KeepFrom
    <3>1. CASE r # s
      BY <1>0, <1>2, <3>1 DEF CheckTip, Receipt, CreditInv, FlightInv, TypeOK
    <3>2. CASE r = s
      <4>1. /\ ~Stale(HeightOf[share[s]], tip, grace)
            /\ share'[s] = share[s]
            /\ checked'[s] = tip
            /\ share[s] \in Shares
        BY <1>0, <1>2, <3>2 DEF CheckTip, Receipt, TypeOK, HoldsShare
      <4>2. HeightOf[share[s]] \in Nat
        BY <4>1
      <4>3. CASE tip = NoTip
        \* No tip yet: nothing was pruned and housekeeping holds none.
        BY <4>1, <4>2, <4>3, <3>2, <1>0
           DEF CreditInv, TipInv, KeepFrom, NoTip, TypeOK, Heights
      <4>4. CASE tip # NoTip
        <5>1. HeightOf[share[s]] >= tip
          BY <4>1, <4>2, <4>4, <1>0, PassedIsRecent DEF TypeOK, Heights
        <5>. QED
          BY <4>1, <4>2, <4>4, <5>1, <3>2, <1>0
             DEF CreditInv, TipInv, KeepFrom, NoTip, TypeOK, Heights
      <4>. QED  BY <4>3, <4>4
    <3>. QED  BY <3>1, <3>2
  <2>3. InsertedInv'
    BY <1>0, <1>2 DEF CheckTip, Receipt, CreditInv, InsertedInv, TypeOK
  <2>4. CreditedInv'
    BY <1>2 DEF CheckTip, CreditInv, CreditedInv
  <2>5. SeenIsCredited'
    BY <1>0, <1>2, <1>h DEF CheckTip, Receipt, TypeOK
  <2>. QED  BY <1>0, <2>1, <2>2, <2>3, <2>4, <2>5 DEF CreditInv
<1>3. ASSUME NEW s \in Sessions, VerifyFails(s)
      PROVE  CreditInv'
  <2> USE <1>0, <1>3 DEF VerifyFails, Receipt, TypeOK
  <2>1. TipInv'
    BY DEF CreditInv, TipInv, KeepFrom
  <2>2. FlightInv'
    BY DEF CreditInv, FlightInv, KeepFrom
  <2>3. InsertedInv'
    BY DEF CreditInv, InsertedInv
  <2>4. CreditedInv'
    BY DEF CreditInv, CreditedInv
  <2>5. SeenIsCredited'
    BY <1>h
  <2>. QED  BY <2>1, <2>2, <2>3, <2>4, <2>5 DEF CreditInv
<1>4. ASSUME NEW s \in Sessions, Insert(s)
      PROVE  CreditInv'
  <2>1. TipInv'
    BY <1>4 DEF Insert, CreditInv, TipInv, KeepFrom
  <2>2. FlightInv'
    BY <1>0, <1>4 DEF Insert, Receipt, CreditInv, FlightInv, KeepFrom, TypeOK
  <2>3. InsertedInv'
    <3>1. CASE SeenInsert(share[s]) = "Fresh"
      <4>1. /\ share[s] \in Shares
            /\ share[s] \notin seen
            /\ HeightOf[share[s]] >= floor
            /\ HeightOf[share[s]] \in Nat
        BY <1>0, <1>4, <3>1 DEF Insert, SeenInsert, HoldsShare, CreditInv, FlightInv
      <4>2. ~(HeightOf[share[s]] < floor)
        BY <4>1, <1>0 DEF TypeOK, Heights
      \* Not in the set and not pruned: nobody has it, nobody credited it.
      <4>3. credited[share[s]] = 0
        BY <4>1, <4>2, <1>0 DEF CreditInv, CreditedInv, TypeOK
      <4>4. \A r \in Sessions : stage[r] = "inserted" => share[r] # share[s]
        BY <4>1, <4>2 DEF CreditInv, InsertedInv
      <4>. QED
        BY <4>1, <4>3, <4>4, <1>0, <1>4, <3>1
           DEF Insert, CreditInv, InsertedInv, TypeOK
    <3>2. CASE SeenInsert(share[s]) # "Fresh"
      BY <1>0, <1>4, <3>2 DEF Insert, Receipt, CreditInv, InsertedInv, TypeOK
    <3>. QED  BY <3>1, <3>2
  <2>4. CreditedInv'
    BY <1>4 DEF Insert, CreditInv, CreditedInv
  <2>5. SeenIsCredited'
    <3>1. CASE SeenInsert(share[s]) = "Fresh"
      BY <1>0, <1>4, <3>1 DEF Insert, CreditInv, SeenIsCredited, TypeOK
    <3>2. CASE SeenInsert(share[s]) # "Fresh"
      BY <1>0, <1>4, <1>h, <3>2 DEF Insert, Receipt, TypeOK
    <3>. QED  BY <3>1, <3>2
  <2>. QED  BY <1>0, <2>1, <2>2, <2>3, <2>4, <2>5 DEF CreditInv
<1>5. ASSUME NEW s \in Sessions, Credit(s)
      PROVE  CreditInv'
  \* The identity was checked when the share came in: the credit is made.
  <2>0. /\ credited' = [credited EXCEPT ![share[s]] = credited[share[s]] + 1]
        /\ share[s] \in Shares
    BY <1>0, <1>5 DEF Credit, HoldsShare
  <2>1. TipInv'
    BY <1>5 DEF Credit, CreditInv, TipInv, KeepFrom
  <2>2. FlightInv'
    BY <1>0, <1>5 DEF Credit, Receipt, CreditInv, FlightInv, KeepFrom, TypeOK
  <2>3. InsertedInv'
    BY <1>0, <1>5, <2>0 DEF Credit, Receipt, CreditInv, InsertedInv, TypeOK, HoldsShare
  <2>4. CreditedInv'
    BY <1>0, <1>5, <2>0 DEF Credit, Receipt, CreditInv, InsertedInv, CreditedInv, TypeOK
  <2>5. SeenIsCredited'
    <3> SUFFICES ASSUME NEW x \in seen
                 PROVE  \/ credited'[x] > 0
                        \/ \E r \in Sessions : stage'[r] = "inserted" /\ share'[r] = x
      BY <1>5 DEF Credit, SeenIsCredited
    <3>1. CASE x = share[s]
      BY <1>0, <2>0, <3>1 DEF TypeOK
    <3>2. CASE x # share[s]
      <4>1. credited'[x] = credited[x]
        BY <1>0, <2>0, <3>2 DEF TypeOK
      <4>2. \A r \in Sessions \ {s} : stage'[r] = stage[r] /\ share'[r] = share[r]
        BY <1>0, <1>5 DEF Credit, Receipt, TypeOK
      <4>. QED  BY <3>2, <4>1, <4>2 DEF CreditInv, SeenIsCredited
    <3>. QED  BY <3>1, <3>2
  <2>. QED  BY <1>0, <2>1, <2>2, <2>3, <2>4, <2>5 DEF CreditInv
<1>6. ASSUME NEW h \in Heights, NewTip(h)
      PROVE  CreditInv'
  <2>1. TipInv'
    BY <1>0, <1>6 DEF NewTip, CreditInv, TipInv, KeepFrom, TypeOK, Heights, NoTip
  <2>2. FlightInv' /\ InsertedInv' /\ CreditedInv'
    BY <1>6 DEF NewTip, CreditInv, FlightInv, InsertedInv, CreditedInv, KeepFrom
  <2>3. SeenIsCredited'
    BY <1>6, <1>h DEF NewTip
  <2>. QED  BY <1>0, <2>1, <2>2, <2>3 DEF CreditInv
<1>7. CASE GraceEnds
  <2>1. SeenIsCredited'
    BY <1>7, <1>h DEF GraceEnds
  <2>. QED
    BY <1>0, <1>7, <2>1
       DEF GraceEnds, CreditInv, TipInv, FlightInv, InsertedInv, CreditedInv, KeepFrom
<1>8. CASE HouseRead
  <2>1. TipInv'
    BY <1>0, <1>8 DEF HouseRead, CreditInv, TipInv, KeepFrom
  <2>2. FlightInv'
    <3> SUFFICES ASSUME NEW s \in Sessions, stage[s] = "checked"
                 PROVE  /\ HeightOf[share[s]] >= floor
                        /\ HeightOf[share[s]] >= KeepFrom(tip)
      BY <1>8 DEF HouseRead, CreditInv, FlightInv, KeepFrom
    <3>1. HeightOf[share[s]] >= floor /\ HeightOf[share[s]] \in Nat
      BY <1>0, <1>8 DEF CreditInv, FlightInv, HoldsShare
    <3>2. CASE checked[s] = NoTip
      BY <1>8, <3>1, <3>2 DEF HouseRead, Prompt
    <3>3. CASE checked[s] # NoTip
      <4>1. HeightOf[share[s]] >= checked[s] /\ tip <= checked[s] + MaxLag
        BY <1>8, <3>3 DEF HouseRead, Prompt, CreditInv, FlightInv
      <4>. QED  BY <1>0, <3>1, <4>1 DEF KeepFrom, TypeOK, Heights, NoTip
    <3>. QED  BY <3>2, <3>3
  <2>3. SeenIsCredited'
    BY <1>8, <1>h DEF HouseRead
  <2>. QED
    BY <1>0, <1>8, <2>1, <2>2, <2>3 DEF HouseRead, CreditInv, InsertedInv, CreditedInv
<1>9. CASE HousePrune
  <2>1. KeepFrom(house) \in Heights
    BY <1>0, <1>9 DEF HousePrune, KeepFrom, TypeOK, Heights, NoTip
  <2>2. TipInv'
    BY <1>0, <1>9, <2>1 DEF HousePrune, CreditInv, TipInv, KeepFrom, TypeOK, Heights, NoTip
  <2>3. FlightInv'
    BY <1>0, <1>9, <2>1 DEF HousePrune, CreditInv, FlightInv, TypeOK, Heights
  <2>4. ASSUME NEW x \in Shares, x \in seen \/ HeightOf[x] < floor
        PROVE  x \in seen' \/ HeightOf[x] < floor'
    BY <1>0, <1>9, <2>1, <2>4 DEF HousePrune, Below, TypeOK, Heights
  <2>5. InsertedInv'
    BY <1>0, <1>9, <2>4 DEF HousePrune, CreditInv, InsertedInv, HoldsShare
  <2>6. CreditedInv'
    BY <1>9, <2>4 DEF HousePrune, CreditInv, CreditedInv
  <2>7. SeenIsCredited'
    BY <1>9 DEF HousePrune, CreditInv, SeenIsCredited
  <2>. QED  BY <1>0, <2>2, <2>3, <2>5, <2>6, <2>7 DEF CreditInv
<1>10. CASE Restart
  <2>1. TipInv'
    BY <1>10 DEF Restart, TipInv, NoTip, KeepFrom
  <2>2. FlightInv' /\ InsertedInv' /\ CreditedInv'
    BY <1>10 DEF Restart, FlightInv, InsertedInv, CreditedInv
  <2>3. SeenIsCredited'
    BY <1>10 DEF Restart, SeenIsCredited
  <2>. QED  BY <1>0, <2>1, <2>2, <2>3 DEF CreditInv
<1>11. CASE UNCHANGED vars
  <2>1. SeenIsCredited'
    BY <1>11, <1>h DEF vars
  <2>. QED
    BY <1>0, <1>11, <2>1
       DEF vars, CreditInv, TipInv, FlightInv, InsertedInv, CreditedInv, KeepFrom
<1>. QED
  BY <1>1, <1>2, <1>3, <1>4, <1>5, <1>6, <1>7, <1>8, <1>9, <1>10, <1>11
     DEF Next, OnPow

\* The facts behind the three theorems below hold in every behaviour.
THEOREM CreditInvariant == Spec => [](BaseInv /\ CreditInv)
<1>1. Init => BaseInv /\ CreditInv
  BY BaseInit, CreditInit
<1>2. BaseInv /\ CreditInv /\ [Next]_vars => (BaseInv /\ CreditInv)'
  BY BaseStep, CreditStep
<1>. QED  BY <1>1, <1>2, PTL DEF Spec

\* One credit per hash, pool-wide, for any number of sessions resending the
\* same shares: on_pow's promise for one run of the process.
THEOREM NoDoubleCredit == Spec => []CreditedOnce
<1>1. CreditInv => CreditedOnce
  <2> SUFFICES ASSUME CreditInv, NEW x \in Shares
               PROVE  credited[x] <= 1
    BY DEF CreditedOnce
  <2>1. credited[x] \in Nat
    BY DEF CreditInv, TypeOK
  <2>. QED  BY <2>1 DEF CreditInv, CreditedInv
<1>. QED  BY <1>1, CreditInvariant, PTL

\* housekeeping's prune_below(tip - 2) never forgets a credited share that
\* the staleness test would still let through.
THEOREM PruningIsSafe == Spec => []DedupCoversLive
<1>1. CreditInv => DedupCoversLive
  <2> SUFFICES ASSUME CreditInv, NEW x \in Shares,
                      credited[x] > 0, ~Stale(HeightOf[x], tip, "running")
               PROVE  x \in seen
    BY DEF DedupCoversLive
  <2> USE ShareAssumption, MarginAssumption, BoundAssumption
  <2>1. x \in seen \/ HeightOf[x] < floor
    BY DEF CreditInv, CreditedInv
  <2>2. HeightOf[x] \in Nat /\ floor \in Nat
    BY DEF CreditInv, TypeOK, Heights
  <2>3. CASE tip = NoTip
    BY <2>1, <2>2, <2>3 DEF CreditInv, TipInv, KeepFrom, NoTip
  <2>4. CASE tip # NoTip
    <3>1. tip \in Nat
      BY <2>4 DEF CreditInv, TypeOK, Heights
    <3>2. HeightOf[x] >= tip
      BY <2>2, <3>1, PassedIsRecent
    <3>. QED
      BY <2>1, <2>2, <3>1, <3>2 DEF CreditInv, TipInv, TypeOK, KeepFrom, Heights, NoTip
  <2>. QED  BY <2>3, <2>4
<1>. QED  BY <1>1, CreditInvariant, PTL

\* A share in the set is credited or about to be: on_pow's address check, made
\* before the insert, leaves the credit nothing to refuse.
THEOREM RecordedIsCredited == Spec => []SeenIsCredited
<1>1. CreditInv => SeenIsCredited
  BY DEF CreditInv
<1>. QED  BY <1>1, CreditInvariant, PTL
=============================================================================
