--------------------------- MODULE JobSlotsProofs ---------------------------
(***************************************************************************)
(* For any slots, jobs, ids, sections, limits and number of shares: what a *)
(* slot has cached is what its own sections say, and each slot stays       *)
(* within its limits.  Which slots touch_slot evicts, and how many bytes   *)
(* are counted, plays no part in it.                                       *)
(***************************************************************************)
EXTENDS JobSlots, TLAPS, FiniteSetTheorems, WellFoundedInduction

Keys == Ids \X ToSet(Conventions)

\* What is cached is derived from the job and the sections the slot holds now.
\* This is kept by each step of JobSlot and of verify on its own;
\* CachesFollowSections says what it means for the next share.
Faithful(slot) ==
    /\ \A id \in DOMAIN slot.cb_cache :
          id \in DOMAIN slot.coinbases /\ slot.cb_cache[id] = slot.coinbases[id]
    /\ \A k \in DOMAIN slot.h2_cache :
          /\ k[1] \in DOMAIN slot.coinbases
          /\ slot.h2_cache[k].job = slot.job
          /\ slot.h2_cache[k].body = slot.coinbases[k[1]]
          /\ slot.h2_cache[k].txcount = k[2]

Finite(slot) ==
    /\ IsFiniteSet(DOMAIN slot.coinbases)
    /\ IsFiniteSet(DOMAIN slot.cb_cache)
    /\ IsFiniteSet(DOMAIN slot.h2_cache)

\* The inductive invariant, of one slot and of all.
SlotInv(slot) == slot \in JobSlot /\ Faithful(slot) /\ Finite(slot) /\ Limited(slot)

SlotsInv == slots \in [Slots -> JobSlot] /\ \A s \in Slots : SlotInv(slots[s])

-----------------------------------------------------------------------------
(* Maps *)

\* A map is known by its domain and its values.
LEMMA MapIs ==
  ASSUME NEW S, NEW T, NEW f
  PROVE  f \in Maps(S, T) <=>
           /\ f = [x \in DOMAIN f |-> f[x]]
           /\ DOMAIN f \subseteq S
           /\ \A x \in DOMAIN f : f[x] \in T
  BY DEF Maps

\* No entries at all.
LEMMA NoEntries ==
  ASSUME NEW S, NEW T
  PROVE  << >> \in Maps(S, T) /\ DOMAIN << >> = {}
  <1>1. DOMAIN << >> = {} /\ << >> \in [{} -> T]
    OBVIOUS
  <1>2. {} \in SUBSET S
    OBVIOUS
  <1> QED
    BY <1>1, <1>2, Zenon DEF Maps

\* Part of a map.
LEMMA PartOf ==
  ASSUME NEW S, NEW T, NEW f \in Maps(S, T), NEW D \in SUBSET DOMAIN f
  PROVE  /\ Restrict(f, D) \in Maps(S, T)
         /\ DOMAIN Restrict(f, D) = D
         /\ \A x \in D : Restrict(f, D)[x] = f[x]
  BY MapIs DEF Restrict, Maps

\* A map with one entry set.
LEMMA WithEntry ==
  ASSUME NEW S, NEW T, NEW f \in Maps(S, T), NEW x \in S, NEW v \in T
  PROVE  Insert(f, x, v) \in Maps(S, T)
  <1>1. DOMAIN f \subseteq S /\ \A y \in DOMAIN f : f[y] \in T
    BY MapIs
  <1>2. Insert(f, x, v) \in [DOMAIN f \cup {x} -> T]
    BY <1>1 DEF Insert
  <1>3. DOMAIN f \cup {x} \in SUBSET S
    BY <1>1
  <1> QED
    BY <1>2, <1>3 DEF Maps

\* A cache takes an entry and stays within its limit, cleared if need be.
LEMMA PutIs ==
  ASSUME NEW S, NEW T, NEW f \in Maps(S, T), NEW x \in S, NEW v \in T,
         NEW max \in Nat \ {0}, IsFiniteSet(DOMAIN f), Cardinality(DOMAIN f) <= max
  PROVE  /\ Put(f, x, v, max) \in Maps(S, T)
         /\ x \in DOMAIN Put(f, x, v, max)
         /\ Put(f, x, v, max)[x] = v
         /\ \A y \in DOMAIN Put(f, x, v, max) :
               y # x => y \in DOMAIN f /\ Put(f, x, v, max)[y] = f[y]
         /\ IsFiniteSet(DOMAIN Put(f, x, v, max))
         /\ Cardinality(DOMAIN Put(f, x, v, max)) <= max
  <1>1. Cardinality(DOMAIN f) \in Nat
    BY FS_CardinalityType
  <1>2. CASE Cardinality(DOMAIN f) >= max
    <2> DEFINE e == << >>
    <2>1. e \in Maps(S, T) /\ DOMAIN e = {}
      BY NoEntries
    <2>2. Put(f, x, v, max) = Insert(e, x, v)
      BY <1>2 DEF Put
    <2> HIDE DEF e
    <2>e. Insert(e, x, v) \in Maps(S, T)
      BY <2>1, WithEntry
    <2>3. DOMAIN Insert(e, x, v) = {x} /\ Insert(e, x, v)[x] = v
      BY <2>1 DEF Insert
    <2>4. IsFiniteSet({x}) /\ Cardinality({x}) = 1
      BY FS_Singleton
    <2> QED
      BY <2>2, <2>3, <2>4, <2>e
  <1>3. CASE Cardinality(DOMAIN f) < max
    <2>1. Put(f, x, v, max) = Insert(f, x, v)
      BY <1>3, <1>1 DEF Put
    <2>e. Insert(f, x, v) \in Maps(S, T)
      BY WithEntry
    <2>2. /\ DOMAIN Insert(f, x, v) = DOMAIN f \cup {x}
          /\ Insert(f, x, v)[x] = v
          /\ \A y \in DOMAIN f : y # x => Insert(f, x, v)[y] = f[y]
      BY DEF Insert
    <2>3. IsFiniteSet(DOMAIN f \cup {x}) /\ Cardinality(DOMAIN f \cup {x}) <= Cardinality(DOMAIN f) + 1
      BY <1>1, FS_AddElement
    <2>4. \A y \in DOMAIN f \cup {x} : y # x => y \in DOMAIN f
      OBVIOUS
    <2>5. Cardinality(DOMAIN f \cup {x}) <= max
      BY <2>3, <1>3, <1>1, FS_CardinalityType
    <2> QED
      BY <2>1, <2>2, <2>3, <2>4, <2>5, <2>e
  <1> QED
    BY <1>1, <1>2, <1>3

-----------------------------------------------------------------------------
(* JobSlot *)

\* A slot's maps.
LEMMA MapsOf ==
  ASSUME NEW slot \in JobSlot
  PROVE  /\ slot.job \in Jobs \cup {None}
         /\ slot.coinbases \in Maps(Ids, Bodies)
         /\ slot.cb_cache \in Maps(Ids, Bodies)
         /\ slot.h2_cache \in Maps(Keys, Headers)
         /\ slot.txcount \in ToSet(Conventions) \cup {None}
         /\ DOMAIN slot.coinbases \subseteq Ids
         /\ \A id \in DOMAIN slot.coinbases : slot.coinbases[id] \in Bodies
         /\ DOMAIN slot.cb_cache \subseteq Ids
         /\ DOMAIN slot.h2_cache \subseteq Keys
         /\ \A k \in DOMAIN slot.h2_cache : slot.h2_cache[k] \in Headers
  <1>1. /\ slot.job \in Jobs \cup {None}
        /\ slot.coinbases \in Maps(Ids, Bodies)
        /\ slot.cb_cache \in Maps(Ids, Bodies)
        /\ slot.h2_cache \in Maps(Keys, Headers)
        /\ slot.txcount \in ToSet(Conventions) \cup {None}
    BY DEF JobSlot, Keys
  <1> QED
    BY <1>1, MapIs

\* The limits are at least one.
LEMMA LimitsAre ==
  /\ MAX_COINBASES_PER_SLOT \in Nat \ {0}
  /\ MAX_CB_CACHE \in Nat \ {0}
  /\ MAX_H2_CACHE \in Nat \ {0}
  BY SlotsAssumption

\* A slot with no sections, whatever its job and convention.
LEMMA BareInv ==
  ASSUME NEW slot \in JobSlot,
         slot.coinbases = << >>, slot.cb_cache = << >>, slot.h2_cache = << >>
  PROVE  SlotInv(slot)
  <1>1. DOMAIN slot.coinbases = {} /\ DOMAIN slot.cb_cache = {} /\ DOMAIN slot.h2_cache = {}
    BY NoEntries
  <1>2. IsFiniteSet({}) /\ Cardinality({}) = 0
    BY FS_EmptySet
  <1> QED
    BY <1>1, <1>2, LimitsAre DEF SlotInv, Faithful, Finite, Limited

\* evict_sections
LEMMA EvictInv ==
  ASSUME NEW slot, SlotInv(slot)
  PROVE  SlotInv(Evict(slot))
  <1>1. << >> \in Maps(Ids, Bodies) /\ << >> \in Maps(Keys, Headers)
    BY NoEntries
  <1>2. Evict(slot) \in JobSlot
    BY <1>1 DEF Evict, SlotInv, JobSlot, Keys
  <1>3. /\ Evict(slot).coinbases = << >>
        /\ Evict(slot).cb_cache = << >>
        /\ Evict(slot).h2_cache = << >>
    BY DEF Evict, SlotInv, JobSlot
  <1> QED
    BY <1>2, <1>3, BareInv

\* absorb, a job section.
LEMMA AbsorbJobInv ==
  ASSUME NEW slot, SlotInv(slot), NEW job \in Jobs \cup {None}
  PROVE  SlotInv(AbsorbJob(slot, job))
  <1>1. CASE job \in {None, slot.job}
    BY <1>1 DEF AbsorbJob
  <1>2. CASE job \notin {None, slot.job}
    <2> DEFINE new == [EmptySlot EXCEPT !.job = job]
    <2>1. << >> \in Maps(Ids, Bodies) /\ << >> \in Maps(Keys, Headers)
      BY NoEntries
    <2>2. new \in JobSlot
      BY <2>1 DEF EmptySlot, JobSlot, Keys
    <2>3. new.coinbases = << >> /\ new.cb_cache = << >> /\ new.h2_cache = << >>
      BY DEF EmptySlot
    <2>4. AbsorbJob(slot, job) = new
      BY <1>2 DEF AbsorbJob
    <2> HIDE DEF new
    <2> QED
      BY <2>2, <2>3, <2>4, BareInv
  <1> QED
    BY <1>1, <1>2

\* What is cached for an id is dropped, and nothing else.
LEMMA WithoutCachedInv ==
  ASSUME NEW slot, SlotInv(slot), NEW id
  PROVE  /\ SlotInv(WithoutCached(slot, id))
         /\ WithoutCached(slot, id).job = slot.job
         /\ WithoutCached(slot, id).txcount = slot.txcount
         /\ WithoutCached(slot, id).coinbases = slot.coinbases
         /\ id \notin DOMAIN WithoutCached(slot, id).cb_cache
         /\ \A k \in DOMAIN WithoutCached(slot, id).h2_cache : k[1] # id
  <1> DEFINE cb == DOMAIN slot.cb_cache \ {id}
             h2 == {k \in DOMAIN slot.h2_cache : k[1] # id}
             new == WithoutCached(slot, id)
  <1>0. slot \in JobSlot /\ Faithful(slot) /\ Finite(slot) /\ Limited(slot)
    BY DEF SlotInv
  <1>1. /\ Restrict(slot.cb_cache, cb) \in Maps(Ids, Bodies)
        /\ DOMAIN Restrict(slot.cb_cache, cb) = cb
        /\ \A x \in cb : Restrict(slot.cb_cache, cb)[x] = slot.cb_cache[x]
    BY <1>0, MapsOf, PartOf
  <1>2. /\ Restrict(slot.h2_cache, h2) \in Maps(Keys, Headers)
        /\ DOMAIN Restrict(slot.h2_cache, h2) = h2
        /\ \A x \in h2 : Restrict(slot.h2_cache, h2)[x] = slot.h2_cache[x]
    BY <1>0, MapsOf, PartOf
  <1>3. /\ new.job = slot.job /\ new.txcount = slot.txcount /\ new.coinbases = slot.coinbases
        /\ new.cb_cache = Restrict(slot.cb_cache, cb)
        /\ new.h2_cache = Restrict(slot.h2_cache, h2)
    BY <1>0 DEF WithoutCached, JobSlot
  <1>4. new \in JobSlot
    BY <1>0, <1>1, <1>2 DEF WithoutCached, JobSlot, Keys
  <1>5. /\ cb \subseteq DOMAIN slot.cb_cache /\ id \notin cb
        /\ h2 \subseteq DOMAIN slot.h2_cache /\ \A k \in h2 : k[1] # id
    OBVIOUS
  <1> HIDE DEF new, cb, h2
  <1>6. Faithful(new)
    BY <1>0, <1>1, <1>2, <1>3, <1>5 DEF Faithful
  <1>7. /\ IsFiniteSet(cb) /\ Cardinality(cb) <= Cardinality(DOMAIN slot.cb_cache)
        /\ IsFiniteSet(h2) /\ Cardinality(h2) <= Cardinality(DOMAIN slot.h2_cache)
    BY <1>0, <1>5, FS_Subset DEF Finite
  <1>8. /\ Cardinality(cb) \in Nat /\ Cardinality(DOMAIN slot.cb_cache) \in Nat
        /\ Cardinality(h2) \in Nat /\ Cardinality(DOMAIN slot.h2_cache) \in Nat
    BY <1>0, <1>7, FS_CardinalityType DEF Finite
  <1>9. Finite(new) /\ Limited(new)
    BY <1>0, <1>1, <1>2, <1>3, <1>7, <1>8, LimitsAre DEF Finite, Limited
  <1>10. new = WithoutCached(slot, id)
    BY DEF new
  <1> QED
    BY <1>1, <1>2, <1>3, <1>4, <1>5, <1>6, <1>9, <1>10 DEF SlotInv

\* absorb, a coinbase section: what was derived from the one it replaces goes.
LEMMA AbsorbCoinbaseInv ==
  ASSUME NEW slot, SlotInv(slot), NEW id \in Ids, NEW body \in Bodies \cup {None},
         \/ body = None \/ id \in DOMAIN slot.coinbases
         \/ Cardinality(DOMAIN slot.coinbases) < MAX_COINBASES_PER_SLOT
  PROVE  SlotInv(AbsorbCoinbase(slot, id, body))
  <1>1. CASE body = None \/ HoldsAlready(slot, id, body)
    BY <1>1 DEF AbsorbCoinbase
  <1>2. CASE ~(body = None \/ HoldsAlready(slot, id, body))
    <2> DEFINE old == WithoutCached(slot, id)
               all == Insert(old.coinbases, id, body)
               new == [old EXCEPT !.coinbases = all]
    <2>0. body \in Bodies /\ AbsorbCoinbase(slot, id, body) = new
      BY <1>2 DEF AbsorbCoinbase
    <2>1. /\ SlotInv(old) /\ old.coinbases = slot.coinbases
          /\ id \notin DOMAIN old.cb_cache /\ \A k \in DOMAIN old.h2_cache : k[1] # id
      BY WithoutCachedInv
    <2> HIDE DEF old
    <2>2. old \in JobSlot /\ Faithful(old) /\ Finite(old) /\ Limited(old)
      BY <2>1 DEF SlotInv
    <2>c. old.coinbases \in Maps(Ids, Bodies)
      BY <2>2, MapsOf
    <2>3. all \in Maps(Ids, Bodies)
      BY <2>0, <2>c, WithEntry
    <2>4. /\ DOMAIN all = DOMAIN old.coinbases \cup {id}
          /\ \A x \in DOMAIN old.coinbases : x # id => all[x] = old.coinbases[x]
      BY DEF Insert
    <2> HIDE DEF all
    <2>5. /\ new.coinbases = all /\ new.job = old.job /\ new.txcount = old.txcount
          /\ new.cb_cache = old.cb_cache /\ new.h2_cache = old.h2_cache
          /\ new \in JobSlot
      BY <2>2, <2>3 DEF JobSlot
    <2> HIDE DEF new
    <2>6. Faithful(new)
      BY <2>1, <2>2, <2>4, <2>5 DEF Faithful
    <2>7. /\ IsFiniteSet(DOMAIN old.coinbases) /\ Cardinality(DOMAIN old.coinbases) \in Nat
      BY <2>2, FS_CardinalityType DEF Finite
    <2>8. /\ IsFiniteSet(DOMAIN all)
          /\ Cardinality(DOMAIN all) = IF id \in DOMAIN old.coinbases
                                        THEN Cardinality(DOMAIN old.coinbases)
                                        ELSE Cardinality(DOMAIN old.coinbases) + 1
      BY <2>4, <2>7, FS_AddElement
    <2>9. Cardinality(DOMAIN all) <= MAX_COINBASES_PER_SLOT
      BY <2>8, <2>7, <2>2, <2>1, <1>2, LimitsAre DEF Limited
    <2> QED
      BY <2>0, <2>2, <2>5, <2>6, <2>8, <2>9 DEF SlotInv, Finite, Limited
  <1> QED
    BY <1>1, <1>2

\* absorb as a whole, when it does not refuse.
LEMMA AbsorbInv ==
  ASSUME NEW slot, SlotInv(slot), NEW job \in Jobs \cup {None}, NEW id \in Ids,
         NEW body \in Bodies \cup {None}, ~Refuses(slot, job, id, body)
  PROVE  SlotInv(Absorb(slot, job, id, body))
  <1> DEFINE fresh == AbsorbJob(slot, job)
  <1>1. SlotInv(fresh)
    BY AbsorbJobInv
  <1>2. \/ body = None \/ id \in DOMAIN fresh.coinbases
        \/ ~(Cardinality(DOMAIN fresh.coinbases) >= MAX_COINBASES_PER_SLOT)
    BY DEF Refuses
  <1>3. Absorb(slot, job, id, body) = AbsorbCoinbase(fresh, id, body)
    BY DEF Absorb
  <1> HIDE DEF fresh
  <1>4. Cardinality(DOMAIN fresh.coinbases) \in Nat
    BY <1>1, FS_CardinalityType DEF SlotInv, Finite
  <1>5. \/ body = None \/ id \in DOMAIN fresh.coinbases
        \/ Cardinality(DOMAIN fresh.coinbases) < MAX_COINBASES_PER_SLOT
    BY <1>2, <1>4, LimitsAre
  <1> QED
    BY <1>1, <1>3, <1>5, AbsorbCoinbaseInv

\* forget_coinbase
LEMMA ForgetInv ==
  ASSUME NEW slot, SlotInv(slot), NEW id
  PROVE  SlotInv(Forget(slot, id))
  <1> DEFINE old == WithoutCached(slot, id)
             rest == DOMAIN old.coinbases \ {id}
             less == Restrict(old.coinbases, rest)
             new == [old EXCEPT !.coinbases = less]
  <1>0. Forget(slot, id) = new
    BY DEF Forget
  <1>1. /\ SlotInv(old)
        /\ id \notin DOMAIN old.cb_cache /\ \A k \in DOMAIN old.h2_cache : k[1] # id
    BY WithoutCachedInv
  <1> HIDE DEF old
  <1>2. old \in JobSlot /\ Faithful(old) /\ Finite(old) /\ Limited(old)
    BY <1>1 DEF SlotInv
  <1>c. old.coinbases \in Maps(Ids, Bodies)
    BY <1>2, MapsOf
  <1>3. less \in Maps(Ids, Bodies)
    BY <1>c, PartOf
  <1>4. DOMAIN less = rest /\ \A x \in rest : less[x] = old.coinbases[x]
    BY DEF Restrict
  <1>5. \A x : x \in rest <=> x \in DOMAIN old.coinbases /\ x # id
    OBVIOUS
  <1> HIDE DEF less, rest
  <1>6. /\ new.coinbases = less /\ new.job = old.job /\ new.txcount = old.txcount
        /\ new.cb_cache = old.cb_cache /\ new.h2_cache = old.h2_cache
        /\ new \in JobSlot
    BY <1>2, <1>3 DEF JobSlot
  <1> HIDE DEF new
  <1>7. Faithful(new)
    BY <1>1, <1>2, <1>4, <1>5, <1>6 DEF Faithful
  <1>8. IsFiniteSet(rest) /\ Cardinality(rest) <= Cardinality(DOMAIN old.coinbases)
    BY <1>2, <1>5, FS_Subset DEF Finite
  <1>9. Cardinality(rest) \in Nat /\ Cardinality(DOMAIN old.coinbases) \in Nat
    BY <1>2, <1>8, FS_CardinalityType DEF Finite
  <1>10. Cardinality(rest) <= MAX_COINBASES_PER_SLOT
    BY <1>8, <1>9, <1>2, LimitsAre DEF Limited
  <1> QED
    BY <1>0, <1>2, <1>4, <1>6, <1>7, <1>8, <1>10 DEF SlotInv, Finite, Limited

-----------------------------------------------------------------------------
(* Session *)

\* The share's sections are in: its slot has absorbed them, and of the others
\* some were evicted.
LEMMA TakenInv ==
  ASSUME SlotsInv, NEW s \in Slots, NEW job \in Jobs \cup {None}, NEW id \in Ids,
         NEW body \in Bodies \cup {None}, ~Refuses(slots[s], job, id, body)
  PROVE  /\ Taken(s, job, id, body).slots \in [Slots -> JobSlot]
         /\ \A t \in Slots : SlotInv(Taken(s, job, id, body).slots[t])
  <1> DEFINE new  == [slots EXCEPT ![s] = Absorb(@, job, id, body)]
             kept == [t \in Slots |-> IF t \in EvictedBy(s) THEN Evict(new[t]) ELSE new[t]]
             taken == Taken(s, job, id, body)
  <1>0. slots \in [Slots -> JobSlot] /\ \A t \in Slots : SlotInv(slots[t])
    BY DEF SlotsInv
  <1>1. SlotInv(Absorb(slots[s], job, id, body))
    BY <1>0, AbsorbInv
  <1>2. /\ DOMAIN new = Slots
        /\ \A t \in Slots : new[t] = IF t = s THEN Absorb(slots[s], job, id, body) ELSE slots[t]
    BY <1>0
  <1>3. new = [t \in Slots |-> new[t]]
    BY <1>0
  <1>4. \A t \in Slots : SlotInv(new[t])
    BY <1>0, <1>1, <1>2
  <1>5. taken.slots = kept \/ taken.slots = new
    BY DEF Taken
  <1> HIDE DEF new
  <1>6. \A t \in Slots : SlotInv(Evict(new[t]))
    BY <1>4, EvictInv
  <1>7. /\ DOMAIN kept = Slots
        /\ \A t \in Slots : kept[t] = IF t \in EvictedBy(s) THEN Evict(new[t]) ELSE new[t]
    OBVIOUS
  <1>8. \A t \in Slots : SlotInv(kept[t])
    BY <1>4, <1>6, <1>7
  <1>9. new \in [Slots -> JobSlot]
    BY <1>3, <1>4 DEF SlotInv
  <1>10. kept \in [Slots -> JobSlot]
    BY <1>8 DEF SlotInv
  <1> HIDE DEF kept
  <1> QED
    BY <1>4, <1>5, <1>8, <1>9, <1>10

\* Putting a slot that is in order into slots that are.
LEMMA SlotSet ==
  ASSUME NEW sl \in [Slots -> JobSlot], \A t \in Slots : SlotInv(sl[t]),
         NEW s \in Slots, NEW slot, SlotInv(slot),
         slots' = [sl EXCEPT ![s] = slot]
  PROVE  SlotsInv'
  <1>1. slot \in JobSlot
    BY DEF SlotInv
  <1>2. slots' \in [Slots -> JobSlot]
    BY <1>1
  <1>3. \A t \in Slots : slots'[t] = slot \/ slots'[t] = sl[t]
    OBVIOUS
  <1>4. \A t \in Slots : SlotInv(slots'[t])
    BY <1>3
  <1> QED
    BY <1>2, <1>4 DEF SlotsInv, SlotInv, JobSlot, Faithful, Finite, Limited

-----------------------------------------------------------------------------
(* verify *)

\* The coinbase of an id the slot holds is parsed, unless it was before.
LEMMA ParsedInv ==
  ASSUME NEW slot, SlotInv(slot), NEW id \in DOMAIN slot.coinbases
  PROVE  /\ SlotInv(Parsed(slot, id))
         /\ Parsed(slot, id).job = slot.job
         /\ Parsed(slot, id).txcount = slot.txcount
         /\ Parsed(slot, id).coinbases = slot.coinbases
         /\ Parsed(slot, id).h2_cache = slot.h2_cache
         /\ id \in DOMAIN Parsed(slot, id).cb_cache
  <1>1. CASE id \in DOMAIN slot.cb_cache
    BY <1>1 DEF Parsed
  <1>2. CASE id \notin DOMAIN slot.cb_cache
    <2> DEFINE cache == Put(slot.cb_cache, id, slot.coinbases[id], MAX_CB_CACHE)
               new == [slot EXCEPT !.cb_cache = cache]
    <2>0. Parsed(slot, id) = new
      BY <1>2 DEF Parsed
    <2>1. slot \in JobSlot /\ Faithful(slot) /\ Finite(slot) /\ Limited(slot)
      BY DEF SlotInv
    <2>2. id \in Ids /\ slot.coinbases[id] \in Bodies /\ slot.cb_cache \in Maps(Ids, Bodies)
      BY <2>1, MapsOf
    <2>3. IsFiniteSet(DOMAIN slot.cb_cache) /\ Cardinality(DOMAIN slot.cb_cache) <= MAX_CB_CACHE
      BY <2>1 DEF Finite, Limited
    <2>4. /\ cache \in Maps(Ids, Bodies)
          /\ id \in DOMAIN cache
          /\ cache[id] = slot.coinbases[id]
          /\ \A y \in DOMAIN cache : y # id => y \in DOMAIN slot.cb_cache /\ cache[y] = slot.cb_cache[y]
          /\ IsFiniteSet(DOMAIN cache) /\ Cardinality(DOMAIN cache) <= MAX_CB_CACHE
      BY <2>2, <2>3, LimitsAre, PutIs
    <2> HIDE DEF cache
    <2>5. /\ new.coinbases = slot.coinbases /\ new.job = slot.job /\ new.txcount = slot.txcount
          /\ new.cb_cache = cache /\ new.h2_cache = slot.h2_cache
          /\ new \in JobSlot
      BY <2>1, <2>4 DEF JobSlot
    <2> HIDE DEF new
    <2>6. Faithful(new)
      BY <2>1, <2>4, <2>5 DEF Faithful
    <2> QED
      BY <2>0, <2>1, <2>4, <2>5, <2>6 DEF SlotInv, Finite, Limited
  <1> QED
    BY <1>1, <1>2

\* The header verify goes by, cached or new, has the job and the section the
\* slot holds and the convention asked for.
LEMMA RebuiltIs ==
  ASSUME NEW slot, SlotInv(slot), NEW id \in DOMAIN slot.coinbases,
         id \in DOMAIN slot.cb_cache, NEW time, NEW c
  PROVE  \E t : Rebuilt(slot, id, time, c) =
            [job |-> slot.job, body |-> slot.coinbases[id], time |-> t, txcount |-> c]
  <1>1. slot \in JobSlot /\ Faithful(slot)
    BY DEF SlotInv
  <1>2. CASE <<id, c>> \in DOMAIN slot.h2_cache
    <2> DEFINE h == slot.h2_cache[<<id, c>>]
    <2>1. h \in Headers
      BY <1>1, <1>2, MapsOf
    <2>2. h.job = slot.job /\ h.body = slot.coinbases[id] /\ h.txcount = c
      BY <1>1, <1>2 DEF Faithful
    <2>3. Rebuilt(slot, id, time, c) = h
      BY <1>2 DEF Rebuilt
    <2> HIDE DEF h
    <2>4. h = [job |-> h.job, body |-> h.body, time |-> h.time, txcount |-> h.txcount]
      BY <2>1 DEF Headers
    <2> QED
      BY <2>2, <2>3, <2>4
  <1>3. CASE <<id, c>> \notin DOMAIN slot.h2_cache
    <2>1. slot.cb_cache[id] = slot.coinbases[id]
      BY <1>1 DEF Faithful
    <2> QED
      BY <1>3, <2>1 DEF Rebuilt
  <1> QED
    BY <1>2, <1>3

\* The header of a share that verified is cached, under the convention it has.
LEMMA NotedInv ==
  ASSUME NEW slot, SlotInv(slot), slot.job \in Jobs, NEW id \in DOMAIN slot.coinbases,
         NEW time \in Times, NEW c \in ToSet(Conventions), NEW goal,
         goal = Described(slot, id, time, c)
  PROVE  SlotInv([slot EXCEPT !.h2_cache = Put(@, <<id, c>>, goal, MAX_H2_CACHE),
                              !.txcount = c])
  <1> DEFINE cache == Put(slot.h2_cache, <<id, c>>, goal, MAX_H2_CACHE)
             new == [slot EXCEPT !.h2_cache = cache, !.txcount = c]
  <1>1. slot \in JobSlot /\ Faithful(slot) /\ Finite(slot) /\ Limited(slot)
    BY DEF SlotInv
  <1>2. /\ id \in Ids /\ slot.coinbases[id] \in Bodies /\ slot.h2_cache \in Maps(Keys, Headers)
        /\ DOMAIN slot.h2_cache \subseteq Keys
    BY <1>1, MapsOf
  <1>3. <<id, c>> \in Keys
    BY <1>2 DEF Keys
  <1>4. /\ goal \in Headers /\ goal.job = slot.job
        /\ goal.body = slot.coinbases[id] /\ goal.txcount = c
    BY <1>2 DEF Described, Headers
  <1>5. IsFiniteSet(DOMAIN slot.h2_cache) /\ Cardinality(DOMAIN slot.h2_cache) <= MAX_H2_CACHE
    BY <1>1 DEF Finite, Limited
  <1>6. /\ cache \in Maps(Keys, Headers)
        /\ <<id, c>> \in DOMAIN cache
        /\ cache[<<id, c>>] = goal
        /\ \A y \in DOMAIN cache : y # <<id, c>> => y \in DOMAIN slot.h2_cache /\ cache[y] = slot.h2_cache[y]
        /\ IsFiniteSet(DOMAIN cache) /\ Cardinality(DOMAIN cache) <= MAX_H2_CACHE
    BY <1>2, <1>3, <1>4, <1>5, LimitsAre, PutIs
  <1> HIDE DEF cache
  <1>7. /\ new.coinbases = slot.coinbases /\ new.job = slot.job /\ new.txcount = c
        /\ new.cb_cache = slot.cb_cache /\ new.h2_cache = cache
        /\ new \in JobSlot
    BY <1>1, <1>6 DEF JobSlot, Keys
  <1> HIDE DEF new
  <1>8. ASSUME NEW k \in DOMAIN cache
        PROVE  /\ k[1] \in DOMAIN slot.coinbases
               /\ cache[k].job = slot.job
               /\ cache[k].body = slot.coinbases[k[1]]
               /\ cache[k].txcount = k[2]
    <2>1. CASE k = <<id, c>>
      BY <2>1, <1>4, <1>6
    <2>2. CASE k # <<id, c>>
      BY <2>2, <1>1, <1>6 DEF Faithful
    <2> QED
      BY <2>1, <2>2
  <1>9. Faithful(new)
    BY <1>1, <1>7, <1>8 DEF Faithful
  <1>10. SlotInv(new)
    BY <1>1, <1>6, <1>7, <1>9 DEF SlotInv, Finite, Limited
  <1> QED
    BY <1>10 DEF new, cache

\* One or two conventions are tried.
LEMMA TriedIs ==
  ASSUME NEW slot
  PROVE  DOMAIN Tried(slot) \subseteq {1, 2}
  BY DEF Tried, Conventions

\* The first of them that is good is one that is good.
LEMMA FirstIs ==
  ASSUME NEW good \in SUBSET {1, 2}, good # {}
  PROVE  Min(good) \in good
  <1>1. \E x \in good : \A y \in good : x <= y
    <2>1. CASE 1 \in good
      BY <2>1
    <2>2. CASE good = {2}
      BY <2>2
    <2> QED
      BY <2>1, <2>2
  <1> QED
    BY <1>1 DEF Min

\* A share that is looked at, whatever comes of it.
LEMMA VerifyInv ==
  ASSUME SlotsInv, NEW s \in Slots, NEW job \in Jobs \cup {None}, NEW id \in Ids,
         NEW body \in Bodies \cup {None}, NEW time \in Times \cup {None},
         Verify(s, Taken(s, job, id, body), job, id, body, time)
  PROVE  SlotsInv'
  <1> DEFINE taken == Taken(s, job, id, body)
             slot == Parsed(taken.slots[s], id)
             goal == Described(slot, id, time, Counting)
             tried == Tried(slot)
             good == {k \in DOMAIN tried : Rebuilt(slot, id, time, tried[k]) = goal}
             first == tried[Min(good)]
             noted == [slot EXCEPT !.h2_cache = Put(@, <<id, first>>, goal, MAX_H2_CACHE),
                                   !.txcount = first]
             done == IF time = None \/ good = {} THEN slot ELSE noted
  <1>1. /\ ~Refuses(slots[s], job, id, body)
        /\ taken.slots[s].job # None /\ id \in DOMAIN taken.slots[s].coinbases
        /\ slots' = [taken.slots EXCEPT ![s] = done]
    BY DEF Verify, Accepted
  <1>2. taken.slots \in [Slots -> JobSlot] /\ \A t \in Slots : SlotInv(taken.slots[t])
    BY <1>1, TakenInv
  <1> HIDE DEF taken
  <1>3. /\ SlotInv(slot) /\ slot.job = taken.slots[s].job
        /\ slot.coinbases = taken.slots[s].coinbases /\ id \in DOMAIN slot.cb_cache
    BY <1>1, <1>2, ParsedInv
  <1> HIDE DEF slot
  <1>4. SlotInv(done)
    <2>1. CASE time = None \/ good = {}
      BY <2>1, <1>3
    <2>2. CASE time # None /\ good # {}
      <3>1. good \subseteq DOMAIN tried /\ \A k \in good : Rebuilt(slot, id, time, tried[k]) = goal
        OBVIOUS
      <3>2. good \subseteq {1, 2}
        BY TriedIs
      <3> HIDE DEF good
      <3>3. Min(good) \in good
        BY <2>2, <3>2, FirstIs
      <3>4. Rebuilt(slot, id, time, first) = goal
        BY <3>1, <3>3
      <3> HIDE DEF first
      <3>5. PICK t : Rebuilt(slot, id, time, first) =
               [job |-> slot.job, body |-> slot.coinbases[id], time |-> t, txcount |-> first]
        BY <1>1, <1>3, RebuiltIs
      <3>6. first = Counting
        BY <3>4, <3>5 DEF Described
      <3>7. slot.job \in Jobs /\ time \in Times /\ Counting \in ToSet(Conventions)
        BY <1>1, <1>3, <2>2, MapsOf, SlotsAssumption DEF SlotInv
      <3>8. goal = Described(slot, id, time, Counting)
        OBVIOUS
      <3> HIDE DEF goal
      <3>9. SlotInv(noted)
        BY <1>1, <1>3, <3>6, <3>7, <3>8, NotedInv
      <3> QED
        BY <2>2, <3>9
    <2> QED
      BY <2>1, <2>2
  <1> HIDE DEF done
  <1> QED
    BY <1>1, <1>2, <1>4, SlotSet

-----------------------------------------------------------------------------
(* The invariant, and what follows from it *)

\* A session starts with empty slots.
LEMMA SlotsInit == Init => SlotsInv
  <1> SUFFICES ASSUME Init PROVE SlotsInv
    OBVIOUS
  <1>1. << >> \in Maps(Ids, Bodies) /\ << >> \in Maps(Keys, Headers)
    BY NoEntries
  <1>2. EmptySlot \in JobSlot
    BY <1>1 DEF EmptySlot, JobSlot, Keys
  <1>3. /\ EmptySlot.coinbases = << >>
        /\ EmptySlot.cb_cache = << >>
        /\ EmptySlot.h2_cache = << >>
    BY DEF EmptySlot
  <1>4. SlotInv(EmptySlot)
    BY <1>2, <1>3, BareInv
  <1> QED
    BY <1>2, <1>4 DEF Init, SlotsInv

\* Every share keeps the invariant.
LEMMA SlotsStep == SlotsInv /\ [Next]_vars => SlotsInv'
  <1> SUFFICES ASSUME SlotsInv, [Next]_vars PROVE SlotsInv'
    OBVIOUS
  <1>u. CASE slots' = slots
    BY <1>u DEF SlotsInv, SlotInv, Faithful, Finite, Limited
  <1>1. ASSUME NEW s \in Slots, NEW job \in Jobs \cup {None}, NEW id \in Ids,
               NEW body \in Bodies \cup {None}, RefuseSection(s, job, id, body)
        PROVE  SlotsInv'
    BY <1>1, <1>u DEF RefuseSection, vars
  <1>2. ASSUME NEW s \in Slots, NEW job \in Jobs \cup {None}, NEW id \in Ids,
               NEW body \in Bodies \cup {None},
               DropSection(s, Taken(s, job, id, body), job, id, body)
        PROVE  SlotsInv'
    <2> DEFINE taken == Taken(s, job, id, body)
               less == Forget(taken.slots[s], id)
    <2>1. /\ ~Refuses(slots[s], job, id, body)
          /\ slots' = [taken.slots EXCEPT ![s] = less]
      BY <1>2 DEF DropSection
    <2>2. taken.slots \in [Slots -> JobSlot] /\ \A t \in Slots : SlotInv(taken.slots[t])
      BY <2>1, TakenInv
    <2> HIDE DEF taken
    <2>3. SlotInv(less)
      BY <2>2, ForgetInv
    <2> HIDE DEF less
    <2> QED
      BY <2>1, <2>2, <2>3, SlotSet
  <1>3. ASSUME NEW s \in Slots, NEW job \in Jobs \cup {None}, NEW id \in Ids,
               NEW body \in Bodies \cup {None},
               RejectShare(s, Taken(s, job, id, body), job, id, body)
        PROVE  SlotsInv'
    <2> DEFINE taken == Taken(s, job, id, body)
    <2>1. ~Refuses(slots[s], job, id, body) /\ slots' = taken.slots
      BY <1>3 DEF RejectShare, Accepted
    <2>2. taken.slots \in [Slots -> JobSlot] /\ \A t \in Slots : SlotInv(taken.slots[t])
      BY <2>1, TakenInv
    <2> HIDE DEF taken
    <2>3. slots' = [taken.slots EXCEPT ![s] = taken.slots[s]] /\ SlotInv(taken.slots[s])
      BY <2>1, <2>2
    <2> QED
      BY <2>2, <2>3, SlotSet
  <1>4. ASSUME NEW s \in Slots, NEW job \in Jobs \cup {None}, NEW id \in Ids,
               NEW body \in Bodies \cup {None}, NEW time \in Times \cup {None},
               Verify(s, Taken(s, job, id, body), job, id, body, time)
        PROVE  SlotsInv'
    BY <1>4, VerifyInv
  <1> QED
    BY <1>u, <1>1, <1>2, <1>3, <1>4 DEF Next, vars

\* What the next share of a slot is verified against.
LEMMA InvFollows == SlotsInv => CachesFollowSections
  <1> SUFFICES ASSUME SlotsInv, NEW s \in Slots
               PROVE  /\ DOMAIN slots[s].cb_cache \subseteq DOMAIN slots[s].coinbases
                      /\ \A id \in DOMAIN slots[s].coinbases, time \in Times,
                            c \in ToSet(Conventions) :
                           [Rebuilt(Parsed(slots[s], id), id, time, c) EXCEPT !.time = time]
                             = Described(Parsed(slots[s], id), id, time, c)
    BY DEF CachesFollowSections
  <1>1. SlotInv(slots[s])
    BY DEF SlotsInv
  <1>2. DOMAIN slots[s].cb_cache \subseteq DOMAIN slots[s].coinbases
    BY <1>1 DEF SlotInv, Faithful
  <1>3. ASSUME NEW id \in DOMAIN slots[s].coinbases, NEW time \in Times,
               NEW c \in ToSet(Conventions)
        PROVE  [Rebuilt(Parsed(slots[s], id), id, time, c) EXCEPT !.time = time]
                 = Described(Parsed(slots[s], id), id, time, c)
    <2> DEFINE slot == Parsed(slots[s], id)
    <2>1. SlotInv(slot) /\ id \in DOMAIN slot.coinbases /\ id \in DOMAIN slot.cb_cache
      BY <1>1, ParsedInv
    <2> HIDE DEF slot
    <2>2. PICK t : Rebuilt(slot, id, time, c) =
             [job |-> slot.job, body |-> slot.coinbases[id], time |-> t, txcount |-> c]
      BY <2>1, RebuiltIs
    <2>3. [Rebuilt(slot, id, time, c) EXCEPT !.time = time] = Described(slot, id, time, c)
      BY <2>2 DEF Described
    <2> QED
      BY <2>3 DEF slot
  <1> QED
    BY <1>2, <1>3

-----------------------------------------------------------------------------
(* Sums: Iterator::sum over a HashMap's values, in whatever order *)

\* What an unordered loop over S comes to next.
Chosen(S) == CHOOSE x \in S : TRUE

\* g adds up f over each subset of D, an element at a time.
AddsUp(g, f, D) ==
    \A S \in SUBSET D : g[S] = IF S = {} THEN 0 ELSE f[Chosen(S)] + g[S \ {Chosen(S)}]

Sums(g, f, D) == g \in [SUBSET D -> Nat] /\ AddsUp(g, f, D)

\* K holds every set whose proper subsets it holds.
Grows(K, D) == \A S \in SUBSET D : (\A T \in SUBSET S : T # S => T \in K) => S \in K

\* Induction on the subsets of a finite set: the smallest that is missing has
\* all of its own.
LEMMA SetInduct ==
  ASSUME NEW D, IsFiniteSet(D), NEW K, Grows(K, D)
  PROVE  \A S \in SUBSET D : S \in K
  <1> DEFINE bad == {S \in SUBSET D : S \notin K}
             sizes == {Cardinality(S) : S \in bad}
  <1> SUFFICES ASSUME bad # {} PROVE FALSE
    OBVIOUS
  <1>1. \A S \in SUBSET D : IsFiniteSet(S) /\ Cardinality(S) \in Nat
    BY FS_Subset, FS_CardinalityType
  <1>2. sizes \in SUBSET Nat /\ sizes # {}
    BY <1>1
  <1>3. PICK m \in sizes : \A k \in sizes : ~(<<k, m>> \in OpToRel(<, Nat))
    BY <1>2, WFMin, NatLessThanWellFounded, Zenon
  <1>4. \A k \in sizes : ~(k < m)
    BY <1>2, <1>3, Zenon DEF OpToRel
  <1>5. PICK S \in bad : m = Cardinality(S)
    BY <1>3
  <1>6. ASSUME NEW T \in SUBSET S, T # S
        PROVE  T \in K
    <2>1. T \in SUBSET D /\ IsFiniteSet(S)
      BY <1>1
    <2>2. Cardinality(T) < Cardinality(S)
      <3>1. Cardinality(T) <= Cardinality(S) /\ (Cardinality(T) = Cardinality(S) => T = S)
        BY <2>1, FS_Subset
      <3> QED
        BY <3>1, <1>6, <1>1, <2>1
    <2> QED
      BY <2>1, <2>2, <1>4, <1>5
  <1> QED
    BY <1>5, <1>6 DEF Grows

\* An element of a set that is not empty.
LEMMA ChosenIs ==
  ASSUME NEW S, S # {}
  PROVE  Chosen(S) \in S /\ S \ {Chosen(S)} \in SUBSET S /\ S \ {Chosen(S)} # S
  BY DEF Chosen

\* Two sums agree wherever what they add up does.
LEMMA SumSame ==
  ASSUME NEW D, NEW E, IsFiniteSet(D), NEW f, NEW h, NEW g, NEW k,
         Sums(g, f, D), Sums(k, h, E), \A x \in D \cap E : f[x] = h[x]
  PROVE  \A S \in SUBSET (D \cap E) : g[S] = k[S]
  <1> DEFINE C == D \cap E
             K == {S \in SUBSET C : g[S] = k[S]}
  <1>1. IsFiniteSet(C)
    BY FS_Subset
  <1>2. ASSUME NEW S \in SUBSET C, \A T \in SUBSET S : T # S => T \in K
        PROVE  S \in K
    <2>1. S \in SUBSET D /\ S \in SUBSET E
      OBVIOUS
    <2>2. /\ g[S] = IF S = {} THEN 0 ELSE f[Chosen(S)] + g[S \ {Chosen(S)}]
          /\ k[S] = IF S = {} THEN 0 ELSE h[Chosen(S)] + k[S \ {Chosen(S)}]
      BY <2>1 DEF Sums, AddsUp
    <2>3. CASE S = {}
      BY <2>2, <2>3
    <2>4. CASE S # {}
      <3>1. Chosen(S) \in S /\ S \ {Chosen(S)} \in SUBSET S /\ S \ {Chosen(S)} # S
        BY <2>4, ChosenIs
      <3>2. f[Chosen(S)] = h[Chosen(S)] /\ g[S \ {Chosen(S)}] = k[S \ {Chosen(S)}]
        BY <3>1, <1>2
      <3> QED
        BY <2>2, <2>4, <3>2
    <2> QED
      BY <2>3, <2>4
  <1>3. Grows(K, C)
    BY <1>2 DEF Grows
  <1> HIDE DEF K
  <1>4. \A S \in SUBSET C : S \in K
    BY <1>1, <1>3, SetInduct
  <1> QED
    BY <1>4 DEF K

\* There is a sum.
LEMMA SumExists ==
  ASSUME NEW D, IsFiniteSet(D), NEW f, \A x \in D : f[x] \in Nat
  PROVE  \E g : Sums(g, f, D)
  <1> DEFINE K == {S \in SUBSET D : \E g : Sums(g, f, S)}
             G(T) == CHOOSE g : Sums(g, f, T)
             val(T) == G(T)[T]
  <1>1. ASSUME NEW S \in SUBSET D, \A T \in SUBSET S : T # S => T \in K
        PROVE  S \in K
    <2>1. \A T \in SUBSET S : T # S => Sums(G(T), f, T)
      BY <1>1
    <2> HIDE DEF G
    <2>f. \A T \in SUBSET S : IsFiniteSet(T)
      BY FS_Subset
    <2>2. ASSUME NEW T \in SUBSET S, T # S
          PROVE  /\ val(T) \in Nat
                 /\ val(T) = IF T = {} THEN 0 ELSE f[Chosen(T)] + val(T \ {Chosen(T)})
      <3>1. Sums(G(T), f, T) /\ T \in SUBSET T
        BY <2>1, <2>2
      <3>2. /\ val(T) \in Nat
            /\ val(T) = IF T = {} THEN 0 ELSE f[Chosen(T)] + G(T)[T \ {Chosen(T)}]
        BY <3>1 DEF Sums, AddsUp
      <3>3. CASE T # {}
        <4> DEFINE U == T \ {Chosen(T)}
        <4>1. U \in SUBSET T /\ U # T
          BY <3>3, ChosenIs
        <4> HIDE DEF U
        <4>2. U \in SUBSET S /\ U # S
          BY <4>1
        <4>3. Sums(G(U), f, U)
          BY <4>2, <2>1
        <4>4. U \in SUBSET (T \cap U)
          BY <4>1
        <4>5. G(T)[U] = G(U)[U]
          BY <3>1, <4>3, <4>4, <2>f, SumSame
        <4> QED
          BY <3>2, <3>3, <4>5 DEF U
      <3> QED
        BY <3>2, <3>3
    <2> HIDE DEF val
    <2> DEFINE top == IF S = {} THEN 0 ELSE f[Chosen(S)] + val(S \ {Chosen(S)})
               new == [T \in SUBSET S |-> IF T = S THEN top ELSE val(T)]
    <2>3. top \in Nat
      <3>1. CASE S # {}
        <4>1. Chosen(S) \in S /\ S \ {Chosen(S)} \in SUBSET S /\ S \ {Chosen(S)} # S
          BY <3>1, ChosenIs
        <4>2. f[Chosen(S)] \in Nat /\ val(S \ {Chosen(S)}) \in Nat
          BY <4>1, <2>2
        <4> QED
          BY <4>2, <3>1
      <3> QED
        BY <3>1
    <2>4. new \in [SUBSET S -> Nat]
      BY <2>2, <2>3
    <2>5. ASSUME NEW T \in SUBSET S
          PROVE  new[T] = IF T = {} THEN 0 ELSE f[Chosen(T)] + new[T \ {Chosen(T)}]
      <3>1. CASE T = {}
        <4>1. CASE S = {}
          BY <3>1, <4>1
        <4>2. CASE S # {}
          <5>1. T # S /\ val(T) = 0
            BY <3>1, <4>2, <2>2
          <5>2. new[T] = val(T)
            BY <5>1
          <5> QED
            BY <3>1, <5>1, <5>2
        <4> QED
          BY <4>1, <4>2
      <3>2. CASE T # {}
        <4> DEFINE U == T \ {Chosen(T)}
        <4>1. U \in SUBSET T /\ U # T
          BY <3>2, ChosenIs
        <4>2. U \in SUBSET S /\ U # S
          BY <4>1
        <4>3. new[U] = val(U)
          BY <4>2
        <4>4. CASE T = S
          BY <4>3, <4>4, <3>2
        <4>5. CASE T # S
          <5>1. new[T] = val(T)
            BY <4>5
          <5>2. val(T) = f[Chosen(T)] + val(U)
            BY <4>5, <2>2, <3>2
          <5> QED
            BY <5>1, <5>2, <4>3, <3>2
        <4> QED
          BY <4>4, <4>5
      <3> QED
        BY <3>1, <3>2
    <2> HIDE DEF new
    <2>6. Sums(new, f, S)
      BY <2>4, <2>5 DEF Sums, AddsUp
    <2> QED
      BY <2>6
  <1>2. Grows(K, D)
    BY <1>1 DEF Grows
  <1>3. \A S \in SUBSET D : S \in K
    <2> HIDE DEF K
    <2> QED
      BY <1>2, SetInduct
  <1>4. D \in SUBSET D
    OBVIOUS
  <1> QED
    BY <1>3, <1>4

\* SumFunction is what the sum comes to over the whole domain.
LEMMA SumFunctionIs ==
  ASSUME NEW D, IsFiniteSet(D), NEW f \in [D -> Nat]
  PROVE  \E g : Sums(g, f, D) /\ SumFunction(f) = g[D]
  <1> DEFINE Rec(g) == g = [S \in SUBSET D |-> IF S = {} THEN 0
                              ELSE f[Chosen(S)] + g[S \ {Chosen(S)}]]
             sum == CHOOSE g : Rec(g)
  <1>1. SumFunction(f) = sum[D]
    <2>1. DOMAIN f = D
      OBVIOUS
    <2> QED
      BY <2>1 DEF SumFunction, SumFunctionOnSet, FoldFunctionOnSet, MapThenFoldSet, Chosen
  <1>2. PICK g : Sums(g, f, D)
    BY SumExists
  <1>3. g = [S \in SUBSET D |-> g[S]]
    BY <1>2 DEF Sums
  <1>4. Rec(g)
    BY <1>2, <1>3, Zenon DEF Sums, AddsUp
  <1>5. Rec(sum)
    BY <1>4
  <1> HIDE DEF sum
  <1>6. AddsUp(sum, f, D)
    BY <1>5 DEF AddsUp
  <1>7. sum = [S \in SUBSET D |-> sum[S]]
    BY <1>5
  <1> DEFINE K == {S \in SUBSET D : sum[S] \in Nat}
  <1>8. ASSUME NEW S \in SUBSET D, \A T \in SUBSET S : T # S => T \in K
        PROVE  S \in K
    <2>1. sum[S] = IF S = {} THEN 0 ELSE f[Chosen(S)] + sum[S \ {Chosen(S)}]
      BY <1>6 DEF AddsUp
    <2>2. CASE S # {}
      <3>1. Chosen(S) \in S /\ S \ {Chosen(S)} \in SUBSET S /\ S \ {Chosen(S)} # S
        BY <2>2, ChosenIs
      <3>2. f[Chosen(S)] \in Nat /\ sum[S \ {Chosen(S)}] \in Nat
        BY <3>1, <1>8
      <3> QED
        BY <2>1, <2>2, <3>2
    <2> QED
      BY <2>1, <2>2
  <1>9. Grows(K, D)
    BY <1>8 DEF Grows
  <1>10. \A S \in SUBSET D : S \in K
    <2> HIDE DEF K
    <2> QED
      BY <1>9, SetInduct
  <1>11. sum \in [SUBSET D -> Nat]
    BY <1>7, <1>10
  <1> QED
    BY <1>1, <1>6, <1>11 DEF Sums

\* The order does not matter: any element may be the next.
LEMMA SumAnyOrder ==
  ASSUME NEW D, IsFiniteSet(D), NEW f, \A x \in D : f[x] \in Nat, NEW g, Sums(g, f, D)
  PROVE  \A S \in SUBSET D : \A x \in S : g[S] = f[x] + g[S \ {x}]
  <1> DEFINE K == {S \in SUBSET D : \A x \in S : g[S] = f[x] + g[S \ {x}]}
  <1>1. ASSUME NEW S \in SUBSET D, \A T \in SUBSET S : T # S => T \in K, NEW x \in S
        PROVE  g[S] = f[x] + g[S \ {x}]
    <2> DEFINE c == Chosen(S)
               U == S \ {x}
               V == S \ {c}
               W == (S \ {x}) \ {c}
    <2>1. c \in S /\ g[S] = f[c] + g[V]
      BY ChosenIs DEF Sums, AddsUp
    <2> HIDE DEF c
    <2>2. CASE c = x
      BY <2>1, <2>2
    <2>3. CASE c # x
      <3>1. U \in SUBSET S /\ U # S /\ V \in SUBSET S /\ V # S /\ c \in U /\ x \in V
        BY <2>1, <2>3
      <3>2. g[U] = f[c] + g[U \ {c}] /\ g[V] = f[x] + g[V \ {x}]
        BY <3>1, <1>1
      <3>3. U \ {c} = W /\ V \ {x} = W
        OBVIOUS
      <3>4. W \in SUBSET D /\ c \in D /\ x \in D
        BY <2>1
      <3>5. g[W] \in Nat /\ f[c] \in Nat /\ f[x] \in Nat
        BY <3>4 DEF Sums
      <3>6. g[S] = f[c] + (f[x] + g[W]) /\ g[U] = f[c] + g[W]
        BY <2>1, <3>2, <3>3
      <3> HIDE DEF U, W
      <3>7. g[S] = f[x] + g[U]
        BY <3>5, <3>6
      <3> QED
        BY <3>7 DEF U
    <2> QED
      BY <2>2, <2>3
  <1>2. Grows(K, D)
    BY <1>1 DEF Grows
  <1>3. \A S \in SUBSET D : S \in K
    <2> HIDE DEF K
    <2> QED
      BY <1>2, SetInduct
  <1> QED
    BY <1>3

\* A sum is one of its terms and the sum of the others.
LEMMA SumWithout ==
  ASSUME NEW D, IsFiniteSet(D), NEW f \in [D -> Nat], NEW x \in D
  PROVE  SumFunction(f) = f[x] + SumFunction([y \in D \ {x} |-> f[y]])
  <1> DEFINE E == D \ {x}
             h == [y \in E |-> f[y]]
  <1>1. IsFiniteSet(E) /\ h \in [E -> Nat] /\ \A y \in D \cap E : f[y] = h[y]
    BY FS_Subset
  <1>e. E \in SUBSET D /\ E \in SUBSET (D \cap E) /\ D \in SUBSET D
    OBVIOUS
  <1>2. PICK g : Sums(g, f, D) /\ SumFunction(f) = g[D]
    BY SumFunctionIs
  <1> HIDE DEF h
  <1>3. g[D] = f[x] + g[E]
    BY <1>2, <1>e, SumAnyOrder
  <1> HIDE DEF E
  <1>4. PICK k : Sums(k, h, E) /\ SumFunction(h) = k[E]
    BY <1>1, SumFunctionIs
  <1>5. g[E] = k[E]
    BY <1>1, <1>2, <1>4, <1>e, SumSame
  <1> QED
    BY <1>2, <1>3, <1>4, <1>5 DEF h, E

LEMMA SumNat ==
  ASSUME NEW D, IsFiniteSet(D), NEW f \in [D -> Nat]
  PROVE  SumFunction(f) \in Nat
  <1>1. PICK g : Sums(g, f, D) /\ SumFunction(f) = g[D]
    BY SumFunctionIs
  <1>2. D \in SUBSET D
    OBVIOUS
  <1> QED
    BY <1>1, <1>2 DEF Sums

\* A sum of zeros is zero.
LEMMA SumZero ==
  ASSUME NEW D, IsFiniteSet(D), NEW f \in [D -> Nat], \A x \in D : f[x] = 0
  PROVE  SumFunction(f) = 0
  <1>1. PICK g : Sums(g, f, D) /\ SumFunction(f) = g[D]
    BY SumFunctionIs
  <1> DEFINE K == {S \in SUBSET D : g[S] = 0}
  <1>2. ASSUME NEW S \in SUBSET D, \A T \in SUBSET S : T # S => T \in K
        PROVE  S \in K
    <2>1. g[S] = IF S = {} THEN 0 ELSE f[Chosen(S)] + g[S \ {Chosen(S)}]
      BY <1>1 DEF Sums, AddsUp
    <2>2. CASE S # {}
      <3>1. Chosen(S) \in S /\ S \ {Chosen(S)} \in SUBSET S /\ S \ {Chosen(S)} # S
        BY <2>2, ChosenIs
      <3>2. f[Chosen(S)] = 0 /\ g[S \ {Chosen(S)}] = 0
        BY <3>1, <1>2
      <3> QED
        BY <2>1, <2>2, <3>2
    <2> QED
      BY <2>1, <2>2
  <1>3. Grows(K, D)
    BY <1>2 DEF Grows
  <1>4. \A S \in SUBSET D : S \in K
    <2> HIDE DEF K
    <2> QED
      BY <1>3, SetInduct
  <1> QED
    BY <1>1, <1>4

\* A sum of no more, term by term, is no more.
LEMMA SumAtMost ==
  ASSUME NEW D, IsFiniteSet(D), NEW f \in [D -> Nat], NEW h \in [D -> Nat],
         \A x \in D : f[x] <= h[x]
  PROVE  SumFunction(f) <= SumFunction(h)
  <1>1. PICK g : Sums(g, f, D) /\ SumFunction(f) = g[D]
    BY SumFunctionIs
  <1>k. PICK k : Sums(k, h, D) /\ SumFunction(h) = k[D]
    BY SumFunctionIs
  <1> DEFINE K == {S \in SUBSET D : g[S] <= k[S]}
  <1>2. ASSUME NEW S \in SUBSET D, \A T \in SUBSET S : T # S => T \in K
        PROVE  S \in K
    <2>1. /\ g[S] = IF S = {} THEN 0 ELSE f[Chosen(S)] + g[S \ {Chosen(S)}]
          /\ k[S] = IF S = {} THEN 0 ELSE h[Chosen(S)] + k[S \ {Chosen(S)}]
      BY <1>1, <1>k DEF Sums, AddsUp
    <2>2. CASE S # {}
      <3>1. Chosen(S) \in S /\ S \ {Chosen(S)} \in SUBSET S /\ S \ {Chosen(S)} # S
        BY <2>2, ChosenIs
      <3>2. f[Chosen(S)] <= h[Chosen(S)] /\ g[S \ {Chosen(S)}] <= k[S \ {Chosen(S)}]
        BY <3>1, <1>2
      <3>3. /\ f[Chosen(S)] \in Nat /\ h[Chosen(S)] \in Nat
            /\ g[S \ {Chosen(S)}] \in Nat /\ k[S \ {Chosen(S)}] \in Nat
        BY <3>1, <1>1, <1>k DEF Sums
      <3> QED
        BY <2>1, <2>2, <3>2, <3>3
    <2> QED
      BY <2>1, <2>2
  <1>3. Grows(K, D)
    BY <1>2 DEF Grows
  <1>4. \A S \in SUBSET D : S \in K
    <2> HIDE DEF K
    <2> QED
      BY <1>3, SetInduct
  <1> QED
    BY <1>1, <1>k, <1>4

-----------------------------------------------------------------------------
(* Bytes *)

\* The bytes of each section of a slot.
LEMMA SizesAre ==
  ASSUME NEW slot, SlotInv(slot)
  PROVE  /\ IsFiniteSet(DOMAIN slot.coinbases)
         /\ [id \in DOMAIN slot.coinbases |-> SizeOf[slot.coinbases[id]]]
               \in [DOMAIN slot.coinbases -> Nat]
  <1>1. \A id \in DOMAIN slot.coinbases : slot.coinbases[id] \in Bodies
    BY MapsOf DEF SlotInv
  <1>2. \A id \in DOMAIN slot.coinbases : SizeOf[slot.coinbases[id]] \in Nat
    BY <1>1, SlotsAssumption
  <1> QED
    BY <1>2 DEF SlotInv, Finite

\* coinbase_bytes is a number.
LEMMA BytesNat ==
  ASSUME NEW slot, SlotInv(slot)
  PROVE  Bytes(slot) \in Nat
  BY SizesAre, SumNat DEF Bytes

\* No sections, no bytes.
LEMMA BytesNone ==
  ASSUME NEW slot, DOMAIN slot.coinbases = {}
  PROVE  Bytes(slot) = 0
  <1> DEFINE none == [id \in DOMAIN slot.coinbases |-> SizeOf[slot.coinbases[id]]]
  <1>1. none \in [{} -> Nat] /\ IsFiniteSet({}) /\ \A id \in {} : none[id] = 0
    BY FS_EmptySet
  <1>2. Bytes(slot) = SumFunction(none)
    BY DEF Bytes
  <1> HIDE DEF none
  <1> QED
    BY <1>1, <1>2, SumZero

\* A slot with one section less has no more bytes.
LEMMA BytesLess ==
  ASSUME NEW slot, SlotInv(slot), NEW less, NEW id,
         DOMAIN less.coinbases = DOMAIN slot.coinbases \ {id},
         \A x \in DOMAIN less.coinbases : less.coinbases[x] = slot.coinbases[x]
  PROVE  Bytes(less) \in Nat /\ Bytes(less) <= Bytes(slot)
  <1> DEFINE D == DOMAIN slot.coinbases
             f == [x \in D |-> SizeOf[slot.coinbases[x]]]
             h == [x \in D \ {id} |-> f[x]]
             l == [x \in DOMAIN less.coinbases |-> SizeOf[less.coinbases[x]]]
  <1>1. IsFiniteSet(D) /\ f \in [D -> Nat]
    BY SizesAre
  <1>2. l = h
    OBVIOUS
  <1>3. Bytes(slot) = SumFunction(f) /\ Bytes(less) = SumFunction(l)
    BY DEF Bytes
  <1>4. D \ {id} \in SUBSET D
    OBVIOUS
  <1>5. IsFiniteSet(D \ {id}) /\ h \in [D \ {id} -> Nat]
    BY <1>1, <1>4, FS_Subset
  <1>6. CASE id \in D
    <2> HIDE DEF f, l, D
    <2>1. SumFunction(f) = f[id] + SumFunction(h)
      BY <1>1, <1>6, SumWithout
    <2>2. SumFunction(h) \in Nat /\ f[id] \in Nat
      BY <1>1, <1>5, <1>6, SumNat
    <2> HIDE DEF h
    <2> QED
      BY <2>1, <2>2, <1>2, <1>3
  <1>7. CASE id \notin D
    <2>1. h = f
      BY <1>7
    <2>2. SumFunction(f) \in Nat
      BY <1>1, SumNat
    <2> HIDE DEF f, h, l, D
    <2> QED
      BY <2>1, <2>2, <1>2, <1>3
  <1> QED
    BY <1>6, <1>7

\* What forget_coinbase leaves.
LEMMA ForgetIs ==
  ASSUME NEW slot, SlotInv(slot), NEW id
  PROVE  /\ DOMAIN Forget(slot, id).coinbases = DOMAIN slot.coinbases \ {id}
         /\ \A x \in DOMAIN slot.coinbases \ {id} :
               Forget(slot, id).coinbases[x] = slot.coinbases[x]
  <1>1. SlotInv(WithoutCached(slot, id)) /\ WithoutCached(slot, id).coinbases = slot.coinbases
    BY WithoutCachedInv
  <1>2. Forget(slot, id).coinbases = Restrict(slot.coinbases, DOMAIN slot.coinbases \ {id})
    BY <1>1 DEF Forget, SlotInv, JobSlot
  <1>3. slot.coinbases \in Maps(Ids, Bodies)
    BY MapsOf DEF SlotInv
  <1> QED
    BY <1>2, <1>3, PartOf

\* What absorb makes of a slot's sections.
LEMMA AbsorbCoinbaseIs ==
  ASSUME NEW slot, SlotInv(slot), NEW id, NEW body,
         ~(body = None \/ HoldsAlready(slot, id, body))
  PROVE  /\ AbsorbCoinbase(slot, id, body).job = slot.job
         /\ DOMAIN AbsorbCoinbase(slot, id, body).coinbases = DOMAIN slot.coinbases \cup {id}
         /\ \A x \in DOMAIN slot.coinbases \ {id} :
               AbsorbCoinbase(slot, id, body).coinbases[x] = slot.coinbases[x]
  <1> DEFINE old == WithoutCached(slot, id)
  <1>1. SlotInv(old) /\ old.coinbases = slot.coinbases /\ old.job = slot.job
    BY WithoutCachedInv
  <1>2. AbsorbCoinbase(slot, id, body) = [old EXCEPT !.coinbases = Insert(@, id, body)]
    BY DEF AbsorbCoinbase
  <1> HIDE DEF old
  <1>3. /\ AbsorbCoinbase(slot, id, body).job = slot.job
        /\ AbsorbCoinbase(slot, id, body).coinbases = Insert(slot.coinbases, id, body)
    BY <1>1, <1>2 DEF SlotInv, JobSlot
  <1> QED
    BY <1>3 DEF Insert

\* The job a slot has after a share's sections are absorbed.
LEMMA JobAfter ==
  ASSUME NEW slot, SlotInv(slot), NEW id, NEW body
  PROVE  AbsorbCoinbase(slot, id, body).job = slot.job
  <1>1. CASE body = None \/ HoldsAlready(slot, id, body)
    BY <1>1 DEF AbsorbCoinbase
  <1>2. CASE ~(body = None \/ HoldsAlready(slot, id, body))
    BY <1>2, AbsorbCoinbaseIs
  <1> QED
    BY <1>1, <1>2

\* A section taken in and forgotten again leaves no more than there was.
LEMMA ForgetAbsorbed ==
  ASSUME NEW slot, SlotInv(slot), NEW id \in Ids, NEW body \in Bodies \cup {None},
         SlotInv(AbsorbCoinbase(slot, id, body))
  PROVE  Bytes(Forget(AbsorbCoinbase(slot, id, body), id)) <= Bytes(slot)
  <1> DEFINE new == AbsorbCoinbase(slot, id, body)
             less == Forget(new, id)
  <1>1. CASE body = None \/ HoldsAlready(slot, id, body)
    <2>1. new = slot
      BY <1>1 DEF AbsorbCoinbase
    <2>2. /\ DOMAIN Forget(slot, id).coinbases = DOMAIN slot.coinbases \ {id}
          /\ \A x \in DOMAIN Forget(slot, id).coinbases :
                Forget(slot, id).coinbases[x] = slot.coinbases[x]
      BY ForgetIs
    <2>3. Bytes(Forget(slot, id)) <= Bytes(slot)
      BY <2>2, BytesLess
    <2> QED
      BY <2>1, <2>3
  <1>2. CASE ~(body = None \/ HoldsAlready(slot, id, body))
    <2>1. /\ DOMAIN new.coinbases = DOMAIN slot.coinbases \cup {id}
          /\ \A x \in DOMAIN slot.coinbases \ {id} : new.coinbases[x] = slot.coinbases[x]
      BY <1>2, AbsorbCoinbaseIs
    <2> HIDE DEF new
    <2>n. SlotInv(new)
      BY DEF new
    <2>2. /\ DOMAIN less.coinbases = DOMAIN new.coinbases \ {id}
          /\ \A x \in DOMAIN new.coinbases \ {id} : less.coinbases[x] = new.coinbases[x]
      BY <2>n, ForgetIs
    <2> HIDE DEF less
    <2>3. DOMAIN less.coinbases = DOMAIN slot.coinbases \ {id}
      BY <2>1, <2>2
    <2>4. \A x \in DOMAIN less.coinbases : less.coinbases[x] = slot.coinbases[x]
      BY <2>1, <2>2, <2>3
    <2>5. Bytes(less) <= Bytes(slot)
      BY <2>3, <2>4, BytesLess
    <2> QED
      BY <2>5 DEF less, new
  <1> QED
    BY <1>1, <1>2

-----------------------------------------------------------------------------
(* Bytes over all slots *)

\* Slots that are all in order.
InOrder(sl) == sl \in [Slots -> JobSlot] /\ \A t \in Slots : SlotInv(sl[t])

LEMMA HeldNat ==
  ASSUME NEW sl, InOrder(sl)
  PROVE  /\ [t \in Slots |-> Bytes(sl[t])] \in [Slots -> Nat]
         /\ HeldBy(sl) \in Nat
  <1>1. [t \in Slots |-> Bytes(sl[t])] \in [Slots -> Nat]
    BY BytesNat DEF InOrder
  <1> QED
    BY <1>1, SumNat, SlotsAssumption DEF HeldBy

\* Slots that hold no more each hold no more in all.
LEMMA HeldAtMost ==
  ASSUME NEW sl, InOrder(sl), NEW old, InOrder(old),
         \A t \in Slots : Bytes(sl[t]) <= Bytes(old[t])
  PROVE  HeldBy(sl) <= HeldBy(old)
  <1> DEFINE f == [t \in Slots |-> Bytes(sl[t])]
             h == [t \in Slots |-> Bytes(old[t])]
  <1>1. f \in [Slots -> Nat] /\ h \in [Slots -> Nat]
    BY HeldNat
  <1>2. \A t \in Slots : f[t] <= h[t]
    OBVIOUS
  <1>3. HeldBy(sl) = SumFunction(f) /\ HeldBy(old) = SumFunction(h)
    BY DEF HeldBy
  <1> HIDE DEF f, h
  <1> QED
    BY <1>1, <1>2, <1>3, SumAtMost, SlotsAssumption

\* One slot changes: the count follows that slot's bytes.
LEMMA HeldSet ==
  ASSUME NEW sl, InOrder(sl), NEW s \in Slots, NEW slot, Bytes(slot) \in Nat
  PROVE  HeldBy([sl EXCEPT ![s] = slot]) = HeldBy(sl) - Bytes(sl[s]) + Bytes(slot)
  <1> DEFINE new == [sl EXCEPT ![s] = slot]
             f == [t \in Slots |-> Bytes(sl[t])]
             h == [t \in Slots |-> Bytes(new[t])]
             rest == [t \in Slots \ {s} |-> f[t]]
  <1>1. f \in [Slots -> Nat]
    BY HeldNat
  <1>2. /\ new[s] = slot /\ \A t \in Slots \ {s} : new[t] = sl[t]
    BY DEF InOrder
  <1>3. h[s] = Bytes(slot) /\ f[s] = Bytes(sl[s]) /\ \A t \in Slots \ {s} : h[t] = f[t]
    BY <1>2
  <1>4. HeldBy(sl) = SumFunction(f) /\ HeldBy(new) = SumFunction(h)
    BY DEF HeldBy
  <1>5. h = [t \in Slots |-> h[t]]
    OBVIOUS
  <1> HIDE DEF new, f, h
  <1>6. \A t \in Slots : h[t] \in Nat
    BY <1>1, <1>3
  <1>7. h \in [Slots -> Nat]
    BY <1>5, <1>6
  <1>8. [t \in Slots \ {s} |-> h[t]] = rest
    BY <1>3
  <1>9. SumFunction(f) = f[s] + SumFunction(rest)
    BY <1>1, SumWithout, SlotsAssumption
  <1>10. SumFunction(h) = h[s] + SumFunction(rest)
    BY <1>7, <1>8, SumWithout, SlotsAssumption
  <1>11. IsFiniteSet(Slots \ {s}) /\ rest \in [Slots \ {s} -> Nat]
    BY <1>1, FS_Subset, SlotsAssumption
  <1>12. SumFunction(rest) \in Nat /\ f[s] \in Nat /\ h[s] \in Nat
    BY <1>1, <1>7, <1>11, SumNat
  <1> HIDE DEF rest
  <1>13. HeldBy(new) = HeldBy(sl) - Bytes(sl[s]) + Bytes(slot)
    BY <1>3, <1>4, <1>9, <1>10, <1>12
  <1> QED
    BY <1>13 DEF new

-----------------------------------------------------------------------------
(* The count *)

\* The share's sections are in and its slot has become new; what taken is then.
Becomes(taken, new, s, job) ==
    /\ \A t \in Slots \ {s} :
          taken.slots[t] = slots[t] \/ taken.slots[t] = Evict(slots[t])
    /\ \/ taken.slots[s] = new
       \/ job \notin {None, slots[s].job} /\ taken.slots[s] = Evict(new)
    /\ job \notin {None, slots[s].job} => taken.held = HeldBy(taken.slots)
    /\ job \in {None, slots[s].job} =>
          /\ taken.slots = [slots EXCEPT ![s] = new]
          /\ taken.held = held - Bytes(slots[s]) + Bytes(new)

LEMMA TakenIs ==
  ASSUME SlotsInv, NEW s \in Slots, NEW job, NEW id, NEW body
  PROVE  Becomes(Taken(s, job, id, body), Absorb(slots[s], job, id, body), s, job)
  <1> DEFINE all  == [slots EXCEPT ![s] = Absorb(@, job, id, body)]
             kept == [t \in Slots |-> IF t \in EvictedBy(s) THEN Evict(all[t]) ELSE all[t]]
             taken == Taken(s, job, id, body)
             new == Absorb(slots[s], job, id, body)
  <1>1. slots \in [Slots -> JobSlot]
    BY DEF SlotsInv
  <1>2. all = [slots EXCEPT ![s] = new] /\ all[s] = new /\ \A t \in Slots \ {s} : all[t] = slots[t]
    BY <1>1
  <1>3. \A t \in Slots : kept[t] = all[t] \/ kept[t] = Evict(all[t])
    OBVIOUS
  <1>4. CASE job \notin {None, slots[s].job}
    <2>1. taken.slots = kept /\ taken.held = HeldBy(kept)
      BY <1>4 DEF Taken
    <2> HIDE DEF taken, kept, all, new
    <2> QED
      BY <1>2, <1>3, <1>4, <2>1 DEF taken, new, Becomes
  <1>5. CASE job \in {None, slots[s].job}
    <2>1. taken.slots = all /\ taken.held = held - Bytes(slots[s]) + Bytes(all[s])
      BY <1>5 DEF Taken
    <2> HIDE DEF taken, kept, all, new
    <2> QED
      BY <1>2, <1>5, <2>1 DEF taken, new, Becomes
  <1> QED
    BY <1>4, <1>5

\* An evicted slot holds nothing, and has the job it had.
LEMMA EvictIs ==
  ASSUME NEW slot, SlotInv(slot)
  PROVE  Bytes(Evict(slot)) = 0 /\ Evict(slot).job = slot.job
         /\ DOMAIN Evict(slot).coinbases = {}
  <1>1. Evict(slot).coinbases = << >> /\ Evict(slot).job = slot.job
    BY DEF Evict, SlotInv, JobSlot
  <1>2. DOMAIN Evict(slot).coinbases = {}
    BY <1>1, NoEntries
  <1> QED
    BY <1>1, <1>2, BytesNone

\* A job section that differs starts a slot that holds nothing; else the slot
\* is as it was.
LEMMA AbsorbJobIs ==
  ASSUME NEW slot, SlotInv(slot), NEW job
  PROVE  /\ job \in {None, slot.job} => AbsorbJob(slot, job) = slot
         /\ job \notin {None, slot.job} =>
               /\ AbsorbJob(slot, job).job = job
               /\ DOMAIN AbsorbJob(slot, job).coinbases = {}
               /\ Bytes(AbsorbJob(slot, job)) = 0
  <1>1. CASE job \notin {None, slot.job}
    <2>1. AbsorbJob(slot, job).job = job /\ AbsorbJob(slot, job).coinbases = << >>
      BY <1>1 DEF AbsorbJob, EmptySlot
    <2>2. DOMAIN AbsorbJob(slot, job).coinbases = {}
      BY <2>1, NoEntries
    <2> QED
      BY <1>1, <2>1, <2>2, BytesNone
  <1>2. CASE job \in {None, slot.job}
    BY <1>2 DEF AbsorbJob
  <1> QED
    BY <1>1, <1>2

\* The count is right after the sections are in, with or without a recount.
LEMMA TakenCounted ==
  ASSUME SlotsInv, held = HeldBy(slots), NEW s \in Slots, NEW job \in Jobs \cup {None},
         NEW id \in Ids, NEW body \in Bodies \cup {None}, ~Refuses(slots[s], job, id, body)
  PROVE  /\ InOrder(Taken(s, job, id, body).slots)
         /\ Taken(s, job, id, body).held = HeldBy(Taken(s, job, id, body).slots)
  <1> DEFINE taken == Taken(s, job, id, body)
             new == Absorb(slots[s], job, id, body)
  <1>1. InOrder(taken.slots)
    BY TakenInv DEF InOrder
  <1>2. /\ job \notin {None, slots[s].job} => taken.held = HeldBy(taken.slots)
        /\ job \in {None, slots[s].job} =>
              /\ taken.slots = [slots EXCEPT ![s] = new]
              /\ taken.held = held - Bytes(slots[s]) + Bytes(new)
    BY TakenIs DEF Becomes
  <1>3. InOrder(slots)
    BY DEF InOrder, SlotsInv
  <1>4. SlotInv(new)
    BY <1>3, AbsorbInv DEF InOrder
  <1> HIDE DEF taken, new
  <1>5. Bytes(new) \in Nat
    BY <1>4, BytesNat
  <1>6. HeldBy([slots EXCEPT ![s] = new]) = HeldBy(slots) - Bytes(slots[s]) + Bytes(new)
    BY <1>3, <1>5, HeldSet
  <1>7. taken.held = HeldBy(taken.slots)
    BY <1>2, <1>6
  <1> QED
    BY <1>1, <1>7 DEF taken

\* Slots other than the share's hold no more than before.
LEMMA OthersNoMore ==
  ASSUME SlotsInv, NEW s \in Slots, NEW job, NEW id, NEW body, NEW t \in Slots \ {s}
  PROVE  Bytes(Taken(s, job, id, body).slots[t]) <= Bytes(slots[t])
  <1>1. SlotInv(slots[t])
    BY DEF SlotsInv
  <1>2. \/ Taken(s, job, id, body).slots[t] = slots[t]
        \/ Taken(s, job, id, body).slots[t] = Evict(slots[t])
    <2>1. Becomes(Taken(s, job, id, body), Absorb(slots[s], job, id, body), s, job)
      BY TakenIs
    <2> QED
      BY <2>1, Zenon DEF Becomes
  <1>3. Bytes(slots[t]) \in Nat /\ Bytes(Evict(slots[t])) = 0
    BY <1>1, BytesNat, EvictIs
  <1> QED
    BY <1>2, <1>3

\* A share that gets past absorb and the budget leaves the session within it:
\* one that brought no section in added nothing.
LEMMA AcceptedWithin ==
  ASSUME SlotsInv, HeldWithinBudget, NEW s \in Slots, NEW job \in Jobs \cup {None},
         NEW id \in Ids, NEW body \in Bodies \cup {None},
         Accepted(s, Taken(s, job, id, body), job, id, body)
  PROVE  Taken(s, job, id, body).held <= Budget
  <1> DEFINE taken == Taken(s, job, id, body)
             base == AbsorbJob(slots[s], job)
             new == AbsorbCoinbase(base, id, body)
  <1>0. /\ held = HeldBy(slots) /\ held <= Budget /\ Budget \in Nat
        /\ ~Refuses(slots[s], job, id, body)
        /\ ~OverBudget(s, taken, id, body)
        /\ SlotInv(slots[s]) /\ InOrder(slots)
    BY SlotsAssumption DEF HeldWithinBudget, Accepted, SlotsInv, InOrder
  <1>1. InOrder(taken.slots) /\ taken.held = HeldBy(taken.slots)
    BY <1>0, TakenCounted
  <1>2. taken.held \in Nat /\ held \in Nat
    BY <1>0, <1>1, HeldNat
  <1>3. /\ taken.slots[s] = new \/ (job \notin {None, slots[s].job} /\ taken.slots[s] = Evict(new))
        /\ Absorb(slots[s], job, id, body) = new
    <2>1. Absorb(slots[s], job, id, body) = new
      BY DEF Absorb
    <2>2. Becomes(taken, Absorb(slots[s], job, id, body), s, job)
      BY TakenIs
    <2> HIDE DEF taken, new
    <2> QED
      BY <2>1, <2>2, Zenon DEF Becomes
  <1>4. SlotInv(base) /\ SlotInv(new)
    BY <1>0, <1>3, AbsorbJobInv, AbsorbInv
  <1>5. /\ job \in {None, slots[s].job} => base = slots[s]
        /\ job \notin {None, slots[s].job} =>
              base.job = job /\ DOMAIN base.coinbases = {} /\ Bytes(base) = 0
    BY <1>0, AbsorbJobIs
  <1>6. new.job = base.job /\ Evict(new).job = new.job
    BY <1>4, JobAfter, EvictIs
  <1>7. taken.slots[s].job = base.job
    BY <1>3, <1>6
  <1>8. AbsorbJob(slots[s], base.job) = base
    <2>1. CASE job \in {None, slots[s].job}
      BY <2>1, <1>5, <1>0, AbsorbJobIs
    <2>2. CASE job \notin {None, slots[s].job}
      BY <2>2, <1>5
    <2> QED
      BY <2>1, <2>2
  <1>9. CASE body = None \/ HoldsAlready(base, id, body)
    <2>1. new = base
      BY <1>9 DEF AbsorbCoinbase
    <2>2. Bytes(taken.slots[s]) <= Bytes(slots[s])
      <3>1. Bytes(slots[s]) \in Nat /\ Bytes(Evict(new)) = 0
        BY <1>0, <1>4, BytesNat, EvictIs
      <3> HIDE DEF base, new, taken
      <3> QED
        BY <3>1, <2>1, <1>3, <1>5
    <2>3. \A t \in Slots : Bytes(taken.slots[t]) <= Bytes(slots[t])
      BY <2>2, OthersNoMore
    <2> HIDE DEF taken
    <2>4. HeldBy(taken.slots) <= HeldBy(slots)
      BY <1>0, <1>1, <2>3, HeldAtMost
    <2>5. taken.held <= held /\ held <= Budget /\ Budget \in Nat
      BY <2>4, <1>0, <1>1
    <2> QED
      BY <2>5, <1>2 DEF taken
  <1>10. CASE ~(body = None \/ HoldsAlready(base, id, body))
    <2>1. ~(taken.held > Budget)
      BY <1>0, <1>7, <1>8, <1>10 DEF OverBudget
    <2>2. Budget \in Nat
      BY <1>0
    <2> HIDE DEF taken
    <2>3. taken.held <= Budget
      BY <2>1, <2>2, <1>2
    <2> QED
      BY <2>3 DEF taken
  <1> QED
    BY <1>9, <1>10

\* The section that broke the budget is taken out again: the session holds no
\* more than before the share.
LEMMA DropHeld ==
  ASSUME SlotsInv, SlotsInv', HeldWithinBudget, NEW s \in Slots, NEW job \in Jobs \cup {None},
         NEW id \in Ids, NEW body \in Bodies \cup {None},
         DropSection(s, Taken(s, job, id, body), job, id, body)
  PROVE  HeldWithinBudget'
  <1> DEFINE taken == Taken(s, job, id, body)
             base == AbsorbJob(slots[s], job)
             new == AbsorbCoinbase(base, id, body)
             less == Forget(taken.slots[s], id)
  <1>0. /\ held = HeldBy(slots) /\ held <= Budget /\ Budget \in Nat
        /\ ~Refuses(slots[s], job, id, body)
        /\ slots' = [taken.slots EXCEPT ![s] = less]
        /\ held' = taken.held - (Bytes(taken.slots[s]) - Bytes(less))
        /\ SlotInv(slots[s]) /\ InOrder(slots)
    BY SlotsAssumption DEF HeldWithinBudget, DropSection, SlotsInv, InOrder
  <1>1. InOrder(taken.slots) /\ taken.held = HeldBy(taken.slots)
    BY <1>0, TakenCounted
  <1>2. taken.held \in Nat /\ held \in Nat
    BY <1>0, <1>1, HeldNat
  <1>3. /\ taken.slots[s] = new \/ taken.slots[s] = Evict(new)
        /\ Absorb(slots[s], job, id, body) = new
    <2>1. Absorb(slots[s], job, id, body) = new
      BY DEF Absorb
    <2>2. Becomes(taken, Absorb(slots[s], job, id, body), s, job)
      BY TakenIs
    <2> HIDE DEF taken, new
    <2> QED
      BY <2>1, <2>2, Zenon DEF Becomes
  <1>4. SlotInv(base) /\ SlotInv(new)
    BY <1>0, <1>3, AbsorbJobInv, AbsorbInv
  <1>5. Bytes(base) <= Bytes(slots[s]) /\ Bytes(base) \in Nat /\ Bytes(slots[s]) \in Nat
    <2>1. Bytes(base) \in Nat /\ Bytes(slots[s]) \in Nat
      BY <1>0, <1>4, BytesNat
    <2>2. base = slots[s] \/ Bytes(base) = 0
      BY <1>0, AbsorbJobIs
    <2> HIDE DEF base
    <2> QED
      BY <2>1, <2>2
  <1>6. SlotInv(taken.slots[s])
    BY <1>1 DEF InOrder
  <1>7. SlotInv(less)
    BY <1>6, ForgetInv
  <1>8. Bytes(less) \in Nat /\ Bytes(taken.slots[s]) \in Nat
    BY <1>6, <1>7, BytesNat
  <1>9. Bytes(less) <= Bytes(slots[s])
    <2>1. CASE taken.slots[s] = new
      <3>1. Bytes(Forget(new, id)) <= Bytes(base)
        BY <1>4, ForgetAbsorbed
      <3>2. less = Forget(new, id)
        BY <2>1
      <3> HIDE DEF less, new, base
      <3> QED
        BY <3>1, <3>2, <1>5, <1>8
    <2>2. CASE taken.slots[s] = Evict(new)
      <3>1. DOMAIN taken.slots[s].coinbases = {}
        BY <2>2, <1>4, EvictIs
      <3>2. DOMAIN less.coinbases = DOMAIN taken.slots[s].coinbases \ {id}
        BY <1>6, ForgetIs
      <3>3. DOMAIN less.coinbases = {}
        BY <3>1, <3>2
      <3>4. Bytes(less) = 0
        BY <3>3, BytesNone
      <3> HIDE DEF less
      <3> QED
        BY <3>4, <1>5
    <2> QED
      BY <2>1, <2>2, <1>3
  <1> HIDE DEF less
  <1>10. HeldBy(slots') = HeldBy(taken.slots) - Bytes(taken.slots[s]) + Bytes(less)
    BY <1>0, <1>1, <1>8, HeldSet
  <1>11. held' = HeldBy(slots')
    BY <1>0, <1>1, <1>2, <1>8, <1>10
  <1>12. InOrder(slots')
    BY DEF SlotsInv, InOrder, SlotInv, JobSlot, Faithful, Finite, Limited
  <1>13. ASSUME NEW t \in Slots
         PROVE  Bytes(slots'[t]) <= Bytes(slots[t])
    <2>1. CASE t = s
      <3>1. slots'[t] = less
        BY <2>1, <1>0, <1>1 DEF InOrder
      <3> QED
        BY <2>1, <3>1, <1>9
    <2>2. CASE t # s
      <3>1. slots'[t] = taken.slots[t]
        BY <2>2, <1>0, <1>1 DEF InOrder
      <3>2. Bytes(taken.slots[t]) <= Bytes(slots[t])
        BY <2>2, OthersNoMore
      <3> QED
        BY <3>1, <3>2
    <2> QED
      BY <2>1, <2>2
  <1>14. HeldBy(slots') <= HeldBy(slots)
    BY <1>0, <1>12, <1>13, HeldAtMost
  <1>15. HeldBy(slots') \in Nat
    BY <1>12, HeldNat
  <1>16. held' <= Budget
    BY <1>0, <1>2, <1>11, <1>14, <1>15
  <1> QED
    BY <1>11, <1>16 DEF HeldWithinBudget, HeldBy, Bytes

\* verify touches the caches only.
LEMMA VerifyHeld ==
  ASSUME SlotsInv, HeldWithinBudget, NEW s \in Slots, NEW job \in Jobs \cup {None},
         NEW id \in Ids, NEW body \in Bodies \cup {None}, NEW time,
         Verify(s, Taken(s, job, id, body), job, id, body, time)
  PROVE  HeldWithinBudget'
  <1> DEFINE taken == Taken(s, job, id, body)
             slot == Parsed(taken.slots[s], id)
             same(d) == d.coinbases = taken.slots[s].coinbases
  <1>0. /\ held = HeldBy(slots) /\ SlotInv(slots[s])
        /\ Accepted(s, taken, job, id, body) /\ ~Refuses(slots[s], job, id, body)
        /\ id \in DOMAIN taken.slots[s].coinbases
        /\ held' = taken.held
    BY DEF HeldWithinBudget, Verify, Accepted, SlotsInv
  <1>1. InOrder(taken.slots) /\ taken.held = HeldBy(taken.slots) /\ taken.held <= Budget
    BY <1>0, TakenCounted, AcceptedWithin
  <1>2. SlotInv(taken.slots[s])
    BY <1>1 DEF InOrder
  <1>3. SlotInv(slot) /\ slot.coinbases = taken.slots[s].coinbases
    BY <1>0, <1>2, ParsedInv
  <1>4. \E done : slots' = [taken.slots EXCEPT ![s] = done] /\ same(done)
    <2> DEFINE goal == Described(slot, id, time, Counting)
               tried == Tried(slot)
               good == {k \in DOMAIN tried : Rebuilt(slot, id, time, tried[k]) = goal}
               first == tried[Min(good)]
               noted == [slot EXCEPT !.h2_cache = Put(@, <<id, first>>, goal, MAX_H2_CACHE),
                                     !.txcount = first]
               done == IF time = None \/ good = {} THEN slot ELSE noted
    <2>1. slots' = [taken.slots EXCEPT ![s] = done]
      BY DEF Verify
    <2> HIDE DEF taken, slot, good, first, goal
    <2>2. noted.coinbases = slot.coinbases
      BY <1>3 DEF SlotInv, JobSlot
    <2> HIDE DEF noted
    <2>3. done.coinbases = slot.coinbases
      BY <2>2
    <2> HIDE DEF done
    <2> QED
      BY <2>1, <2>3, <1>3
  <1>5. PICK done : slots' = [taken.slots EXCEPT ![s] = done] /\ same(done)
    BY <1>4
  <1> HIDE DEF taken, slot
  <1>6. Bytes(done) = Bytes(taken.slots[s])
    BY <1>5 DEF Bytes
  <1>7. Bytes(taken.slots[s]) \in Nat /\ HeldBy(taken.slots) \in Nat
    BY <1>1, <1>2, BytesNat, HeldNat
  <1>8. HeldBy(slots') = HeldBy(taken.slots) - Bytes(taken.slots[s]) + Bytes(done)
    BY <1>1, <1>5, <1>6, <1>7, HeldSet
  <1>9. HeldBy(slots') = HeldBy(taken.slots)
    BY <1>6, <1>7, <1>8
  <1>10. held' = HeldBy(slots') /\ held' <= Budget
    BY <1>0, <1>1, <1>9
  <1> QED
    BY <1>10 DEF HeldWithinBudget, HeldBy, Bytes

\* A session starts with nothing held.
LEMMA HeldInit == Init => HeldWithinBudget
  <1> SUFFICES ASSUME Init PROVE HeldWithinBudget
    OBVIOUS
  <1> DEFINE f == [t \in Slots |-> Bytes(slots[t])]
  <1>1. \A t \in Slots : DOMAIN slots[t].coinbases = {}
    BY NoEntries DEF Init, EmptySlot
  <1>2. \A t \in Slots : Bytes(slots[t]) = 0
    BY <1>1, BytesNone
  <1>3. f \in [Slots -> Nat] /\ \A t \in Slots : f[t] = 0
    BY <1>2
  <1>4. HeldBy(slots) = SumFunction(f)
    BY DEF HeldBy
  <1> HIDE DEF f
  <1>5. HeldBy(slots) = 0
    BY <1>3, <1>4, SumZero, SlotsAssumption
  <1> QED
    BY <1>5, SlotsAssumption DEF Init, HeldWithinBudget

\* Every share keeps the count and the budget.
LEMMA HeldStep == SlotsInv /\ SlotsInv' /\ HeldWithinBudget /\ [Next]_vars => HeldWithinBudget'
  <1> SUFFICES ASSUME SlotsInv, SlotsInv', HeldWithinBudget, [Next]_vars
               PROVE  HeldWithinBudget'
    OBVIOUS
  <1>u. CASE UNCHANGED vars
    BY <1>u DEF vars, HeldWithinBudget, HeldBy, Bytes
  <1>1. ASSUME NEW s \in Slots, NEW job \in Jobs \cup {None}, NEW id \in Ids,
               NEW body \in Bodies \cup {None}, RefuseSection(s, job, id, body)
        PROVE  HeldWithinBudget'
    BY <1>1, <1>u DEF RefuseSection
  <1>2. ASSUME NEW s \in Slots, NEW job \in Jobs \cup {None}, NEW id \in Ids,
               NEW body \in Bodies \cup {None},
               DropSection(s, Taken(s, job, id, body), job, id, body)
        PROVE  HeldWithinBudget'
    BY <1>2, DropHeld
  <1>3. ASSUME NEW s \in Slots, NEW job \in Jobs \cup {None}, NEW id \in Ids,
               NEW body \in Bodies \cup {None},
               RejectShare(s, Taken(s, job, id, body), job, id, body)
        PROVE  HeldWithinBudget'
    <2> DEFINE taken == Taken(s, job, id, body)
    <2>1. /\ Accepted(s, taken, job, id, body) /\ ~Refuses(slots[s], job, id, body)
          /\ slots' = taken.slots /\ held' = taken.held
      BY <1>3 DEF RejectShare, Accepted
    <2>2. taken.held = HeldBy(taken.slots) /\ taken.held <= Budget
      BY <2>1, TakenCounted, AcceptedWithin DEF HeldWithinBudget
    <2> HIDE DEF taken
    <2>3. held' = HeldBy(slots') /\ held' <= Budget
      BY <2>1, <2>2
    <2> QED
      BY <2>3 DEF HeldWithinBudget, HeldBy, Bytes
  <1>4. ASSUME NEW s \in Slots, NEW job \in Jobs \cup {None}, NEW id \in Ids,
               NEW body \in Bodies \cup {None}, NEW time \in Times \cup {None},
               Verify(s, Taken(s, job, id, body), job, id, body, time)
        PROVE  HeldWithinBudget'
    BY <1>4, VerifyHeld
  <1> QED
    BY <1>u, <1>1, <1>2, <1>3, <1>4 DEF Next

-----------------------------------------------------------------------------
(* Theorems *)

\* A slot never holds more coinbases, nor its caches more entries, than their
\* limits (JobSlot::absorb and verify_with_target refuse or clear in time).
THEOREM SlotsLimited == Spec => []SlotsOK
  <1>1. SlotsInv => SlotsOK
    BY DEF SlotsInv, SlotInv, SlotsOK
  <1> QED
    BY <1>1, SlotsInit, SlotsStep, PTL DEF Spec

\* The header a share is verified against is always that of the job and the
\* coinbase section its slot holds, whatever was replaced, refused, evicted or
\* cached before (absorb, forget_coinbase and evict_sections drop everything
\* derived from what they drop).
THEOREM CachesFollow == Spec => []CachesFollowSections
  BY SlotsInit, SlotsStep, InvFollows, PTL DEF Spec

\* The running count of coinbase bytes equals what the slots hold, and stays
\* within session_coinbase_budget, through inserts, replacements, job changes,
\* evictions and refusals (Session::absorb_sections, drop_coinbase, touch_slot).
THEOREM HeldCounted == Spec => []HeldWithinBudget
  <1>1. SlotsInv /\ HeldWithinBudget /\ [Next]_vars => (SlotsInv /\ HeldWithinBudget)'
    BY SlotsStep, HeldStep
  <1>2. Init => SlotsInv /\ HeldWithinBudget
    BY SlotsInit, HeldInit
  <1> QED
    BY <1>1, <1>2, PTL DEF Spec
=============================================================================
