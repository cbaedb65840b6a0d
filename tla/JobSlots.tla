------------------------------ MODULE JobSlots ------------------------------
(***************************************************************************)
(* What a session remembers of a gateway's jobs.  A share names a job slot *)
(* and a coinbase id; the job section and the coinbase section come along  *)
(* only when they are new.  Prime keeps them per slot, with two caches     *)
(* derived from them (the parsed coinbase; H2, the hash of the header's    *)
(* fixed fields), within three bounds: coinbases per slot, slots that hold *)
(* any, and bytes over all slots.                                          *)
(*                                                                         *)
(* A session is one task and on_pow does not wait between absorbing the    *)
(* sections and verifying the share, so each share is one step.  Hashes    *)
(* are ideal: a header is the record of what it commits to, and the work   *)
(* is good iff the header Prime rebuilds is the one the miner ground.  One *)
(* version and one target byte per coinbase id are modelled.               *)
(***************************************************************************)
EXTENDS Integers, Sequences, SequencesExt, FiniteSets, FiniteSetsExt, Functions

CONSTANTS
    Slots,          \* job ids
    Jobs,           \* job sections
    Ids,            \* coinbase ids
    Bodies,         \* coinbase section contents
    SizeOf,         \* the bytes of a content
    Times,          \* time_on_wire of a share
    Counting,       \* whether this gateway's txn_count includes the coinbase
    MAX_COINBASE_SECTION_BYTES,
    MAX_COINBASES_PER_SLOT,
    MAX_LIVE_SLOTS,
    MAX_CB_CACHE,
    MAX_H2_CACHE,
    Budget,         \* cfg.session_coinbase_budget
    None            \* no section, no job, no convention, no time

\* txcount_includes_coinbase: tried in this order until one verifies.
Conventions == <<"excludes", "includes">>

ASSUME SlotsAssumption ==
    /\ IsFiniteSet(Slots)
    /\ SizeOf \in [Bodies -> Nat]
    /\ {MAX_COINBASES_PER_SLOT, MAX_CB_CACHE, MAX_H2_CACHE} \subseteq Nat \ {0}
    /\ None \notin Jobs \cup Bodies \cup Times
    /\ Counting \in ToSet(Conventions)
    /\ Budget \in Nat

VARIABLES
    slots,  \* Session::slots
    held,   \* Session::coinbase_bytes
    live    \* Session::live_slots, oldest first

vars == <<slots, held, live>>

Headers == [job : Jobs, body : Bodies, time : Times, txcount : ToSet(Conventions)]

Maps(S, T) == UNION {[D -> T] : D \in SUBSET S}

JobSlot == [job : Jobs \cup {None},
            coinbases : Maps(Ids, Bodies),
            cb_cache : Maps(Ids, Bodies),
            h2_cache : Maps(Ids \X ToSet(Conventions), Headers),
            txcount : ToSet(Conventions) \cup {None}]

EmptySlot == [job |-> None, coinbases |-> << >>, cb_cache |-> << >>,
              h2_cache |-> << >>, txcount |-> None]

\* The limits JobSlot keeps: coinbases per slot, entries per cache.
Limited(slot) ==
    /\ Cardinality(DOMAIN slot.coinbases) <= MAX_COINBASES_PER_SLOT
    /\ Cardinality(DOMAIN slot.cb_cache) <= MAX_CB_CACHE
    /\ Cardinality(DOMAIN slot.h2_cache) <= MAX_H2_CACHE

\* What a session's slots are, whatever shares came.
SlotsOK == slots \in [Slots -> JobSlot] /\ \A s \in Slots : Limited(slots[s])

TypeOK ==
    /\ SlotsOK
    /\ held \in Nat
    /\ live \in Seq(Slots)

-----------------------------------------------------------------------------
(* JobSlot *)

\* HashMap::insert
Insert(map, key, value) ==
    [k \in DOMAIN map \cup {key} |-> IF k = key THEN value ELSE map[k]]

\* Everything cached for a coinbase id goes.
WithoutCached(slot, id) ==
    [slot EXCEPT !.cb_cache = Restrict(@, DOMAIN @ \ {id}),
                 !.h2_cache = Restrict(@, {k \in DOMAIN @ : k[1] # id})]

\* coinbase_bytes
Bytes(slot) ==
    SumFunction([id \in DOMAIN slot.coinbases |-> SizeOf[slot.coinbases[id]]])

\* absorb, first part: a job section that differs starts a fresh slot.
AbsorbJob(slot, job) ==
    IF job \in {None, slot.job} THEN slot ELSE [EmptySlot EXCEPT !.job = job]

HoldsAlready(slot, id, body) ==
    id \in DOMAIN slot.coinbases /\ slot.coinbases[id] = body

\* Why absorb refuses a coinbase section.
Refuses(slot, job, id, body) ==
    /\ body # None
    /\ \/ SizeOf[body] > MAX_COINBASE_SECTION_BYTES
       \/ LET fresh == AbsorbJob(slot, job) IN
          /\ id \notin DOMAIN fresh.coinbases
          /\ Cardinality(DOMAIN fresh.coinbases) >= MAX_COINBASES_PER_SLOT

\* Mutant of AbsorbCoinbase: a replaced section leaves its cache entries.
AbsorbCoinbaseKeepsCache(slot, id, body) ==
    IF body = None \/ HoldsAlready(slot, id, body) THEN slot
    ELSE [slot EXCEPT !.coinbases = Insert(@, id, body)]

\* absorb, second part: a coinbase section is inserted or replaces another.
AbsorbCoinbase(slot, id, body) ==
    IF body = None \/ HoldsAlready(slot, id, body) THEN slot
    ELSE [WithoutCached(slot, id) EXCEPT !.coinbases = Insert(@, id, body)]

Absorb(slot, job, id, body) == AbsorbCoinbase(AbsorbJob(slot, job), id, body)

\* forget_coinbase
Forget(slot, id) ==
    [WithoutCached(slot, id) EXCEPT !.coinbases = Restrict(@, DOMAIN @ \ {id})]

\* evict_sections: the job and the convention stay.
Evict(slot) ==
    [slot EXCEPT !.coinbases = << >>, !.cb_cache = << >>, !.h2_cache = << >>]

-----------------------------------------------------------------------------
(* Session: live slots and the byte budget *)

\* touch_slot: the slot is the newest; the oldest beyond the limit are evicted.
Touched(s) == Append(SelectSeq(live, LAMBDA t : t # s), s)

LiveAfter(s) ==
    LET order == Touched(s)
    IN  SubSeq(order, Max({1, Len(order) - MAX_LIVE_SLOTS + 1}), Len(order))

EvictedBy(s) == ToSet(Touched(s)) \ ToSet(LiveAfter(s))

HeldBy(sl) == SumFunction([s \in Slots |-> Bytes(sl[s])])

\* The slots, the live list and the count after the share's sections are in.
\* Only a job change touches the slot and recounts; else the count follows
\* the slot's own bytes.
Taken(s, job, id, body) ==
    LET changed == job \notin {None, slots[s].job}
        new     == [slots EXCEPT ![s] = Absorb(@, job, id, body)]
        kept    == [t \in Slots |-> IF t \in EvictedBy(s) THEN Evict(new[t]) ELSE new[t]]
    IN  IF changed
        THEN [slots |-> kept, live |-> LiveAfter(s), held |-> HeldBy(kept)]
        ELSE [slots |-> new, live |-> live,
              held |-> held - Bytes(slots[s]) + Bytes(new[s])]

\* The share brought a section in and the session now holds too much.
OverBudget(s, taken, id, body) ==
    /\ body # None
    /\ ~HoldsAlready(AbsorbJob(slots[s], taken.slots[s].job), id, body)
    /\ taken.held > Budget

Init ==
    /\ slots = [s \in Slots |-> EmptySlot]
    /\ held = 0
    /\ live = << >>

\* on_pow stops at absorb: a section too large, or one coinbase too many.
RefuseSection(s, job, id, body) ==
    /\ Refuses(slots[s], job, id, body)
    /\ UNCHANGED vars

\* Mutant of DropSection: the bytes stay counted.
DropSectionCounted(s, taken, job, id, body) ==
    /\ ~Refuses(slots[s], job, id, body)
    /\ OverBudget(s, taken, id, body)
    /\ slots' = [taken.slots EXCEPT ![s] = Forget(@, id)]
    /\ live' = taken.live
    /\ held' = taken.held

\* on_pow stops at the budget: drop_coinbase takes the section out again.
DropSection(s, taken, job, id, body) ==
    LET less == Forget(taken.slots[s], id)
    IN  /\ ~Refuses(slots[s], job, id, body)
        /\ OverBudget(s, taken, id, body)
        /\ slots' = [taken.slots EXCEPT ![s] = less]
        /\ live' = taken.live
        /\ held' = taken.held - (Bytes(taken.slots[s]) - Bytes(less))

Accepted(s, taken, job, id, body) ==
    /\ ~Refuses(slots[s], job, id, body)
    /\ ~OverBudget(s, taken, id, body)

\* on_pow rejects the share after its sections are in and before verify looks
\* at the coinbase, or verify finds no usable one: no job, stale, no section,
\* a section that does not parse or is for another height. Sections stay.
RejectShare(s, taken, job, id, body) ==
    /\ Accepted(s, taken, job, id, body)
    /\ slots' = taken.slots
    /\ live' = taken.live
    /\ held' = taken.held

-----------------------------------------------------------------------------
(* verify *)

\* A cache that is full is cleared before an insert.
Put(cache, key, value, max) ==
    Insert(IF Cardinality(DOMAIN cache) >= max THEN << >> ELSE cache, key, value)

\* The coinbase is parsed once per id.
Parsed(slot, id) ==
    IF id \in DOMAIN slot.cb_cache THEN slot
    ELSE [slot EXCEPT !.cb_cache = Put(@, id, slot.coinbases[id], MAX_CB_CACHE)]

\* The header a share describes under a txcount convention.
Described(slot, id, time, txcount) ==
    [job |-> slot.job, body |-> slot.coinbases[id], time |-> time, txcount |-> txcount]

\* The header whose H2 verify goes by: the cached one, or a new one from the
\* parsed coinbase.
Rebuilt(slot, id, time, txcount) ==
    IF <<id, txcount>> \in DOMAIN slot.h2_cache THEN slot.h2_cache[<<id, txcount>>]
    ELSE [job |-> slot.job, body |-> slot.cb_cache[id], time |-> time, txcount |-> txcount]

Tried(slot) == IF slot.txcount = None THEN Conventions ELSE <<slot.txcount>>

\* The sections are in, the coinbase is there and parses: verify goes by the
\* cached headers. The miner ground the header the share describes; no time if
\* the coinbase or the time is refused before the work is looked at.
Verify(s, taken, job, id, body, time) ==
    LET slot  == Parsed(taken.slots[s], id)
        goal  == Described(slot, id, time, Counting)
        tried == Tried(slot)
        good  == {k \in DOMAIN tried : Rebuilt(slot, id, time, tried[k]) = goal}
        first == tried[Min(good)]
        done  == IF time = None \/ good = {} THEN slot
                 ELSE [slot EXCEPT !.h2_cache = Put(@, <<id, first>>, goal, MAX_H2_CACHE),
                                   !.txcount = first]
    IN  /\ Accepted(s, taken, job, id, body)
        /\ taken.slots[s].job # None
        /\ id \in DOMAIN taken.slots[s].coinbases
        /\ slots' = [taken.slots EXCEPT ![s] = done]
        /\ live' = taken.live
        /\ held' = taken.held

\* on_pow, for a share on slot s with either section or both.
Next ==
    \E s \in Slots, job \in Jobs \cup {None}, id \in Ids, body \in Bodies \cup {None} :
        \/ RefuseSection(s, job, id, body)
        \/ \E taken \in {Taken(s, job, id, body)} :
              \/ DropSection(s, taken, job, id, body)
              \/ RejectShare(s, taken, job, id, body)
              \/ \E time \in Times \cup {None} : Verify(s, taken, job, id, body, time)

Spec == Init /\ [][Next]_vars

-----------------------------------------------------------------------------
(* Properties *)

\* The running count equals the bytes in the slots through inserts, replaces,
\* job changes, evictions and refusals, and the budget is never passed.
HeldWithinBudget == held = HeldBy(slots) /\ held <= Budget

\* However sections were replaced, dropped and evicted before, the header a
\* share is verified against has the job and the coinbase section the slot
\* holds now, and a section no longer held verifies nothing ("Drop a coinbase
\* section (and everything derived from it)": JobSlot). The time is left out:
\* h2_cache is not keyed by it and keeps that of the share it was filled by.
CachesFollowSections ==
    \A s \in Slots :
        /\ DOMAIN slots[s].cb_cache \subseteq DOMAIN slots[s].coinbases
        /\ \A id \in DOMAIN slots[s].coinbases, time \in Times, txcount \in ToSet(Conventions) :
              LET slot == Parsed(slots[s], id) IN
              [Rebuilt(slot, id, time, txcount) EXCEPT !.time = time]
                  = Described(slot, id, time, txcount)
=============================================================================
