---------------------------- MODULE ShareCredit ----------------------------
(***************************************************************************)
(* The path of a share through Prime: many sessions run on_pow at the same *)
(* time (one tokio task each, on several threads), all against one watch   *)
(* channel with the node's tip and one pool-wide set of credited shares    *)
(* (SeenShares), which the housekeeping task prunes by height.             *)
(*                                                                         *)
(* on_pow takes the locks one after another, so each of these is a step of *)
(* its own and others run in between:                                      *)
(*   Receive    the frame arrives; identity, ban and job sections checked  *)
(*   CheckTip   tip snapshot and the staleness test                        *)
(*   Insert     verify, then SeenShares::insert under the seen lock        *)
(*   Credit     Ledger::credit under the ledger lock, then the receipt     *)
(* housekeeping likewise reads the tip first and takes the seen lock later.*)
(*                                                                         *)
(* A share is identified by its hash, which commits to its height.         *)
(***************************************************************************)
EXTENDS Integers, FiniteSets

CONSTANTS
    Sessions,        \* connected gateways' sessions
    Shares,          \* valid share hashes
    HeightOf,        \* the block height each hash commits to
    MAX_PER_HEIGHT,  \* SeenShares::MAX_PER_HEIGHT
    MAX_TOTAL,       \* SeenShares::MAX_TOTAL
    MaxHeight,       \* bound: highest tip the node reports
    MaxReorg,        \* how far below an earlier tip the node may fall back
    MaxLag,          \* tips a share may miss between its check and its insert
    MaxRestarts,     \* bound: restarts of the process
    Identities,      \* what usernames name, in canonical form
    Payable,         \* those address::to_script knows on this network
    NoShare          \* sentinel: the session holds no share

ASSUME ShareAssumption ==
    /\ IsFiniteSet(Shares)
    /\ HeightOf \in [Shares -> Nat]
    /\ NoShare \notin Shares
    /\ Payable \subseteq Identities
    /\ NoShare \notin Identities

ASSUME BoundAssumption ==
    /\ MAX_PER_HEIGHT \in Nat
    /\ MAX_TOTAL \in Nat
    /\ MaxHeight \in Nat
    /\ MaxRestarts \in Nat

\* The margin housekeeping's `tip.height - 2` leaves (see DedupCoversLive).
ASSUME MarginAssumption == MaxReorg \in 0..2 /\ MaxLag \in 0..2

NoTip == -1      \* tip_snapshot() is None: the node has not answered yet

VARIABLES
    tip,        \* Shared::tip, the last polled height or NoTip
    grace,      \* is tip.seen_at.elapsed() < stale_grace_secs?
    seen,       \* SeenShares::by_height, flattened
    total,      \* SeenShares::total
    stage,      \* where each session's on_pow stands
    share,      \* the share each session is working on
    who,        \* ... and the identity it is for
    checked,    \* the tip each session's staleness test read
    house,      \* the tip housekeeping has read and not yet used
    credited,   \* rows Ledger::credit wrote for a share since the start
    restarts,
    high,       \* history: highest tip since the start
    floor       \* history: highest min_height pruned since the start

vars == <<tip, grace, seen, total, stage, share, who, checked, house,
          credited, restarts, high, floor>>

Stages == {"idle", "received", "checked", "inserted"}
Heights == 0..MaxHeight

\* Types: `total -= set.len()` in prune_below never wraps below zero.
TypeOK ==
    /\ tip \in Heights \cup {NoTip}
    /\ grace \in {"running", "over"}
    /\ seen \subseteq Shares
    /\ total \in Nat
    /\ stage \in [Sessions -> Stages]
    /\ share \in [Sessions -> Shares \cup {NoShare}]
    /\ who \in [Sessions -> Identities \cup {NoShare}]
    /\ checked \in [Sessions -> Heights \cup {NoTip}]
    /\ house \in Heights \cup {NoTip}
    /\ credited \in [Shares -> Nat]
    /\ restarts \in 0..MaxRestarts
    /\ high \in Heights \cup {NoTip}
    /\ floor \in Heights

-----------------------------------------------------------------------------
(* SeenShares *)

At(s, h) == {x \in s : HeightOf[x] = h}

Below(s, h) == {x \in s : HeightOf[x] < h}

\* Mutant of SeenInsert: the cap tested one too late.
SeenInsertPastCap(x) ==
    IF x \in seen THEN "Duplicate"
    ELSE IF \/ Cardinality(At(seen, HeightOf[x])) > MAX_PER_HEIGHT
            \/ total > MAX_TOTAL
         THEN "Full"
         ELSE "Fresh"

\* What SeenShares::insert answers, tested in the code's order.
SeenInsert(x) ==
    IF x \in seen THEN "Duplicate"
    ELSE IF \/ Cardinality(At(seen, HeightOf[x])) >= MAX_PER_HEIGHT
            \/ total >= MAX_TOTAL
         THEN "Full"
         ELSE "Fresh"

\* Mutant of Stale: the grace period covers two heights.
StaleTwoBack(h, t, g) ==
    /\ t # NoTip
    /\ LET expected == t + 1 IN
       \/ h > expected + 1
       \/ h < expected /\ ~(h + 2 >= expected /\ g = "running")

\* The staleness test of on_pow, against the tip it read (none: no test).
Stale(h, t, g) ==
    /\ t # NoTip
    /\ LET expected == t + 1 IN
       \/ h > expected + 1
       \/ h < expected /\ ~(h + 1 = expected /\ g = "running")

\* Mutant of KeepFrom: no extra height is kept.
KeepFromExact(t) == IF t >= 1 THEN t - 1 ELSE 0

\* The lowest height housekeeping keeps: tip.height.saturating_sub(2).
KeepFrom(t) == IF t >= 2 THEN t - 2 ELSE 0

-----------------------------------------------------------------------------
Init ==
    /\ tip = NoTip
    /\ grace = "over"
    /\ seen = {}
    /\ total = 0
    /\ stage = [s \in Sessions |-> "idle"]
    /\ share = [s \in Sessions |-> NoShare]
    /\ who = [s \in Sessions |-> NoShare]
    /\ checked = [s \in Sessions |-> NoTip]
    /\ house = NoTip
    /\ credited = [x \in Shares |-> 0]
    /\ restarts = 0
    /\ high = NoTip
    /\ floor = 0

\* on_pow ends and its receipt, accepting or rejecting, goes out.
Receipt(s) ==
    /\ stage' = [stage EXCEPT ![s] = "idle"]
    /\ share' = [share EXCEPT ![s] = NoShare]
    /\ who' = [who EXCEPT ![s] = NoShare]
    /\ checked' = [checked EXCEPT ![s] = NoTip]

\* Mutant of UsernameOk: the address is left to the credit to check.
UsernameOkAlways(i) == i \in Identities

\* on_pow refuses an identity that no output can pay, before anything else
\* is done with the share.
UsernameOk(i) == i \in Payable

\* A gateway submits a share for an identity, new or resent. What on_pow
\* refuses before it looks at the tip (job id, username, ban, sections)
\* touches none of this.
Receive(s, x, i) ==
    /\ stage[s] = "idle"
    /\ UsernameOk(i)
    /\ stage' = [stage EXCEPT ![s] = "received"]
    /\ share' = [share EXCEPT ![s] = x]
    /\ who' = [who EXCEPT ![s] = i]
    /\ UNCHANGED <<tip, grace, seen, total, checked, house, credited,
                   restarts, high, floor>>

\* The tip is read once, and the share refused as stale or let through.
CheckTip(s) ==
    /\ stage[s] = "received"
    /\ IF Stale(HeightOf[share[s]], tip, grace)
       THEN Receipt(s)
       ELSE /\ stage' = [stage EXCEPT ![s] = "checked"]
            /\ checked' = [checked EXCEPT ![s] = tip]
            /\ UNCHANGED <<share, who>>
    /\ UNCHANGED <<tip, grace, seen, total, house, credited,
                   restarts, high, floor>>

\* verify() refuses the share (target, coinbase, time...): nothing recorded.
VerifyFails(s) ==
    /\ stage[s] = "checked"
    /\ Receipt(s)
    /\ UNCHANGED <<tip, grace, seen, total, house, credited,
                   restarts, high, floor>>

\* verify() passes and the seen lock is taken for the insert.
Insert(s) ==
    /\ stage[s] = "checked"
    /\ IF SeenInsert(share[s]) = "Fresh"
       THEN /\ seen' = seen \cup {share[s]}
            /\ total' = total + 1
            /\ stage' = [stage EXCEPT ![s] = "inserted"]
            /\ UNCHANGED <<share, who, checked>>
       ELSE Receipt(s) /\ UNCHANGED <<seen, total>>
    /\ UNCHANGED <<tip, grace, house, credited, restarts, high, floor>>

\* The ledger lock is taken for the credit; totals and the receipt follow.
\* With the identity table full, a new identity that cannot be paid is refused
\* here, after the share was recorded.
Credit(s) ==
    /\ stage[s] = "inserted"
    /\ \E table_full \in BOOLEAN :
          credited' = IF table_full /\ who[s] \notin Payable
                      THEN credited
                      ELSE [credited EXCEPT ![share[s]] = @ + 1]
    /\ Receipt(s)
    /\ UNCHANGED <<tip, grace, seen, total, house, restarts, high, floor>>

\* The poller sees another best block: higher, or on another branch. The
\* same height with another hash also restarts the grace period.
NewTip(h) ==
    /\ h >= high - MaxReorg
    /\ tip' = h
    /\ grace' = "running"
    /\ high' = IF h > high THEN h ELSE high
    /\ UNCHANGED <<seen, total, stage, share, who, checked, house, credited,
                   restarts, floor>>

GraceEnds ==
    /\ grace = "running"
    /\ grace' = "over"
    /\ UNCHANGED <<tip, seen, total, stage, share, who, checked, house, credited,
                   restarts, high, floor>>

\* No session's on_pow is so slow that housekeeping, which wakes every 5 s,
\* prunes what was live at its check: on_pow does not wait between its check
\* and its insert. It misses at most MaxLag tips there, and when it was let
\* through untested, before the first tip, that tip leaves its height live.
Prompt(s) ==
    stage[s] = "checked" =>
        IF checked[s] = NoTip THEN HeightOf[share[s]] >= KeepFrom(tip)
                              ELSE tip <= checked[s] + MaxLag

\* housekeeping reads the tip.
HouseRead ==
    /\ house = NoTip
    /\ tip # NoTip
    /\ \A s \in Sessions : Prompt(s)
    /\ house' = tip
    /\ UNCHANGED <<tip, grace, seen, total, stage, share, who, checked, credited,
                   restarts, high, floor>>

\* SeenShares::prune_below, under the seen lock.
HousePrune ==
    /\ house # NoTip
    /\ LET min == KeepFrom(house) IN
       /\ seen' = seen \ Below(seen, min)
       /\ total' = total - Cardinality(Below(seen, min))
       /\ floor' = IF min > floor THEN min ELSE floor
    /\ house' = NoTip
    /\ UNCHANGED <<tip, grace, stage, share, who, checked, credited,
                   restarts, high>>

\* The process stops at any point and starts again: the set, the tip and the
\* shares in flight are memory. The histories start over with it.
Restart ==
    /\ restarts < MaxRestarts
    /\ restarts' = restarts + 1
    /\ tip' = NoTip
    /\ grace' = "over"
    /\ seen' = {}
    /\ total' = 0
    /\ stage' = [s \in Sessions |-> "idle"]
    /\ share' = [s \in Sessions |-> NoShare]
    /\ who' = [s \in Sessions |-> NoShare]
    /\ checked' = [s \in Sessions |-> NoTip]
    /\ house' = NoTip
    /\ credited' = [x \in Shares |-> 0]
    /\ high' = NoTip
    /\ floor' = 0

OnPow(s) == CheckTip(s) \/ VerifyFails(s) \/ Insert(s) \/ Credit(s)

Next ==
    \/ \E s \in Sessions, x \in Shares, i \in Identities : Receive(s, x, i)
    \/ \E s \in Sessions : OnPow(s)
    \/ \E h \in Heights : NewTip(h)
    \/ GraceEnds
    \/ HouseRead
    \/ HousePrune
    \/ Restart

Spec == Init /\ [][Next]_vars

-----------------------------------------------------------------------------
(* Properties *)

\* No share is credited twice by one run of the process, however its resends
\* on several sessions interleave with each other, with the tip and with the
\* pruning of the set ("One credit per hash, pool-wide": on_pow).
CreditedOnce == \A x \in Shares : credited[x] <= 1

\* Pruning forgets only what the staleness test refuses: a credited share
\* that on_pow would still let past its tip check is still in the set. This
\* is what the extra margin in housekeeping's `tip.height - 2` is for.
DedupCoversLive ==
    \A x \in Shares :
        credited[x] > 0 /\ ~Stale(HeightOf[x], tip, "running") => x \in seen

\* SeenShares::total is the size of the set through every insert and prune,
\* and neither cap is ever passed.
SeenBounded ==
    /\ total = Cardinality(seen)
    /\ total <= MAX_TOTAL
    /\ \A h \in Heights : Cardinality(At(seen, h)) <= MAX_PER_HEIGHT

\* Every share in the set is in the ledger, or its session is on the way there:
\* when a resend is refused as a duplicate, the work was or will be credited.
\* Only the address check at the top of on_pow gives this: the credit itself
\* may refuse an identity that cannot be paid, after the insert, and the work
\* would be lost with every resend a duplicate.
SeenIsCredited ==
    \A x \in seen :
        \/ credited[x] > 0
        \/ \E s \in Sessions : stage[s] = "inserted" /\ share[s] = x

-----------------------------------------------------------------------------
(* The inductive invariant behind CreditedOnce and DedupCoversLive. *)

\* What is known of the tip, the tip housekeeping holds and what it pruned.
TipInv ==
    /\ tip = NoTip <=> high = NoTip
    /\ tip <= high
    /\ tip >= high - MaxReorg
    /\ house <= high
    /\ floor <= KeepFrom(high)

\* A share past the staleness test is no older than the tip it was tested
\* against, than everything pruned, and than what housekeeping will prune.
FlightInv ==
    \A s \in Sessions :
        stage[s] = "checked" =>
            /\ checked[s] # NoTip => HeightOf[share[s]] >= checked[s]
            /\ HeightOf[share[s]] >= floor
            /\ house # NoTip => HeightOf[share[s]] >= KeepFrom(house)

\* A share between its insert and its credit is uncredited, held by one
\* session only, and recorded (or pruned since).
InsertedInv ==
    \A s \in Sessions :
        stage[s] = "inserted" =>
            /\ credited[share[s]] = 0
            /\ share[s] \in seen \/ HeightOf[share[s]] < floor
            /\ \A r \in Sessions :
                  stage[r] = "inserted" /\ share[r] = share[s] => r = s

\* A credited share is credited once and recorded (or pruned since).
CreditedInv ==
    \A x \in Shares :
        credited[x] > 0 =>
            /\ credited[x] = 1
            /\ x \in seen \/ HeightOf[x] < floor

HoldsShare ==
    \A s \in Sessions :
        stage[s] # "idle" => share[s] \in Shares /\ who[s] \in Payable

CreditInv ==
    /\ TypeOK
    /\ HoldsShare
    /\ TipInv
    /\ FlightInv
    /\ InsertedInv
    /\ CreditedInv
    /\ SeenIsCredited
=============================================================================
