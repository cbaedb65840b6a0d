---------------------------- MODULE SessionProofs ----------------------------
(*****************************************************************************)
(* What a session does while it serves.                                      *)
(*                                                                           *)
(* Its loop: for any limits, any traffic and a peer that stalls and resumes  *)
(* at any time, the two watchdogs of a session and the limit of its hello    *)
(* are never late, and the rejects in a window and the splits in a span      *)
(* stay within the flood's limit and what the token bucket gives.  Its       *)
(* coinbasers: for any number of ids, ring and record lengths, ages and      *)
(* passes within the margins, a block is judged by its own coinbaser's list  *)
(* while the ring holds it and by none after that, until the id has come     *)
(* round, and the snapshot its record names is on disk while that is kept.   *)
(*****************************************************************************)
EXTENDS SessionLoop, Coinbasers, SequenceTheorems, WellFoundedInduction, TLAPS

-----------------------------------------------------------------------------
(* SessionLoop: watchdogs, flood and token bucket *)

\* Where a handler runs or the loop waits.
InLoop == {"serving", "cutting", "writing"}

\* What WatchdogsHold is about, by type.
AgesOK ==
    /\ stage \in Open \cup Reasons
    /\ due \in {"yes", "no"}
    /\ last_recv \in Nat /\ last_send \in Nat /\ silent \in Nat

\* last_recv is when the peer was last heard: the watchdog reads the former.
\* (From the hello's arrival to the session's start they differ.)
RecvInv == stage \in {"hello", "configuring"} \cup InLoop => silent = last_recv

HelloInv == stage = "hello" => silent <= HANDSHAKE_LIMIT

\* Between two ticks the clocks are as the last tick left them or younger. A
\* tick that starts a keepalive leaves last_send old: it is young again when
\* the write is through, and until then the loop does not wait.
TickInv ==
    /\ stage \in InLoop /\ due = "no" => silent <= IDLE_LIMIT
    /\ stage \in {"serving", "cutting"} /\ due = "no" => last_send <= KEEPALIVE

LoopInv == AgesOK /\ RecvInv /\ HelloInv /\ TickInv

\* The limits are numbers.
LEMMA LimitsAre ==
  HANDSHAKE_LIMIT \in Nat /\ KEEPALIVE \in Nat /\ IDLE_LIMIT \in Nat
  BY SessionAssumption

\* An age grows by one, up to the first value past its limit.
LEMMA OlderIs ==
  ASSUME NEW old \in Nat, NEW limit \in Nat
  PROVE  Older(old, limit) \in Nat /\ Older(old, limit) <= old + 1
  BY DEF Older

\* The task waits for its hello, all clocks young.
LEMMA LoopInit == Init => LoopInv
  BY LimitsAre DEF Init, LoopInv, AgesOK, RecvInv, HelloInv, TickInv, InLoop, Open

\* The steps of the hello.
LEMMA HelloStep ==
  ASSUME LoopInv,
         HelloArrives \/ HelloBad \/ HelloTimeout \/ Greeted \/ Configured
  PROVE  LoopInv'
  BY LimitsAre DEF LoopInv, AgesOK, RecvInv, HelloInv, TickInv, InLoop, Open, Reasons,
     clocks, HelloArrives, HelloBad, HelloTimeout, Greeted, Configured

\* Where a handler that does not write ends.
LEMMA AfterIs == After \in {"cutting", "serving"}
  BY DEF After

\* Bytes, and the frames they complete.
LEMMA ReadStep ==
  ASSUME LoopInv, NEW n \in 0..Batch, Read(n)
  PROVE  LoopInv'
  BY LimitsAre, AfterIs DEF LoopInv, AgesOK, RecvInv, HelloInv, TickInv, InLoop, Open, Read

\* A frame handled: no clock moves, and the tick is as due as before.
LEMMA FrameStep ==
  ASSUME LoopInv, HandleFrame
  PROVE  LoopInv'
  <1>1. /\ stage = "cutting" /\ due' = due
        /\ last_recv' = last_recv /\ last_send' = last_send /\ silent' = silent
        /\ stage' \in InLoop \cup {"bad", "flood"}
    <2>1. CASE FrameIgnored
      BY <2>1, AfterIs DEF FrameIgnored, Cut, clocks, InLoop
    <2>2. CASE FrameFatal
      BY <2>2 DEF FrameFatal, Cut, clocks
    <2>3. CASE FrameMalformed
      BY <2>3, AfterIs DEF FrameMalformed, Cut, NoteReject, InLoop
    <2>4. CASE ShareFrame
      BY <2>4 DEF ShareFrame, Cut, Write, clocks, InLoop
    <2>5. CASE CoinbaserRequest
      BY <2>5, AfterIs DEF CoinbaserRequest, Cut, NoteReject, Write, InLoop
    <2> QED
      BY <2>1, <2>2, <2>3, <2>4, <2>5 DEF HandleFrame
  <1> QED
    BY <1>1, LimitsAre DEF LoopInv, AgesOK, RecvInv, HelloInv, TickInv, InLoop, Open, Reasons

\* The tick ends the session, starts a keepalive, or finds both clocks young.
LEMMA TickStep ==
  ASSUME LoopInv, Tick
  PROVE  LoopInv'
  BY LimitsAre DEF LoopInv, AgesOK, RecvInv, HelloInv, TickInv, InLoop, Open, Reasons,
     clocks, Tick, Write

\* A write that is through has just sent something.
LEMMA WriteStep ==
  ASSUME LoopInv, WriteDone
  PROVE  LoopInv'
  <1>1. /\ stage = "writing" /\ due' = due /\ last_send' = 0
        /\ last_recv' = last_recv /\ silent' = silent
        /\ stage' \in {"cutting", "serving", "flood"}
    BY AfterIs DEF WriteDone, NoteReject
  <1> QED
    BY <1>1, LimitsAre DEF LoopInv, AgesOK, RecvInv, HelloInv, TickInv, InLoop, Open, Reasons

\* A notification, a peer that goes, stalls or resumes.
LEMMA OutsideStep ==
  ASSUME LoopInv, Notify \/ Gone \/ Stall
  PROVE  LoopInv'
  BY LimitsAre DEF LoopInv, AgesOK, RecvInv, HelloInv, TickInv, InLoop, Open, Reasons,
     clocks, Notify, Gone, Stall, Write

\* Time passes only where the tick is due after it, or the hello's limit is
\* not up.
LEMMA TimeStep ==
  ASSUME LoopInv, TimePasses
  PROVE  LoopInv'
  <1>1. /\ stage \in Open /\ stage # "cutting" /\ stage' = stage
        /\ ~(stage = "hello" /\ last_recv >= HANDSHAKE_LIMIT)
        /\ due' = IF stage \in {"serving", "writing"} THEN "yes" ELSE due
        /\ last_recv' = Older(last_recv, IDLE_LIMIT)
        /\ last_send' = Older(last_send, KEEPALIVE)
        /\ silent' = Older(silent, IDLE_LIMIT)
    BY DEF TimePasses
  <1>2. /\ last_recv' \in Nat /\ last_recv' <= last_recv + 1
        /\ last_send' \in Nat /\ silent' \in Nat
        /\ silent = last_recv => silent' = last_recv'
    BY <1>1, LimitsAre, OlderIs DEF LoopInv, AgesOK
  <1>3. AgesOK' /\ RecvInv' /\ TickInv'
    BY <1>1, <1>2 DEF LoopInv, AgesOK, RecvInv, TickInv, InLoop
  <1>4. HelloInv'
    BY <1>1, <1>2, LimitsAre DEF LoopInv, AgesOK, RecvInv, HelloInv
  <1> QED
    BY <1>3, <1>4 DEF LoopInv

\* Every step keeps the watchdogs' invariant.
LEMMA LoopStep == LoopInv /\ [Next]_vars => LoopInv'
  <1> SUFFICES ASSUME LoopInv, [Next]_vars PROVE LoopInv'
    OBVIOUS
  <1>1. CASE Next
    BY <1>1, HelloStep, ReadStep, FrameStep, TickStep, WriteStep, OutsideStep, TimeStep
       DEF Next, Task
  <1>2. CASE UNCHANGED vars
    BY <1>2 DEF vars, LoopInv, AgesOK, RecvInv, HelloInv, TickInv
  <1> QED
    BY <1>1, <1>2

\* Whatever the limits and the traffic: once a tick has been handled the peer
\* was heard within IDLE_LIMIT and was sent something within KEEPALIVE, and a
\* hello is not waited for past its limit (session.rs, run and serve).
THEOREM WatchdogsNeverLate == Spec => []WatchdogsHold
  <1>1. LoopInv => WatchdogsHold
    BY DEF LoopInv, HelloInv, TickInv, WatchdogsHold, InLoop
  <1> QED
    BY <1>1, LoopInit, LoopStep, PTL DEF Spec

-----------------------------------------------------------------------------
(* Lists of ages *)

\* Ages fall from front to back: the oldest is first.
Falling(ages) == \A i, j \in DOMAIN ages : i <= j => ages[j] <= ages[i]

\* young is what is left of ages without the entries past the span.
YoungOf(young, ages, span) ==
    /\ Len(young) <= Len(ages)
    /\ \A i \in DOMAIN young :
          young[i] = ages[Len(ages) - Len(young) + i] /\ young[i] <= span
    /\ \A i \in 1..(Len(ages) - Len(young)) : ages[i] > span

\* A set of numbers has a least one.
LEMMA Least ==
  ASSUME NEW T \in SUBSET Nat, T # {}
  PROVE  Min(T) \in T /\ \A k \in T : Min(T) <= k
  <1>1. PICK m \in T : \A k \in T : ~(<<k, m>> \in OpToRel(<, Nat))
    BY WFMin, NatLessThanWellFounded, Zenon
  <1>2. \A k \in T : ~(k < m)
    BY <1>1, Zenon DEF OpToRel
  <1>3. \E x \in T : \A k \in T : x <= k
    BY <1>2
  <1> QED
    BY <1>3 DEF Min

\* Popping the front while it is old leaves the young.
LEMMA WithinIs ==
  ASSUME NEW ages \in Seq(Nat), Falling(ages), NEW span \in Nat
  PROVE  /\ Within(ages, span) \in Seq(Nat)
         /\ Falling(Within(ages, span))
         /\ YoungOf(Within(ages, span), ages, span)
  <1> DEFINE young == {i \in DOMAIN ages : ages[i] <= span}
             n == Len(ages)
             w == Within(ages, span)
  <1>0. n \in Nat /\ DOMAIN ages = 1..n /\ \A i \in 1..n : ages[i] \in Nat
    OBVIOUS
  <1>1. CASE young = {}
    <2>1. w = << >>
      BY <1>1 DEF Within
    <2>2. \A i \in 1..n : ages[i] > span
      BY <1>0, <1>1
    <2> HIDE DEF w
    <2>3. w \in Seq(Nat) /\ Len(w) = 0 /\ DOMAIN w = {}
      BY <2>1
    <2>4. Falling(w) /\ YoungOf(w, ages, span)
      BY <2>3, <2>2, <1>0 DEF Falling, YoungOf
    <2> QED
      BY <2>3, <2>4 DEF w
  <1>2. CASE young # {}
    <2> DEFINE m == Min(young)
    <2>1. young \in SUBSET Nat
      BY <1>0
    <2>2. m \in young /\ \A k \in young : m <= k
      BY <1>2, <2>1, Least
    <2>3. w = SubSeq(ages, m, n)
      BY <1>2 DEF Within
    <2>y. \A i : i \in young <=> i \in 1..n /\ ages[i] <= span
      BY <1>0
    <2> HIDE DEF m, w, young
    <2>4. /\ m \in 1..n /\ ages[m] <= span
          /\ \A i \in 1..n : i < m => ages[i] > span
      BY <1>0, <2>y, <2>2, SMTT(30)
    <2>5. /\ w \in Seq(Nat) /\ Len(w) = n - m + 1
          /\ \A i \in 1..(n - m + 1) : w[i] = ages[m + i - 1]
      BY <2>3, <2>4, <1>0
    <2>6. DOMAIN w = 1..(n - m + 1)
      BY <2>5
    <2>7. \A i \in 1..(n - m + 1) : m + i - 1 \in 1..n /\ m <= m + i - 1 /\ m + i - 1 = n - Len(w) + i
      BY <2>4, <2>5, <1>0
    <2>8. \A i \in DOMAIN w : w[i] = ages[n - Len(w) + i] /\ w[i] <= ages[m]
      BY <2>4, <2>5, <2>6, <2>7, <1>0 DEF Falling
    <2>9. \A i \in DOMAIN w : w[i] <= span
      <3>1. ages[m] \in Nat /\ \A i \in DOMAIN w : w[i] \in Nat
        BY <2>4, <2>5, <2>6, <2>7, <1>0
      <3> QED
        BY <2>4, <2>8, <3>1
    <2>10. Falling(w)
      <3>1. ASSUME NEW i \in DOMAIN w, NEW k \in DOMAIN w, i <= k
            PROVE  w[k] <= w[i]
        <4>1. w[i] = ages[m + i - 1] /\ w[k] = ages[m + k - 1]
          BY <2>5, <2>6, <3>1
        <4>2. m + i - 1 \in 1..n /\ m + k - 1 \in 1..n
          BY <2>6, <2>7, <3>1
        <4>3. m + i - 1 <= m + k - 1
          BY <2>4, <2>6, <3>1, <1>0
        <4> QED
          BY <4>1, <4>2, <4>3, <1>0 DEF Falling
      <3> QED
        BY <3>1 DEF Falling
    <2>11. YoungOf(w, ages, span)
      BY <2>4, <2>5, <2>8, <2>9, <1>0 DEF YoungOf
    <2> QED
      BY <2>5, <2>10, <2>11 DEF w
  <1> QED
    BY <1>1, <1>2

\* One more, just now.
LEMMA PushedIs ==
  ASSUME NEW ages \in Seq(Nat), Falling(ages)
  PROVE  /\ Append(ages, 0) \in Seq(Nat)
         /\ Len(Append(ages, 0)) = Len(ages) + 1
         /\ \A i \in 1..Len(ages) : Append(ages, 0)[i] = ages[i]
         /\ Append(ages, 0)[Len(ages) + 1] = 0
         /\ Falling(Append(ages, 0))
  <1>1. /\ Append(ages, 0) \in Seq(Nat)
        /\ Len(Append(ages, 0)) = Len(ages) + 1
        /\ \A i \in 1..Len(ages) : Append(ages, 0)[i] = ages[i]
        /\ Append(ages, 0)[Len(ages) + 1] = 0
    OBVIOUS
  <1> DEFINE new == Append(ages, 0)
  <1>2. /\ DOMAIN new = 1..(Len(ages) + 1) /\ Len(ages) \in Nat
        /\ \A i \in DOMAIN new : new[i] \in Nat
    BY <1>1
  <1> HIDE DEF new
  <1>3. Falling(new)
    <2> SUFFICES ASSUME NEW i \in DOMAIN new, NEW j \in DOMAIN new, i <= j PROVE new[j] <= new[i]
      BY DEF Falling
    <2>1. CASE j = Len(ages) + 1
      BY <2>1, <1>1, <1>2 DEF new
    <2>2. CASE j # Len(ages) + 1
      BY <2>2, <1>1, <1>2 DEF new, Falling
    <2> QED
      BY <2>1, <2>2
  <1> QED
    BY <1>1, <1>3 DEF new

\* All a tick older.
LEMMA OlderAll ==
  ASSUME NEW ages \in Seq(Nat), Falling(ages), NEW span \in Nat
  PROVE  /\ [i \in DOMAIN ages |-> Older(ages[i], span)] \in Seq(Nat)
         /\ Len([i \in DOMAIN ages |-> Older(ages[i], span)]) = Len(ages)
         /\ Falling([i \in DOMAIN ages |-> Older(ages[i], span)])
  <1> DEFINE new == [i \in DOMAIN ages |-> Older(ages[i], span)]
  <1>0. \A i \in DOMAIN ages : ages[i] \in Nat
    OBVIOUS
  <1>1. \A i \in DOMAIN ages : ages[i] \in Nat /\ Older(ages[i], span) \in Nat
    BY <1>0, OlderIs
  <1>2. new \in Seq(Nat) /\ Len(new) = Len(ages) /\ DOMAIN new = DOMAIN ages
    BY <1>1
  <1>3. Falling(new)
    BY <1>1 DEF Falling, Older
  <1> QED
    BY <1>2, <1>3

-----------------------------------------------------------------------------
(* What a session costs *)

ListsOK ==
    /\ rejects \in Seq(Nat) /\ Falling(rejects)
    /\ noted \in Seq(Nat) /\ Falling(noted)
    /\ splits \in Seq(Nat) /\ Falling(splits)
    /\ stage \in {"hello", "greeting"} => noted = << >> /\ splits = << >>

\* recent_rejects is pruned only when a reject is noted: what it holds that is
\* not past the window are the rejects of the window, all of them.
FloodInv ==
    /\ YoungOf(noted, rejects, REJECT_WINDOW)
    /\ stage \in Open => Len(noted) <= REJECT_FLOOD
    /\ stage = "flood" => Len(noted) > REJECT_FLOOD

Period == COINBASER_REFILL

\* From a split on, the splits made and the tokens left (each worth a period)
\* and the time since the last refill are covered by a full bucket and the
\* time that has passed; the period under way at that split may have been all
\* but up.
BucketInv ==
    /\ tokens \in 0..COINBASER_BURST /\ refill_at \in Nat
    /\ \A j \in DOMAIN splits :
          /\ splits[j] <= Span
          /\ (Len(splits) - j + 1) * Period + tokens * Period + refill_at
                <= splits[j] + COINBASER_BURST * Period + Period - 1

CostInv == stage \in Open \cup Reasons /\ ListsOK /\ FloodInv /\ BucketInv

\* The throttles' limits are numbers, and a period takes time.
LEMMA ThrottlesAre ==
  /\ COINBASER_BURST \in Nat /\ REJECT_FLOOD \in Nat /\ REJECT_WINDOW \in Nat /\ Span \in Nat
  /\ Period \in Nat /\ Period > 0
  BY SessionAssumption DEF Period

\* One more of something that counts a period each.
LEMMA OneMore ==
  ASSUME NEW k \in Int, NEW d \in Int
  PROVE  (k + 1) * d = k * d + d /\ k * d \in Int
  OBVIOUS

\* Products with a period keep the order.
LEMMA Ordered ==
  ASSUME NEW a \in Int, NEW b \in Int, NEW d \in Nat, a <= b
  PROVE  a * d <= b * d
  <1>1. b = a + (b - a) /\ b - a \in Nat
    OBVIOUS
  <1>2. (a + (b - a)) * d = a * d + (b - a) * d
    OBVIOUS
  <1>3. (b - a) * d \in Nat
    BY <1>1
  <1> QED
    BY <1>1, <1>2, <1>3

\* Whole periods and a rest.
LEMMA WholePeriods ==
  ASSUME NEW a \in Nat, NEW d \in Nat, d > 0
  PROVE  (a \div d) \in Nat /\ (a \div d) * d <= a /\ a < (a \div d) * d + d
  <1>1. (a \div d) \in Int /\ (a % d) \in 0..(d - 1) /\ a = d * (a \div d) + (a % d)
    OBVIOUS
  <1>2. d * (a \div d) = (a \div d) * d
    BY <1>1
  <1>3. (a \div d) * d <= a /\ a < (a \div d) * d + d
    BY <1>1, <1>2
  <1>4. a \div d >= 0
    <2>1. CASE a \div d <= -1
      <3>1. (a \div d) * d <= (-1) * d
        BY <2>1, <1>1, Ordered
      <3> QED
        BY <3>1, <1>1, <1>3
    <2> QED
      BY <2>1, <1>1
  <1> QED
    BY <1>1, <1>3, <1>4

\* A refill gives no more tokens than periods have passed.
LEMMA RefillIs ==
  ASSUME NEW t \in 0..COINBASER_BURST, NEW old \in Nat, NEW rest,
         rest = IF old >= Period THEN 0 ELSE old
  PROVE  /\ Refilled(t, old) \in 0..COINBASER_BURST
         /\ rest \in Nat /\ rest <= Period - 1
         /\ Refilled(t, old) * Period + rest <= t * Period + old
  <1> DEFINE n == old \div Period
             T == Refilled(t, old)
  <1>1. n \in Nat /\ n * Period <= old /\ old < n * Period + Period
    BY ThrottlesAre, WholePeriods
  <1>2. T = IF t + n < COINBASER_BURST THEN t + n ELSE COINBASER_BURST
    BY DEF Refilled, Period
  <1> HIDE DEF n, T
  <1>3. T \in 0..COINBASER_BURST /\ T <= t + n
    BY <1>1, <1>2, ThrottlesAre
  <1>4. T * Period <= (t + n) * Period
    BY <1>1, <1>3, ThrottlesAre, Ordered
  <1>5. (t + n) * Period = t * Period + n * Period /\ t * Period \in Nat /\ n * Period \in Nat /\ T * Period \in Nat
    BY <1>1, <1>3, ThrottlesAre
  <1>6. CASE old >= Period
    BY <1>6, <1>1, <1>3, <1>4, <1>5, ThrottlesAre DEF T
  <1>7. CASE old < Period
    <2>1. n = 0
      <3>1. CASE n >= 1
        <4>1. 1 * Period <= n * Period
          BY <3>1, <1>1, ThrottlesAre, Ordered
        <4> QED
          BY <4>1, <1>1, <1>5, <1>7, ThrottlesAre
      <3> QED
        BY <3>1, <1>1
    <2>2. T * Period <= t * Period
      BY <2>1, <1>4, <1>5, ThrottlesAre
    <2> QED
      BY <2>2, <1>3, <1>5, <1>7, ThrottlesAre DEF T
  <1> QED
    BY <1>6, <1>7, ThrottlesAre

\* Nothing is counted and the bucket is full.
LEMMA CostInit == Init => CostInv
  <1> SUFFICES ASSUME Init PROVE CostInv
    OBVIOUS
  <1>1. << >> \in Seq(Nat) /\ Falling(<< >>) /\ Len(<< >>) = 0 /\ DOMAIN << >> = {}
    BY DEF Falling
  <1>2. ListsOK
    BY <1>1 DEF Init, ListsOK
  <1>3. FloodInv
    BY <1>1, ThrottlesAre DEF Init, FloodInv, YoungOf, Open
  <1>4. BucketInv
    BY <1>1, ThrottlesAre DEF Init, BucketInv
  <1> QED
    BY <1>2, <1>3, <1>4 DEF Init, CostInv, Open

\* Steps that touch neither throttle.
LEMMA QuietStep ==
  ASSUME CostInv, stage \in Open, stage' \in (Open \cup Reasons) \ {"flood"},
         stage' \in {"hello", "greeting"} => stage \in {"hello", "greeting"},
         UNCHANGED <<rejects, noted, splits, tokens, refill_at>>
  PROVE  CostInv'
  <1>1. ListsOK'
    BY DEF CostInv, ListsOK, Falling
  <1>2. FloodInv'
    BY DEF CostInv, FloodInv, YoungOf
  <1>3. BucketInv'
    BY DEF CostInv, BucketInv
  <1> QED
    BY <1>1, <1>2, <1>3 DEF CostInv

\* A reject is noted: of recent_rejects exactly the window is left, so the
\* session ends at the limit and not before.
LEMMA NoteStep ==
  ASSUME CostInv, NoteReject
  PROVE  /\ rejects' \in Seq(Nat) /\ Falling(rejects')
         /\ noted' \in Seq(Nat) /\ Falling(noted')
         /\ YoungOf(noted', rejects', REJECT_WINDOW)
         /\ Len(rejects') = Len(noted')
         /\ stage' \in {"cutting", "serving", "flood"}
         /\ stage' = "flood" <=> Len(noted') > REJECT_FLOOD
  <1> DEFINE more == Append(rejects, 0)
             n == Len(rejects)
             m == Len(noted)
  <1>0. /\ rejects \in Seq(Nat) /\ Falling(rejects) /\ noted \in Seq(Nat) /\ Falling(noted)
        /\ YoungOf(noted, rejects, REJECT_WINDOW)
    BY DEF CostInv, ListsOK, FloodInv
  <1>1. /\ rejects' = Within(more, REJECT_WINDOW) /\ noted' = Append(noted, 0)
        /\ stage' = IF Len(rejects') > REJECT_FLOOD THEN "flood" ELSE After
    BY DEF NoteReject, Recent
  <1>2. /\ more \in Seq(Nat) /\ Len(more) = n + 1 /\ Falling(more)
        /\ \A i \in 1..n : more[i] = rejects[i]
        /\ more[n + 1] = 0
    BY <1>0, PushedIs
  <1> HIDE DEF more
  <1>3. /\ rejects' \in Seq(Nat) /\ Falling(rejects')
        /\ YoungOf(rejects', more, REJECT_WINDOW)
    BY <1>1, <1>2, ThrottlesAre, WithinIs
  <1>4. /\ noted' \in Seq(Nat) /\ Len(noted') = m + 1 /\ Falling(noted')
        /\ \A i \in 1..m : noted'[i] = noted[i]
        /\ noted'[m + 1] = 0
    BY <1>0, <1>1, PushedIs
  <1>5. n \in Nat /\ m \in Nat /\ Len(rejects') \in Nat
    BY <1>0, <1>3
  <1>6. /\ m <= n
        /\ \A i \in 1..m : noted[i] = rejects[n - m + i] /\ noted[i] <= REJECT_WINDOW
        /\ \A i \in 1..(n - m) : rejects[i] > REJECT_WINDOW
    BY <1>0 DEF YoungOf
  <1>d. DOMAIN rejects' = 1..Len(rejects')
    BY <1>3
  <1>7. /\ Len(rejects') <= n + 1
        /\ \A i \in 1..Len(rejects') :
             rejects'[i] = more[n + 1 - Len(rejects') + i] /\ rejects'[i] <= REJECT_WINDOW
        /\ \A i \in 1..(n + 1 - Len(rejects')) : more[i] > REJECT_WINDOW
    <2>1. /\ Len(rejects') <= Len(more)
          /\ \A i \in DOMAIN rejects' :
               rejects'[i] = more[Len(more) - Len(rejects') + i] /\ rejects'[i] <= REJECT_WINDOW
          /\ \A i \in 1..(Len(more) - Len(rejects')) : more[i] > REJECT_WINDOW
      BY <1>3, Zenon DEF YoungOf
    <2>2. Len(more) = n + 1
      BY <1>2
    <2> HIDE DEF n
    <2> QED
      BY <2>1, <2>2, <1>d, <1>5
  <1>t. \A i \in 1..(n + 1) : more[i] \in Nat
    BY <1>2
  <1> HIDE DEF n, m
  <1>8. Len(rejects') = m + 1
    <2>1. CASE Len(rejects') > m + 1
      <3> DEFINE i == n + 1 - Len(rejects') + 1
      <3>1. i \in 1..(n - m) /\ i \in 1..n /\ 1 \in 1..Len(rejects')
        BY <2>1, <1>5, <1>7
      <3>2. more[i] > REJECT_WINDOW
        BY <3>1, <1>2, <1>6
      <3>3. more[i] <= REJECT_WINDOW
        BY <3>1, <1>7
      <3> QED
        BY <3>1, <3>2, <3>3, <1>t, <1>5, ThrottlesAre
    <2>2. CASE Len(rejects') < m + 1
      <3> DEFINE i == n - m + 1
      <3>1. i \in 1..(n + 1 - Len(rejects')) /\ i \in 1..(n + 1)
        BY <2>2, <1>5, <1>6
      <3>2. more[i] > REJECT_WINDOW
        BY <3>1, <1>7
      <3>3. more[i] <= REJECT_WINDOW
        <4>1. CASE m = 0
          BY <4>1, <1>2, <1>5, ThrottlesAre
        <4>2. CASE m # 0
          <5>1. 1 \in 1..m /\ i \in 1..n /\ i = n - m + 1
            BY <4>2, <1>5, <1>6
          <5> QED
            BY <5>1, <1>2, <1>6
        <4> QED
          BY <4>1, <4>2
      <3> QED
        BY <3>1, <3>2, <3>3, <1>t, <1>5, ThrottlesAre
    <2> QED
      BY <2>1, <2>2, <1>5
  <1>9. \A i \in 1..(m + 1) : noted'[i] = rejects'[i] /\ noted'[i] <= REJECT_WINDOW
    <2> SUFFICES ASSUME NEW i \in 1..(m + 1)
                 PROVE  noted'[i] = rejects'[i] /\ noted'[i] <= REJECT_WINDOW
      OBVIOUS
    <2>1. rejects'[i] = more[n - m + i]
      <3>1. n + 1 - Len(rejects') + i = n - m + i
        BY <1>5, <1>8
      <3> QED
        BY <3>1, <1>7, <1>8
    <2>2. CASE i = m + 1
      <3>1. n - m + i = n + 1
        BY <2>2, <1>5
      <3> QED
        BY <2>1, <2>2, <3>1, <1>2, <1>4, ThrottlesAre
    <2>3. CASE i # m + 1
      <3>1. i \in 1..m /\ n - m + i \in 1..n
        BY <2>3, <1>5, <1>6
      <3> QED
        BY <2>1, <3>1, <1>2, <1>4, <1>6
    <2> QED
      BY <2>2, <2>3
  <1>10. DOMAIN noted' = 1..(m + 1)
    BY <1>4, <1>5
  <1>11. YoungOf(noted', rejects', REJECT_WINDOW)
    <2>1. Len(rejects') - Len(noted') = 0
      BY <1>4, <1>5, <1>8
    <2>2. \A i \in DOMAIN noted' : Len(rejects') - Len(noted') + i = i
      BY <2>1, <1>10, <1>5
    <2> QED
      BY <2>1, <2>2, <1>4, <1>5, <1>8, <1>9, <1>10 DEF YoungOf
  <1>12. stage' \in {"cutting", "serving", "flood"} /\ (stage' = "flood" <=> Len(rejects') > REJECT_FLOOD)
    BY <1>1, AfterIs
  <1> QED
    BY <1>3, <1>4, <1>8, <1>11, <1>12

\* A reject noted, with the splits and the bucket as they were.
LEMMA RejectStep ==
  ASSUME CostInv, NoteReject, UNCHANGED <<splits, tokens, refill_at>>
  PROVE  CostInv'
  <1>1. ListsOK'
    <2>1. splits' \in Seq(Nat) /\ Falling(splits')
      BY DEF CostInv, ListsOK
    <2> QED
      BY <2>1, NoteStep DEF ListsOK, Falling
  <1>2. FloodInv'
    <2>1. Len(noted') \in Nat
      BY NoteStep
    <2> QED
      BY <2>1, NoteStep, ThrottlesAre DEF FloodInv, YoungOf, Open
  <1>3. BucketInv'
    BY DEF CostInv, BucketInv
  <1> QED
    BY <1>1, <1>2, <1>3, NoteStep DEF CostInv, Open, Reasons

\* The bucket after its refill is as good as before it.
LEMMA RefilledCovers ==
  ASSUME CostInv, NEW t, NEW rest, t = Refilled(tokens, refill_at),
         rest = IF refill_at >= Period THEN 0 ELSE refill_at
  PROVE  /\ t \in 0..COINBASER_BURST /\ rest \in Nat /\ rest <= Period - 1
         /\ t * Period \in Nat
         /\ \A j \in DOMAIN splits :
               (Len(splits) - j + 1) * Period + t * Period + rest
                  <= splits[j] + COINBASER_BURST * Period + Period - 1
  <1>0. /\ tokens \in 0..COINBASER_BURST /\ refill_at \in Nat
        /\ splits \in Seq(Nat)
    BY DEF CostInv, BucketInv, ListsOK
  <1>1. /\ t \in 0..COINBASER_BURST /\ rest \in Nat /\ rest <= Period - 1
        /\ t * Period + rest <= tokens * Period + refill_at
    BY <1>0, RefillIs
  <1>2. t * Period \in Nat /\ tokens * Period \in Nat /\ COINBASER_BURST * Period \in Nat
    BY <1>0, <1>1, ThrottlesAre
  <1>3. ASSUME NEW j \in DOMAIN splits
        PROVE  (Len(splits) - j + 1) * Period + t * Period + rest
                  <= splits[j] + COINBASER_BURST * Period + Period - 1
    <2> DEFINE c == (Len(splits) - j + 1) * Period
    <2>1. c + tokens * Period + refill_at <= splits[j] + COINBASER_BURST * Period + Period - 1
      BY DEF CostInv, BucketInv
    <2>2. splits[j] \in Nat /\ Len(splits) - j + 1 \in Int
      BY <1>0
    <2>3. c \in Int
      BY <2>2, ThrottlesAre
    <2> DEFINE after == t * Period
               before == tokens * Period
               full == COINBASER_BURST * Period
    <2>4. /\ after + rest <= before + refill_at
          /\ c + before + refill_at <= splits[j] + full + Period - 1
          /\ after \in Nat /\ before \in Nat /\ full \in Nat
      BY <2>1, <1>1, <1>2
    <2>n. rest \in Nat /\ refill_at \in Nat /\ Period \in Nat /\ splits[j] \in Nat
      BY <2>2, <1>0, <1>1, ThrottlesAre
    <2> HIDE DEF c, after, before, full
    <2>5. c + after + rest <= splits[j] + full + Period - 1
      BY <2>n, <2>3, <2>4
    <2> QED
      BY <2>5 DEF c, after, full
  <1> QED
    BY <1>1, <1>2, <1>3

\* A list is answered with a split, or a reject is noted.
LEMMA RequestStep ==
  ASSUME CostInv, CoinbaserRequest
  PROVE  CostInv'
  <1> DEFINE t == Refilled(tokens, refill_at)
             rest == IF refill_at >= Period THEN 0 ELSE refill_at
  <1>0. splits \in Seq(Nat) /\ Falling(splits) /\ Len(splits) \in Nat
    BY DEF CostInv, ListsOK
  <1>1. refill_at' = rest /\ stage = "cutting"
    BY DEF CoinbaserRequest, Period, Cut
  <1>2. /\ t \in 0..COINBASER_BURST /\ rest \in Nat /\ rest <= Period - 1
        /\ t * Period \in Nat
        /\ \A j \in DOMAIN splits :
              (Len(splits) - j + 1) * Period + t * Period + rest
                 <= splits[j] + COINBASER_BURST * Period + Period - 1
    BY RefilledCovers
  <1>3. CASE t = 0
    <2>1. NoteReject /\ tokens' = t /\ splits' = splits
      BY <1>3 DEF CoinbaserRequest
    <2>2. ListsOK' /\ FloodInv'
      <3>1. splits' \in Seq(Nat) /\ Falling(splits') /\ Len(noted') \in Nat
        BY <2>1, <1>0, NoteStep
      <3> QED
        BY <2>1, <3>1, NoteStep, ThrottlesAre DEF ListsOK, FloodInv, Falling, YoungOf, Open
    <2> HIDE DEF t, rest
    <2>3. BucketInv'
      BY <2>1, <1>1, <1>2 DEF CostInv, BucketInv
    <2> QED
      BY <2>1, <2>2, <2>3, NoteStep DEF CostInv, Open, Reasons
  <1>4. CASE t # 0
    <2>1. /\ tokens' = t - 1 /\ splits' = Append(splits, 0) /\ stage' = "writing"
          /\ rejects' = rejects /\ noted' = noted
      BY <1>4 DEF CoinbaserRequest, Write
    <2> HIDE DEF t, rest
    <2>2. /\ splits' \in Seq(Nat) /\ Falling(splits') /\ Len(splits') = Len(splits) + 1
          /\ \A j \in 1..Len(splits) : splits'[j] = splits[j]
          /\ splits'[Len(splits) + 1] = 0
      BY <2>1, <1>0, PushedIs
    <2>3. ListsOK'
      BY <2>1, <2>2 DEF CostInv, ListsOK, Falling
    <2>4. FloodInv'
      BY <1>1, <2>1 DEF CostInv, FloodInv, YoungOf, Open
    <2>5. t - 1 \in 0..COINBASER_BURST /\ (t - 1) * Period = t * Period - Period
      BY <1>2, <1>4, ThrottlesAre
    <2>6. t * Period <= COINBASER_BURST * Period /\ COINBASER_BURST * Period \in Nat
      BY <1>2, ThrottlesAre, Ordered
    <2>7. ASSUME NEW j \in DOMAIN splits'
          PROVE  /\ splits'[j] <= Span
                 /\ (Len(splits') - j + 1) * Period + (t - 1) * Period + rest
                       <= splits'[j] + COINBASER_BURST * Period + Period - 1
      <3> DEFINE k == Len(splits) - j + 1
                 left == t * Period
                 full == COINBASER_BURST * Period
      <3>0. j \in 1..(Len(splits) + 1) /\ DOMAIN splits = 1..Len(splits)
        BY <2>2, <1>0
      <3>1. k \in Int /\ Len(splits') - j + 1 = k + 1
        BY <3>0, <2>2, <1>0
      <3>2. left \in Nat /\ full \in Nat /\ left <= full /\ (t - 1) * Period = left - Period
        BY <2>5, <2>6, <1>2
      <3>3. (Len(splits') - j + 1) * Period = k * Period + Period /\ k * Period \in Int
        BY <3>1, ThrottlesAre, OneMore
      <3>4. CASE j = Len(splits) + 1
        <4>1. k = 0
          BY <3>4, <1>0
        <4>2. k * Period = 0
          BY <4>1, ThrottlesAre
        <4>3. splits'[j] = 0
          BY <3>4, <2>2
        <4> HIDE DEF k, left, full
        <4>4. /\ splits'[j] <= Span
              /\ (k * Period + Period) + (left - Period) + rest <= splits'[j] + full + Period - 1
          BY <4>2, <4>3, <3>2, <1>2, ThrottlesAre
        <4> QED
          BY <4>4, <3>2, <3>3 DEF full
      <3>5. CASE j # Len(splits) + 1
        <4>1. j \in DOMAIN splits
          BY <3>0, <3>5, <1>0
        <4>2. splits'[j] = splits[j] /\ splits[j] \in Nat
          BY <4>1, <3>0, <2>2, <1>0
        <4>3. splits[j] <= Span
          BY <4>1 DEF CostInv, BucketInv
        <4> DEFINE c == k * Period
        <4>4. c + left + rest <= splits[j] + full + Period - 1
          BY <4>1, <1>2
        <4>5. c \in Int
          BY <3>3
        <4> HIDE DEF c, k, left, full
        <4>6. (c + Period) + (left - Period) + rest <= splits'[j] + full + Period - 1
          BY <4>2, <4>4, <4>5, <3>2, <1>2, ThrottlesAre
        <4> QED
          BY <4>2, <4>3, <4>6, <3>2, <3>3 DEF c, full
      <3> QED
        BY <3>4, <3>5
    <2>8. BucketInv'
      BY <1>1, <1>2, <2>1, <2>5, <2>7 DEF BucketInv
    <2> QED
      BY <2>1, <2>3, <2>4, <2>8 DEF CostInv, Open
  <1> QED
    BY <1>3, <1>4

\* The session starts with a full bucket and nothing counted.
LEMMA GreetedCost ==
  ASSUME CostInv, Greeted
  PROVE  CostInv'
  <1>1. /\ stage = "greeting" /\ stage' = "configuring" /\ refill_at' = 0
        /\ tokens' = COINBASER_BURST /\ rejects' = << >> /\ noted' = noted /\ splits' = splits
    BY DEF Greeted
  <1>2. noted' = << >> /\ splits' = << >>
    BY <1>1 DEF CostInv, ListsOK
  <1>3. << >> \in Seq(Nat) /\ Falling(<< >>) /\ Len(<< >>) = 0 /\ DOMAIN << >> = {}
    BY DEF Falling
  <1>4. ListsOK'
    BY <1>1, <1>2, <1>3 DEF ListsOK, Falling
  <1>5. FloodInv'
    BY <1>1, <1>2, <1>3, ThrottlesAre DEF FloodInv, YoungOf
  <1>6. BucketInv'
    BY <1>1, <1>2, <1>3, ThrottlesAre DEF BucketInv
  <1> QED
    BY <1>1, <1>4, <1>5, <1>6 DEF CostInv, Open

\* Time passes: the rejects and the splits that leave their window leave at
\* the front, and time covers the refills it is worth.
LEMMA TimeCost ==
  ASSUME CostInv, TimePasses
  PROVE  CostInv'
  <1> DEFINE n == Len(rejects)
             m == Len(noted)
             old == [i \in DOMAIN noted |-> Older(noted[i], REJECT_WINDOW)]
             olds == [i \in DOMAIN splits |-> Older(splits[i], Span)]
  <1>0. /\ rejects \in Seq(Nat) /\ Falling(rejects) /\ noted \in Seq(Nat) /\ Falling(noted)
        /\ splits \in Seq(Nat) /\ Falling(splits)
        /\ YoungOf(noted, rejects, REJECT_WINDOW)
    BY DEF CostInv, ListsOK, FloodInv
  <1>1. /\ stage \in Open /\ stage' = stage /\ tokens' = tokens
        /\ rejects' = [i \in DOMAIN rejects |-> Older(rejects[i], REJECT_WINDOW)]
        /\ noted' = Within(old, REJECT_WINDOW) /\ splits' = Within(olds, Span)
        /\ refill_at' = Older(refill_at, COINBASER_BURST * Period)
    BY DEF TimePasses, Aged, Period
  <1>2. /\ rejects' \in Seq(Nat) /\ Len(rejects') = n /\ Falling(rejects')
        /\ \A i \in 1..n : rejects'[i] = Older(rejects[i], REJECT_WINDOW)
    BY <1>0, <1>1, ThrottlesAre, OlderAll
  <1>3. /\ old \in Seq(Nat) /\ Len(old) = m /\ Falling(old)
        /\ \A i \in 1..m : old[i] = Older(noted[i], REJECT_WINDOW)
    BY <1>0, ThrottlesAre, OlderAll
  <1>4. /\ olds \in Seq(Nat) /\ Len(olds) = Len(splits) /\ Falling(olds)
        /\ \A i \in 1..Len(splits) : olds[i] = Older(splits[i], Span)
    BY <1>0, ThrottlesAre, OlderAll
  <1> HIDE DEF old, olds
  <1>5. /\ noted' \in Seq(Nat) /\ Falling(noted') /\ YoungOf(noted', old, REJECT_WINDOW)
        /\ splits' \in Seq(Nat) /\ Falling(splits') /\ YoungOf(splits', olds, Span)
    BY <1>1, <1>3, <1>4, ThrottlesAre, WithinIs
  <1>6. ListsOK'
    <2>1. CASE stage \in {"hello", "greeting"}
      <3>1. noted = << >> /\ splits = << >>
        BY <2>1 DEF CostInv, ListsOK
      <3>2. Len(old) = 0 /\ Len(olds) = 0
        BY <3>1, <1>3, <1>4
      <3>3. Len(noted') = 0 /\ Len(splits') = 0
        BY <3>2, <1>5 DEF YoungOf
      <3>4. noted' = << >> /\ splits' = << >>
        BY <3>3, <1>5
      <3> QED
        BY <3>4, <1>2, <1>5 DEF ListsOK, Falling
    <2>2. CASE stage \notin {"hello", "greeting"}
      BY <2>2, <1>1, <1>2, <1>5 DEF ListsOK, Falling
    <2> QED
      BY <2>1, <2>2
  <1>7. FloodInv'
    <2> DEFINE q == Len(noted')
    <2>1. n \in Nat /\ m \in Nat /\ q \in Nat /\ DOMAIN noted' = 1..q /\ DOMAIN noted = 1..m
      BY <1>0, <1>5
    <2>2. /\ m <= n
          /\ \A i \in 1..m : noted[i] = rejects[n - m + i]
          /\ \A i \in 1..(n - m) : rejects[i] > REJECT_WINDOW
      BY <1>0, <2>1 DEF YoungOf
    <2>3. /\ q <= m
          /\ \A i \in 1..q : noted'[i] = old[m - q + i] /\ noted'[i] <= REJECT_WINDOW
          /\ \A i \in 1..(m - q) : old[i] > REJECT_WINDOW
      BY <1>3, <1>5, <2>1 DEF YoungOf
    <2>4. Len(rejects') = n
      BY <1>2
    <2>e. stage \in Open => m <= REJECT_FLOOD
      BY DEF CostInv, FloodInv
    <2> HIDE DEF n, m, q
    <2>5. \A i \in 1..m : n - m + i \in 1..n /\ old[i] = rejects'[n - m + i]
      <3>1. \A i \in 1..m : n - m + i \in 1..n
        BY <2>1, <2>2
      <3> SUFFICES ASSUME NEW i \in 1..m PROVE old[i] = rejects'[n - m + i]
        BY <3>1
      <3>2. old[i] = Older(noted[i], REJECT_WINDOW) /\ noted[i] = rejects[n - m + i]
        BY <1>3, <2>2
      <3>3. rejects'[n - m + i] = Older(rejects[n - m + i], REJECT_WINDOW)
        BY <3>1, <1>2
      <3> QED
        BY <3>2, <3>3
    <2>6. ASSUME NEW i \in 1..q
          PROVE  noted'[i] = rejects'[n - q + i]
      <3>1. m - q + i \in 1..m /\ n - m + (m - q + i) = n - q + i
        BY <2>1, <2>2, <2>3
      <3>2. old[m - q + i] = rejects'[n - q + i]
        BY <3>1, <2>5
      <3> QED
        BY <3>2, <2>3
    <2>7. ASSUME NEW i \in 1..(n - q)
          PROVE  rejects'[i] > REJECT_WINDOW
      <3>1. CASE i <= n - m
        <4>1. i \in 1..(n - m) /\ i \in 1..n
          BY <3>1, <2>1, <2>2
        <4>2. rejects[i] > REJECT_WINDOW /\ rejects'[i] = Older(rejects[i], REJECT_WINDOW)
          BY <4>1, <2>2, <1>2
        <4>3. rejects[i] \in Nat
          BY <4>1, <1>0 DEF n
        <4> QED
          BY <4>2, <4>3, ThrottlesAre DEF Older
      <3>2. CASE i > n - m
        <4>1. i - (n - m) \in 1..m /\ i - (n - m) \in 1..(m - q) /\ n - m + (i - (n - m)) = i
          BY <3>2, <2>1, <2>2, <2>3
        <4>2. old[i - (n - m)] = rejects'[i]
          BY <4>1, <2>5
        <4> QED
          BY <4>1, <4>2, <2>3
      <3> QED
        BY <3>1, <3>2, <2>1
    <2>8. q <= n /\ q <= m
      BY <2>1, <2>2, <2>3
    <2>9. YoungOf(noted', rejects', REJECT_WINDOW)
      BY <2>1, <2>3, <2>4, <2>6, <2>7, <2>8 DEF YoungOf, q
    <2>10. q <= REJECT_FLOOD
      BY <2>1, <2>8, <2>e, <1>1, ThrottlesAre
    <2> QED
      BY <2>9, <2>10, <1>1 DEF FloodInv, YoungOf, Open, q
  <1>8. BucketInv'
    <2> DEFINE p == Len(splits)
               q == Len(splits')
               left == tokens * Period
               full == COINBASER_BURST * Period
    <2>0. tokens \in 0..COINBASER_BURST /\ refill_at \in Nat
      BY DEF CostInv, BucketInv
    <2>1. left \in Nat /\ full \in Nat /\ Period \in Nat
      BY <2>0, ThrottlesAre
    <2>2. refill_at' \in Nat /\ refill_at' <= refill_at + 1
      BY <2>0, <2>1, <1>1, OlderIs
    <2>3. p \in Nat /\ q \in Nat /\ DOMAIN splits' = 1..q /\ DOMAIN splits = 1..p
      BY <1>0, <1>5
    <2>4. /\ q <= p
          /\ \A j \in 1..q : splits'[j] = olds[p - q + j] /\ splits'[j] <= Span
      BY <1>4, <1>5, <2>3 DEF YoungOf
    <2>5. ASSUME NEW j \in DOMAIN splits'
          PROVE  /\ splits'[j] <= Span
                 /\ (q - j + 1) * Period + left + refill_at' <= splits'[j] + full + Period - 1
      <3> DEFINE k == p - q + j
                 c == (q - j + 1) * Period
      <3>1. k \in 1..p /\ p - k + 1 = q - j + 1 /\ q - j + 1 \in Int /\ j \in 1..q
        BY <2>3, <2>4
      <3>2. k \in DOMAIN splits
        BY <3>1, <2>3
      <3>3. /\ splits[k] <= Span
            /\ (p - k + 1) * Period + left + refill_at <= splits[k] + full + Period - 1
        BY <3>2 DEF CostInv, BucketInv
      <3>4. splits[k] \in Nat
        BY <3>2, <1>0
      <3>5. splits'[j] = Older(splits[k], Span)
        BY <3>1, <2>4, <1>4
      <3>6. splits'[j] = splits[k] + 1
        BY <3>3, <3>4, <3>5, ThrottlesAre DEF Older
      <3>7. c + left + refill_at <= splits[k] + full + Period - 1 /\ c \in Int
        BY <3>1, <3>3, <2>1
      <3> HIDE DEF c, k, left, full
      <3>8. c + left + refill_at' <= splits'[j] + full + Period - 1
        BY <3>4, <3>6, <3>7, <2>0, <2>1, <2>2
      <3> QED
        BY <3>1, <3>8, <2>4 DEF c
    <2> QED
      BY <2>0, <2>2, <2>5, <1>1 DEF BucketInv
  <1> QED
    BY <1>1, <1>6, <1>7, <1>8 DEF CostInv

\* Every step keeps the throttles' invariant.
LEMMA CostStep == CostInv /\ [Next]_vars => CostInv'
  <1> SUFFICES ASSUME CostInv, [Next]_vars PROVE CostInv'
    OBVIOUS
  <1>1. CASE HelloArrives \/ HelloBad \/ HelloTimeout \/ Configured
    BY <1>1, QuietStep DEF HelloArrives, HelloBad, HelloTimeout, Configured, clocks, Open, Reasons
  <1>2. CASE Greeted
    BY <1>2, GreetedCost
  <1>3. ASSUME NEW k \in 0..Batch, Read(k) PROVE CostInv'
    BY <1>3, AfterIs, QuietStep DEF Read, Open, Reasons
  <1>4. CASE FrameIgnored \/ FrameFatal \/ ShareFrame
    BY <1>4, AfterIs, QuietStep DEF FrameIgnored, FrameFatal, ShareFrame, Cut, Write, clocks, Open, Reasons
  <1>5. CASE FrameMalformed
    BY <1>5, RejectStep DEF FrameMalformed
  <1>6. CASE CoinbaserRequest
    BY <1>6, RequestStep
  <1>7. CASE Notify \/ Tick \/ Gone \/ Stall
    BY <1>7, QuietStep DEF Notify, Tick, Gone, Stall, Write, clocks, Open, Reasons
  <1>8. CASE WriteDone
    <2>1. CASE then = "note_reject"
      BY <2>1, <1>8, RejectStep DEF WriteDone
    <2>2. CASE then # "note_reject"
      BY <2>2, <1>8, AfterIs, QuietStep DEF WriteDone, Open, Reasons
    <2> QED
      BY <2>1, <2>2
  <1>9. CASE TimePasses
    BY <1>9, TimeCost
  <1>10. CASE UNCHANGED vars
    BY <1>10 DEF vars, CostInv, ListsOK, FloodInv, BucketInv, Falling, YoungOf
  <1> QED
    BY <1>1, <1>2, <1>3, <1>4, <1>5, <1>6, <1>7, <1>8, <1>9, <1>10
       DEF Next, Task, HandleFrame

\* What the first split of a span has been followed by.
LEMMA SplitsBounded ==
  ASSUME CostInv
  PROVE  Len(splits) <= COINBASER_BURST + (Span + Period - 1) \div Period
  <1> DEFINE n == Len(splits)
             s == Span + Period - 1
             most == s \div Period
             full == COINBASER_BURST * Period
  <1>0. /\ splits \in Seq(Nat) /\ tokens \in 0..COINBASER_BURST /\ refill_at \in Nat
    BY DEF CostInv, ListsOK, BucketInv
  <1>1. n \in Nat /\ s \in Nat /\ full \in Nat
    BY <1>0, ThrottlesAre
  <1>2. most \in Nat /\ s < most * Period + Period /\ most * Period \in Nat
    BY <1>1, ThrottlesAre, WholePeriods
  <1>3. CASE n = 0
    BY <1>1, <1>2, <1>3, ThrottlesAre
  <1>4. CASE n # 0
    <2>1. 1 \in DOMAIN splits /\ n - 1 + 1 = n
      BY <1>0, <1>4
    <2>2. /\ splits[1] <= Span
          /\ n * Period + tokens * Period + refill_at <= splits[1] + full + Period - 1
      BY <2>1 DEF CostInv, BucketInv
    <2>3. tokens * Period \in Nat /\ n * Period \in Nat /\ splits[1] \in Nat
      BY <2>1, <1>0, <1>1, ThrottlesAre
    <2>4. n * Period <= full + s
      <3> DEFINE a == n * Period
                 b == tokens * Period
      <3>1. a \in Nat /\ b \in Nat /\ a + b + refill_at <= splits[1] + full + Period - 1
        BY <2>2, <2>3
      <3> HIDE DEF a, b, full
      <3>2. a <= full + (Span + Period - 1)
        BY <3>1, <2>2, <2>3, <1>0, <1>1, ThrottlesAre
      <3> QED
        BY <3>2 DEF a
    <2>5. CASE n >= COINBASER_BURST + most + 1
      <3>1. (COINBASER_BURST + most + 1) * Period <= n * Period
        BY <2>5, <1>1, <1>2, ThrottlesAre, Ordered
      <3>2. (COINBASER_BURST + most + 1) * Period = full + most * Period + Period
        BY <1>1, <1>2, ThrottlesAre
      <3> DEFINE a == n * Period
                 d == most * Period
      <3>3. a \in Nat /\ d \in Nat /\ full + d + Period <= a /\ a <= full + s /\ s < d + Period
        BY <3>1, <3>2, <2>3, <2>4, <1>2
      <3> HIDE DEF a, d, full, s, most
      <3> QED
        BY <3>3, <1>1, ThrottlesAre
    <2> QED
      BY <2>5, <1>1, <1>2, ThrottlesAre
  <1> QED
    BY <1>3, <1>4

\* Whatever a peer sends and however long it stays: while its session is open
\* no window holds more rejects than REJECT_FLOOD and no span more splits than
\* the burst and a refill per period begun; and what is dropped as a flood was
\* one (note_reject, on_coinbaser_request).
THEOREM CostNeverPassed == Spec => []CostBounded
  <1>1. CostInv => CostBounded
    BY SplitsBounded DEF CostInv, FloodInv, CostBounded, Period
  <1> QED
    BY <1>1, CostInit, CostStep, PTL DEF Spec

-----------------------------------------------------------------------------
(* Types *)

\* A frame is cut only from a buffer that has one.
FramesInv ==
    /\ then \in {"nothing", "note_reject"} /\ peer \in {"reads", "stalled"}
    /\ frames \in 0..Batch
    /\ stage = "cutting" => frames > 0

\* Every step handles a frame that is there, or none.
LEMMA FramesStep == FramesInv /\ [Next]_vars => FramesInv'
  <1> SUFFICES ASSUME FramesInv, [Next]_vars PROVE FramesInv'
    OBVIOUS
  <1>b. Batch \in Nat
    BY SessionAssumption
  <1>1. CASE HelloArrives \/ HelloBad \/ HelloTimeout \/ Greeted \/ Configured
    BY <1>1 DEF FramesInv, HelloArrives, HelloBad, HelloTimeout, Greeted, Configured
  <1>2. ASSUME NEW k \in 0..Batch, Read(k) PROVE FramesInv'
    BY <1>2, <1>b DEF FramesInv, Read, After
  <1>3. CASE HandleFrame
    <2>1. /\ stage = "cutting" /\ frames' = frames - 1 /\ peer' = peer
          /\ then' \in {then, "nothing", "note_reject"}
          /\ stage' = "cutting" => frames' > 0
      BY <1>3 DEF HandleFrame, FrameIgnored, FrameFatal, FrameMalformed, ShareFrame,
         CoinbaserRequest, Cut, NoteReject, After, Write
    <2> QED
      BY <2>1, <1>b DEF FramesInv
  <1>4. CASE Notify \/ Tick \/ Gone \/ Stall
    BY <1>4 DEF FramesInv, Notify, Tick, Gone, Stall, Write
  <1>5. CASE WriteDone
    BY <1>5 DEF FramesInv, WriteDone, NoteReject, After
  <1>6. CASE TimePasses \/ UNCHANGED vars
    BY <1>6 DEF FramesInv, TimePasses, vars
  <1> QED
    BY <1>1, <1>2, <1>3, <1>4, <1>5, <1>6 DEF Next, Task

\* The session's state keeps its types: the bucket within its burst, and no
\* frame handled that InBuf does not hold.
THEOREM TypeCorrect == Spec => []TypeOK
  <1>1. Init => FramesInv
    BY SessionAssumption DEF Init, FramesInv
  <1>2. LoopInv /\ CostInv /\ FramesInv => TypeOK
    BY DEF LoopInv, AgesOK, CostInv, ListsOK, BucketInv, FramesInv, TypeOK
  <1> QED
    BY <1>1, <1>2, LoopInit, LoopStep, CostInit, CostStep, FramesStep, PTL DEF Spec

-----------------------------------------------------------------------------
(* Coinbasers: the ring, the snapshots and the records *)

Entry == [id : Nat, number : Nat, snapshot : Nat \cup {None}]

RecordOf == [own : Nat, lag : Nat, judged : SUBSET Entry]

\* The ring holds the newest coinbasers without a gap, under their ids.
RingInv ==
    /\ issued \in 0..MaxIssued
    /\ next_id = IdOf(issued + 1)
    /\ ring \in Seq(Entry)
    /\ Len(ring) = IF issued > KEPT THEN KEPT ELSE issued
    /\ \A i \in 1..Len(ring) :
         /\ ring[i].number = issued - Len(ring) + i
         /\ ring[i].id = IdOf(ring[i].number)
         /\ ring[i].snapshot \in {ring[i].number, None}

\* A ring's snapshot leaves the disk only when it is too old for any job, and
\* no coinbaser is older than one issued before it.
FilesInv ==
    /\ age \in Seq(Nat)
    /\ Len(age) = issued
    /\ disk \subseteq Numbers
    /\ keep = None \/ keep \subseteq Numbers
    /\ pass \in Nat
    /\ keep # None => pass <= PruneTime
    /\ \A i \in 1..Len(ring) : ring[i].snapshot # None =>
          ring[i].number \in disk \/ age[ring[i].number] > KEEP
    /\ \A m, n \in 1..issued : n <= m => age[m] <= age[n]

\* The file of an entry that judged a block is there, and safe from the pass
\* under way: listed, or too young.
Committed(e) ==
    /\ e.number \in Numbers
    /\ e.id = IdOf(e.number)
    /\ e.snapshot \in {e.number, None}
    /\ e.snapshot # None =>
          /\ e.number \in disk
          /\ keep # None => e.number \in keep \/ age[e.number] <= JobAge + pass

\* A record judged before its job's id came round is judged by its own list.
OwnOf(r) ==
    r.lag < IDS => {e.number : e \in r.judged} = IF r.lag < KEPT THEN {r.own} ELSE {}

RecordsInv ==
    /\ records \in Seq(RecordOf)
    /\ \A i \in 1..Len(records) :
          /\ records[i].own \in Numbers
          /\ OwnOf(records[i])
          /\ \A e \in records[i].judged : Committed(e)

IssueInv == RingInv /\ FilesInv /\ RecordsInv

-----------------------------------------------------------------------------
(* Arithmetic of the ids *)

\* Division with remainder.
LEMMA DivMod ==
  ASSUME NEW a \in Nat, NEW d \in Nat, d > 0
  PROVE  (a \div d) \in Int /\ (a % d) \in 0..(d - 1) /\ a = d * (a \div d) + (a % d)
  OBVIOUS

\* Two multiples less than one divisor apart are the same.
LEMMA CloseMultiples ==
  ASSUME NEW d \in Nat, NEW p \in Int, NEW q \in Int, d > 0,
         d * p - d * q < d, -d < d * p - d * q
  PROVE  p = q
  <1>1. CASE p >= q + 1
    <2>1. d * p >= d * (q + 1)
      BY <1>1
    <2>2. d * (q + 1) = d * q + d
      OBVIOUS
    <2> QED
      BY <2>1, <2>2
  <1>2. CASE q >= p + 1
    <2>1. d * q >= d * (p + 1)
      BY <1>2
    <2>2. d * (p + 1) = d * p + d
      OBVIOUS
    <2> QED
      BY <2>1, <2>2
  <1> QED
    BY <1>1, <1>2

\* The remainder of the next number: one more, or 0 again.
LEMMA NextRemainder ==
  ASSUME NEW a \in Nat, NEW d \in Nat, d > 0
  PROVE  (a + 1) % d = IF a % d = d - 1 THEN 0 ELSE (a % d) + 1
  <1> DEFINE p == a \div d
             q == (a + 1) \div d
             m == a % d
             n == (a + 1) % d
  <1>1. p \in Int /\ a = d * p + m /\ m \in 0..(d - 1)
    BY DivMod
  <1>2. q \in Int /\ a + 1 = d * q + n /\ n \in 0..(d - 1)
    BY DivMod
  <1> HIDE DEF p, q, m, n
  <1>3. CASE m = d - 1
    <2>1. a + 1 = d * (p + 1)
      BY <1>1, <1>3
    <2>2. d * q - d * (p + 1) < d /\ -d < d * q - d * (p + 1)
      BY <2>1, <1>2
    <2>3. q = p + 1
      BY <2>2, <1>1, <1>2, CloseMultiples
    <2>4. n = 0
      BY <2>1, <2>3, <1>1, <1>2
    <2> QED
      BY <2>4, <1>3 DEF m, n
  <1>4. CASE m # d - 1
    <2>1. d * q - d * p < d /\ -d < d * q - d * p
      BY <1>1, <1>2, <1>4
    <2>2. q = p
      BY <2>1, <1>1, <1>2, CloseMultiples
    <2>3. n = m + 1
      BY <2>2, <1>1, <1>2
    <2> QED
      BY <2>3, <1>4 DEF m, n
  <1> QED
    BY <1>3, <1>4

\* Ids run from 1 to IDS and start over.
LEMMA IdNext ==
  ASSUME NEW n \in Nat, n > 0
  PROVE  /\ IdOf(n) \in 1..IDS
         /\ IdOf(n + 1) = IF IdOf(n) = IDS THEN 1 ELSE IdOf(n) + 1
  <1>1. IDS \in Nat /\ IDS > 0 /\ n - 1 \in Nat /\ (n - 1) + 1 = n /\ (n + 1) - 1 = n
    BY CoinbasersAssumption
  <1>2. n % IDS = IF (n - 1) % IDS = IDS - 1 THEN 0 ELSE ((n - 1) % IDS) + 1
    BY <1>1, NextRemainder
  <1>3. (n - 1) % IDS \in 0..(IDS - 1)
    BY <1>1, DivMod
  <1> QED
    BY <1>1, <1>2, <1>3 DEF IdOf

\* Two coinbasers with one id, less than IDS apart, are the same.
LEMMA IdNear ==
  ASSUME NEW m \in Nat, NEW n \in Nat, m > 0, n > 0, n <= m, m - n < IDS,
         IdOf(m) = IdOf(n)
  PROVE  m = n
  <1> DEFINE p == (m - 1) \div IDS
             q == (n - 1) \div IDS
             r == (m - 1) % IDS
  <1>0. IDS \in Nat /\ IDS > 0 /\ m - 1 \in Nat /\ n - 1 \in Nat
    BY CoinbasersAssumption
  <1>1. p \in Int /\ r \in Int /\ m - 1 = IDS * p + r
    BY <1>0, DivMod
  <1>2. q \in Int /\ (n - 1) % IDS \in Int /\ n - 1 = IDS * q + ((n - 1) % IDS)
    BY <1>0, DivMod
  <1>3. (n - 1) % IDS = r
    BY <1>1, <1>2 DEF IdOf
  <1>4. n - 1 = IDS * q + r
    BY <1>2, <1>3
  <1> HIDE DEF p, q, r
  <1>5. IDS * p - IDS * q < IDS /\ -IDS < IDS * p - IDS * q
    BY <1>0, <1>1, <1>2, <1>4
  <1>6. p = q
    BY <1>0, <1>1, <1>2, <1>5, CloseMultiples
  <1> QED
    BY <1>1, <1>2, <1>4, <1>6

-----------------------------------------------------------------------------
(* The ring and the record list *)

\* What is left of a list when the oldest are dropped.
LEMMA LastIs ==
  ASSUME NEW S, NEW s \in Seq(S), NEW n \in Nat, n > 0
  PROVE  /\ Last(s, n) \in Seq(S)
         /\ Len(Last(s, n)) = IF Len(s) > n THEN n ELSE Len(s)
         /\ \A i \in 1..Len(Last(s, n)) :
              Last(s, n)[i] = s[Len(s) - Len(Last(s, n)) + i]
  <1>1. CASE Len(s) > n
    <2> DEFINE m == Len(s) - n + 1
    <2>1. m \in Int /\ Len(s) \in Int /\ m >= 1 /\ m <= Len(s)
      BY <1>1
    <2>2. \A i \in m..Len(s) : s[i] \in S
      BY <2>1
    <2>3. /\ SubSeq(s, m, Len(s)) \in Seq(S)
          /\ Len(SubSeq(s, m, Len(s))) = IF m <= Len(s) THEN Len(s) - m + 1 ELSE 0
          /\ \A i \in 1..Len(s) - m + 1 : SubSeq(s, m, Len(s))[i] = s[m + i - 1]
      BY <2>1, <2>2, SubSeqProperties
    <2>4. Last(s, n) = SubSeq(s, m, Len(s))
      BY <1>1 DEF Last
    <2>5. Len(Last(s, n)) = n
      BY <2>1, <2>3, <2>4
    <2>6. ASSUME NEW i \in 1..n
          PROVE  Last(s, n)[i] = s[Len(s) - n + i]
      <3>1. i \in 1..(Len(s) - m + 1) /\ m + i - 1 = Len(s) - n + i
        OBVIOUS
      <3> QED
        BY <3>1, <2>3, <2>4
    <2> QED
      BY <1>1, <2>3, <2>4, <2>5, <2>6
  <1>2. CASE ~(Len(s) > n)
    <2>1. Last(s, n) = s
      BY <1>2 DEF Last
    <2>2. Len(s) \in Nat /\ \A i \in 1..Len(s) : Len(s) - Len(s) + i = i
      OBVIOUS
    <2> QED
      BY <1>2, <2>1, <2>2
  <1> QED
    BY <1>1, <1>2

\* An element is added and the oldest are dropped.
Pushed(s, e, n) == Last(Append(s, e), n)

\* Every element of such a list was there before, one place further from the
\* end, or is the new one.
LEMMA IssuedPushed ==
  ASSUME NEW S, NEW s \in Seq(S), NEW e \in S, NEW n \in Nat, n > 0
  PROVE  /\ Pushed(s, e, n) \in Seq(S)
         /\ Len(Pushed(s, e, n)) \in 1..(Len(s) + 1)
         /\ Pushed(s, e, n)[Len(Pushed(s, e, n))] = e
         /\ \A i \in 1..(Len(Pushed(s, e, n)) - 1) :
               /\ Len(s) + 1 - Len(Pushed(s, e, n)) + i \in 1..Len(s)
               /\ Pushed(s, e, n)[i] = s[Len(s) + 1 - Len(Pushed(s, e, n)) + i]
  <1> DEFINE a == Append(s, e)
             l == Last(a, n)
  <1>1. /\ a \in Seq(S) /\ Len(a) = Len(s) + 1 /\ a[Len(s) + 1] = e
        /\ \A i \in 1..Len(s) : a[i] = s[i]
        /\ Len(s) \in Nat
    BY AppendProperties
  <1> HIDE DEF a
  <1>2. /\ l \in Seq(S)
        /\ Len(l) = IF Len(a) > n THEN n ELSE Len(a)
        /\ \A i \in 1..Len(l) : l[i] = a[Len(a) - Len(l) + i]
    BY <1>1, LastIs
  <1> HIDE DEF l
  <1>3. Len(l) \in 1..(Len(s) + 1)
    BY <1>1, <1>2
  <1>4. l[Len(l)] = e
    <2>1. Len(l) \in 1..Len(l) /\ Len(a) - Len(l) + Len(l) = Len(s) + 1
      BY <1>1, <1>3
    <2>2. l[Len(l)] = a[Len(a) - Len(l) + Len(l)]
      BY <2>1, <1>2
    <2> QED
      BY <2>1, <2>2, <1>1
  <1>5. ASSUME NEW i \in 1..(Len(l) - 1)
        PROVE  /\ Len(s) + 1 - Len(l) + i \in 1..Len(s)
               /\ l[i] = s[Len(s) + 1 - Len(l) + i]
    <2>1. /\ Len(s) + 1 - Len(l) + i \in 1..Len(s)
          /\ i \in 1..Len(l) /\ Len(a) - Len(l) + i = Len(s) + 1 - Len(l) + i
      BY <1>1, <1>3
    <2>2. l[i] = a[Len(s) + 1 - Len(l) + i]
      BY <2>1, <1>2
    <2> QED
      BY <2>1, <2>2, <1>1
  <1>6. /\ l \in Seq(S)
        /\ Len(l) \in 1..(Len(s) + 1)
        /\ l[Len(l)] = e
        /\ \A i \in 1..(Len(l) - 1) :
              /\ Len(s) + 1 - Len(l) + i \in 1..Len(s)
              /\ l[i] = s[Len(s) + 1 - Len(l) + i]
    BY <1>2, <1>3, <1>4, <1>5
  <1> QED
    BY <1>6 DEF l, a, Pushed

\* ... and it is full, or one longer than before.
LEMMA PushedLen ==
  ASSUME NEW S, NEW s \in Seq(S), NEW e \in S, NEW n \in Nat, n > 0
  PROVE  Len(Last(Append(s, e), n)) = IF Len(s) + 1 > n THEN n ELSE Len(s) + 1
  <1> DEFINE a == Append(s, e)
  <1>1. a \in Seq(S) /\ Len(a) = Len(s) + 1
    BY AppendProperties
  <1> HIDE DEF a
  <1>2. Len(Last(a, n)) = IF Len(a) > n THEN n ELSE Len(a)
    BY <1>1, LastIs
  <1> QED
    BY <1>1, <1>2 DEF a

-----------------------------------------------------------------------------
(* The inductive invariant *)

\* Nothing is issued, stored or found at first.
LEMMA IssueInvInit == IssueInit => IssueInv
  <1> SUFFICES ASSUME IssueInit
               PROVE  IssueInv
    OBVIOUS
  <1>1. RingInv
    <2>1. IDS \in Nat /\ IDS > 0 /\ 0 % IDS = 0
      BY CoinbasersAssumption
    <2> QED
      BY <2>1, CoinbasersAssumption DEF IssueInit, RingInv, IdOf
  <1>2. FilesInv
    BY CoinbasersAssumption DEF IssueInit, FilesInv, Numbers
  <1>3. RecordsInv
    BY DEF IssueInit, RecordsInv
  <1> QED
    BY <1>1, <1>2, <1>3 DEF IssueInv

\* The new coinbaser has the next number and id, a file of its own if it could
\* be written, and the ring's last place.
LEMMA IssueStep ==
  ASSUME IssueInv, NEW stored \in BOOLEAN, Issue(stored)
  PROVE  IssueInv'
  <1> DEFINE n == issued + 1
             e == [id |-> next_id, number |-> n,
                   snapshot |-> IF stored THEN n ELSE None]
  <1>0. RingInv /\ FilesInv /\ RecordsInv
    BY DEF IssueInv
  <1>i. issued \in Nat /\ n \in Nat /\ n > 0
    BY <1>0, CoinbasersAssumption DEF RingInv
  <1>d. next_id = IdOf(n) /\ IdOf(n) \in 1..IDS /\ IDS \in Nat
    BY <1>0, <1>i, IdNext, CoinbasersAssumption DEF RingInv
  <1>e. e \in Entry
    BY <1>d, <1>i DEF Entry
  <1>v. /\ e.number = n /\ e.id = IdOf(n) /\ e.snapshot \in {n, None}
        /\ e.snapshot # None => stored
    BY <1>d
  <1>s. /\ n <= MaxIssued /\ issued' = n
        /\ next_id' = IF next_id = IDS THEN 1 ELSE next_id + 1
        /\ disk' = IF stored THEN disk \cup {n} ELSE disk
        /\ age' = Append(age, 0)
        /\ ring' = Last(Append(ring, e), KEPT)
        /\ UNCHANGED <<records, keep, pass>>
    BY DEF Issue
  <1> HIDE DEF e
  <1>r. /\ ring' \in Seq(Entry)
        /\ Len(ring') \in 1..(Len(ring) + 1)
        /\ ring'[Len(ring')] = e
        /\ \A i \in 1..(Len(ring') - 1) :
              /\ Len(ring) + 1 - Len(ring') + i \in 1..Len(ring)
              /\ ring'[i] = ring[Len(ring) + 1 - Len(ring') + i]
    <2>1. KEPT \in Nat /\ KEPT > 0 /\ ring \in Seq(Entry)
      BY <1>0, CoinbasersAssumption DEF RingInv
    <2> DEFINE l == Pushed(ring, e, KEPT)
    <2>2. /\ l \in Seq(Entry)
          /\ Len(l) \in 1..(Len(ring) + 1)
          /\ l[Len(l)] = e
          /\ \A i \in 1..(Len(l) - 1) :
                /\ Len(ring) + 1 - Len(l) + i \in 1..Len(ring)
                /\ l[i] = ring[Len(ring) + 1 - Len(l) + i]
      BY <2>1, <1>e, IssuedPushed
    <2>3. ring' = l
      BY <1>s DEF Pushed
    <2> HIDE DEF l
    <2> QED
      BY <2>2, <2>3
  <1>f. Len(ring') = IF Len(ring) + 1 > KEPT THEN KEPT ELSE Len(ring) + 1
    <2>1. KEPT \in Nat /\ KEPT > 0 /\ ring \in Seq(Entry)
      BY <1>0, CoinbasersAssumption DEF RingInv
    <2> QED
      BY <2>1, <1>e, <1>s, PushedLen
  <1>a. /\ age' \in Seq(Nat) /\ Len(age') = n /\ age'[n] = 0
        /\ \A m \in 1..issued : age'[m] = age[m] /\ age[m] \in Nat
    BY <1>0, <1>s, <1>i, AppendProperties DEF FilesInv
  <1>l. /\ Len(ring) \in Nat /\ Len(ring) <= issued /\ KEPT \in Nat
        /\ Len(ring) = IF issued > KEPT THEN KEPT ELSE issued
    BY <1>0, CoinbasersAssumption DEF RingInv
  <1>k. \A i \in 1..Len(ring) :
           /\ ring[i].number = issued - Len(ring) + i
           /\ ring[i].number \in 1..issued
           /\ ring[i].id = IdOf(ring[i].number)
           /\ ring[i].snapshot \in {ring[i].number, None}
    <2>1. \A i \in 1..Len(ring) :
             /\ ring[i].number = issued - Len(ring) + i
             /\ ring[i].id = IdOf(ring[i].number)
             /\ ring[i].snapshot \in {ring[i].number, None}
      BY <1>0 DEF RingInv
    <2>2. /\ Len(ring) \in Nat /\ Len(ring) <= issued
      BY <1>l
    <2>3. \A i \in 1..Len(ring) : issued - Len(ring) + i \in 1..issued
      BY <2>2, <1>i
    <2> QED
      BY <2>1, <2>3
  <1>1. RingInv'
    <2>1. next_id' = IdOf(n + 1)
      BY <1>d, <1>i, <1>s, IdNext
    <2>2. issued' \in 0..MaxIssued /\ Len(ring') = IF issued' > KEPT THEN KEPT ELSE issued'
      BY <1>s, <1>i, <1>l, <1>f, CoinbasersAssumption
    <2>3. ASSUME NEW i \in 1..Len(ring')
          PROVE  /\ ring'[i].number = n - Len(ring') + i
                 /\ ring'[i].id = IdOf(ring'[i].number)
                 /\ ring'[i].snapshot \in {ring'[i].number, None}
      <3>1. CASE i = Len(ring')
        BY <3>1, <1>r, <1>v, <1>i
      <3>2. CASE i # Len(ring')
        <4> DEFINE j == Len(ring) + 1 - Len(ring') + i
        <4>1. j \in 1..Len(ring) /\ ring'[i] = ring[j]
          <5>1. Len(ring') \in Nat
            BY <1>r, <1>l
          <5>2. i \in 1..(Len(ring') - 1)
            BY <3>2, <5>1
          <5> QED
            BY <5>2, <1>r, Zenon
        <4>2. issued - Len(ring) + j = n - Len(ring') + i
          BY <1>i, <1>l, <1>r
        <4> HIDE DEF j
        <4> QED
          BY <4>1, <4>2, <1>k
      <3> QED
        BY <3>1, <3>2
    <2> QED
      BY <2>1, <2>2, <2>3, <1>r, <1>s DEF RingInv
  <1>2. FilesInv'
    <2>1. disk' \subseteq Numbers' /\ (keep' = None \/ keep' \subseteq Numbers')
      <3>1. 1..issued \subseteq 1..n /\ n \in 1..n /\ Numbers' = 1..n
        BY <1>s, <1>i DEF Numbers
      <3>2. disk \subseteq 1..issued /\ (keep = None \/ keep \subseteq 1..issued)
        BY <1>0 DEF FilesInv, Numbers
      <3> HIDE DEF n
      <3>3. keep' = None \/ keep' \subseteq 1..n
        <4>1. keep' = keep
          BY <1>s
        <4> QED
          BY <4>1, <3>1, <3>2, Zenon
      <3>4. disk' \subseteq 1..n
        BY <3>1, <3>2, <1>s
      <3> QED
        BY <3>1, <3>3, <3>4
    <2>2. ASSUME NEW i \in 1..Len(ring'), ring'[i].snapshot # None
          PROVE  ring'[i].number \in disk' \/ age'[ring'[i].number] > KEEP
      <3>1. CASE i = Len(ring')
        BY <3>1, <2>2, <1>r, <1>v, <1>s
      <3>2. CASE i # Len(ring')
        <4> DEFINE j == Len(ring) + 1 - Len(ring') + i
        <4>1. j \in 1..Len(ring) /\ ring'[i] = ring[j]
          BY <3>2, <1>r, <1>l
        <4> HIDE DEF j
        <4>2. ring[j].number \in disk \/ age[ring[j].number] > KEEP
          BY <4>1, <2>2, <1>0 DEF FilesInv
        <4>3. age'[ring[j].number] = age[ring[j].number]
          BY <4>1, <1>k, <1>a
        <4>4. ring[j].number \in disk => ring[j].number \in disk'
          BY <1>s
        <4> QED
          BY <4>1, <4>2, <4>3, <4>4
      <3> QED
        BY <3>1, <3>2
    <2>3. ASSUME NEW p \in 1..issued', NEW q \in 1..issued', q <= p
          PROVE  age'[p] <= age'[q]
      <3>1. CASE p = n
        BY <3>1, <1>a, <1>s, <2>3
      <3>2. CASE p # n
        <4>1. p \in 1..issued /\ q \in 1..issued
          BY <3>2, <2>3, <1>s, <1>i
        <4> QED
          BY <4>1, <2>3, <1>a, <1>0 DEF FilesInv
      <3> QED
        BY <3>1, <3>2
    <2> QED
      BY <2>1, <2>2, <2>3, <1>0, <1>a, <1>s DEF FilesInv
  <1>3. RecordsInv'
    <2>1. ASSUME NEW i \in 1..Len(records)
          PROVE  records[i].own \in Numbers' /\ OwnOf(records[i])
      BY <1>0, <1>s, <1>i DEF RecordsInv, Numbers
    <2>2. ASSUME NEW i \in 1..Len(records), NEW x \in records[i].judged
          PROVE  Committed(x)'
      <3>1. Committed(x) /\ x.number \in 1..issued
        BY <1>0 DEF RecordsInv, Committed, Numbers
      <3>2. x.number \in Numbers'
        BY <3>1, <1>s, <1>i DEF Numbers
      <3>3. age'[x.number] = age[x.number]
        BY <3>1, <1>a
      <3>4. x.number \in disk => x.number \in disk'
        BY <1>s
      <3> QED
        BY <3>1, <3>2, <3>3, <3>4, <1>s DEF Committed
    <2> QED
      BY <2>1, <2>2, <1>0, <1>s DEF RecordsInv
  <1> QED
    BY <1>1, <1>2, <1>3 DEF IssueInv

\* The length of the ring, and what stands where in it.
LEMMA RingIs ==
  ASSUME RingInv
  PROVE  /\ issued \in Nat /\ KEPT \in Nat /\ IDS \in Nat /\ Len(ring) \in Nat
         /\ Len(ring) = IF issued > KEPT THEN KEPT ELSE issued
         /\ Len(ring) <= issued /\ Len(ring) <= KEPT
         /\ DOMAIN ring = 1..Len(ring)
         /\ \A i \in 1..Len(ring) : /\ ring[i].number = issued - Len(ring) + i
                                    /\ ring[i].id = IdOf(ring[i].number)
  <1>1. issued \in Nat /\ KEPT \in Nat /\ IDS \in Nat
    <2>1. issued \in 0..MaxIssued
      BY DEF RingInv
    <2>2. MaxIssued \in Nat /\ KEPT \in Nat /\ IDS \in Nat
      BY CoinbasersAssumption
    <2> QED
      BY <2>1, <2>2
  <1>2. Len(ring) \in Nat /\ DOMAIN ring = 1..Len(ring)
    <2>1. ring \in Seq(Entry)
      BY DEF RingInv
    <2> QED
      BY <2>1, LenProperties
  <1>3. Len(ring) = IF issued > KEPT THEN KEPT ELSE issued
    BY DEF RingInv
  <1>4. Len(ring) <= issued /\ Len(ring) <= KEPT
    BY <1>1, <1>3
  <1>5. \A i \in 1..Len(ring) : /\ ring[i].number = issued - Len(ring) + i
                               /\ ring[i].id = IdOf(ring[i].number)
    BY DEF RingInv
  <1> QED
    BY <1>1, <1>2, <1>3, <1>4, <1>5

\* What an id names is in the ring, and not older than the job's coinbaser if
\* that has its id.
LEMMA IssuedNewer ==
  ASSUME RingInv, NEW n \in Numbers, NEW e \in IssuedAs(IdOf(n))
  PROVE  \E i \in 1..Len(ring) : /\ ring[i] = e
                                 /\ e.number \in Numbers /\ n <= e.number
                                 /\ IdOf(e.number) = IdOf(n)
  <1> DEFINE has == {i \in DOMAIN ring : ring[i].id = IdOf(n)}
  <1>1. PICK j \in has : e = ring[j] /\ \A k \in has : k <= j
    BY DEF IssuedAs
  <1>2. /\ issued \in Nat /\ Len(ring) \in Nat /\ Len(ring) <= issued
        /\ DOMAIN ring = 1..Len(ring)
        /\ \A i \in 1..Len(ring) : /\ ring[i].number = issued - Len(ring) + i
                                   /\ ring[i].id = IdOf(ring[i].number)
    BY RingIs
  <1>3. j \in 1..Len(ring) /\ IdOf(ring[j].number) = IdOf(n)
    BY <1>1, <1>2
  <1> DEFINE m == issued - Len(ring) + j
  <1>4. ring[j].number = m /\ m \in Numbers /\ n \in Nat /\ n > 0 /\ n <= issued
    BY <1>2, <1>3 DEF Numbers
  <1>5. n <= m
    <2> SUFFICES ASSUME m < n
                 PROVE  FALSE
      BY <1>2, <1>3, <1>4
    <2> DEFINE k == n - issued + Len(ring)
    <2>1. k \in 1..Len(ring) /\ k > j /\ issued - Len(ring) + k = n
      BY <1>2, <1>3, <1>4
    <2> HIDE DEF k
    <2>2. ring[k].id = IdOf(n)
      BY <2>1, <1>2
    <2>3. k \in has
      BY <2>1, <2>2, <1>2
    <2> QED
      BY <2>1, <2>3, <1>1, <1>3
  <1> HIDE DEF m
  <1> QED
    BY <1>1, <1>3, <1>4, <1>5

\* Fewer than IDS requests later, that is the coinbaser itself.
LEMMA IssuedOwn ==
  ASSUME RingInv, NEW n \in Numbers, issued - n < IDS, NEW e \in IssuedAs(IdOf(n))
  PROVE  /\ e.number = n
         /\ issued - n < KEPT
  <1>1. PICK i \in 1..Len(ring) : /\ ring[i] = e /\ e.number \in Numbers /\ n <= e.number
                                  /\ IdOf(e.number) = IdOf(n)
    BY IssuedNewer
  <1>2. /\ issued \in Nat /\ Len(ring) \in Nat /\ Len(ring) <= KEPT /\ KEPT \in Nat
        /\ e.number = issued - Len(ring) + i
    BY <1>1, RingIs
  <1> DEFINE m == e.number
  <1>3. /\ m \in Nat /\ m > 0 /\ m <= issued /\ n \in Nat /\ n > 0
        /\ IDS \in Nat /\ IdOf(m) = IdOf(n) /\ n <= m /\ m = issued - Len(ring) + i
    <2>1. m \in Numbers /\ IdOf(m) = IdOf(n) /\ n <= m /\ m = issued - Len(ring) + i
      BY <1>1, <1>2
    <2> HIDE DEF m
    <2>2. /\ m \in Nat /\ m > 0 /\ m <= issued
          /\ n \in Nat /\ n > 0
      BY <2>1, <1>2 DEF Numbers
    <2> QED
      BY <2>1, <2>2, RingIs
  <1> HIDE DEF m
  <1>4. m - n < IDS
    BY <1>2, <1>3
  <1>5. m = n
    BY <1>3, <1>4, IdNear
  <1>6. issued - n < KEPT
    BY <1>2, <1>3, <1>5
  <1> QED
    BY <1>5, <1>6 DEF m

\* A coinbaser that is among the KEPT newest is found by its id.
LEMMA IssuedFound ==
  ASSUME RingInv, NEW n \in Numbers, issued - n < IDS, issued - n < KEPT
  PROVE  \E e \in IssuedAs(IdOf(n)) : e.number = n
  <1> DEFINE has == {i \in DOMAIN ring : ring[i].id = IdOf(n)}
             j == n - issued + Len(ring)
  <1>1. /\ issued \in Nat /\ Len(ring) \in Nat /\ Len(ring) <= issued /\ KEPT \in Nat
        /\ Len(ring) = IF issued > KEPT THEN KEPT ELSE issued
        /\ DOMAIN ring = 1..Len(ring) /\ IDS \in Nat
        /\ \A i \in 1..Len(ring) : /\ ring[i].number = issued - Len(ring) + i
                                   /\ ring[i].id = IdOf(ring[i].number)
    BY RingIs
  <1>2. n \in Nat /\ n > 0 /\ n <= issued
    BY <1>1 DEF Numbers
  <1>3. j \in 1..Len(ring) /\ issued - Len(ring) + j = n
    BY <1>1, <1>2
  <1>4. ring[j].number = n /\ j \in has
    BY <1>1, <1>3
  <1>5. ASSUME NEW k \in has
        PROVE  k <= j
    <2> DEFINE m == issued - Len(ring) + k
    <2>1. k \in 1..Len(ring) /\ ring[k].id = IdOf(n)
      BY <1>1
    <2>2. IdOf(m) = IdOf(n) /\ m \in Nat /\ m > 0 /\ m <= issued
      <3>1. ring[k].number = m /\ ring[k].id = IdOf(ring[k].number)
        BY <2>1, <1>1
      <3>2. IdOf(m) = IdOf(n)
        BY <3>1, <2>1
      <3> QED
        BY <3>2, <2>1, <1>1
    <2> SUFFICES ASSUME k > j
                 PROVE  FALSE
      BY <1>3, <2>1
    <2>3. n < m /\ m - n < IDS
      BY <1>1, <1>2, <1>3, <2>1, <2>2
    <2> HIDE DEF m
    <2> QED
      BY <2>2, <2>3, <1>2, IdNear
  <1> HIDE DEF j
  <1>6. ring[j] \in IssuedAs(IdOf(n))
    BY <1>4, <1>5 DEF IssuedAs
  <1> QED
    BY <1>4, <1>6

\* The entry a block is recorded with has its file: it is not older than the
\* job's coinbaser, which is younger than any file a pass deletes.
LEMMA FindStep ==
  ASSUME IssueInv, NEW n \in Numbers, FindBlock(n)
  PROVE  IssueInv'
  <1> DEFINE r == [own |-> n, lag |-> issued - n, judged |-> IssuedAs(IdOf(n))]
  <1>0. RingInv /\ FilesInv /\ RecordsInv
    BY DEF IssueInv
  <1>s. /\ age[n] <= JobAge
        /\ records' = Last(Append(records, r), RECORDS)
        /\ UNCHANGED <<issued, next_id, ring, age, disk, keep, pass>>
    BY DEF FindBlock
  <1>n. n \in Nat /\ age[n] \in Nat /\ issued - n \in Nat /\ Numbers = 1..issued
    BY <1>0, CoinbasersAssumption, SMTT(30) DEF RingInv, FilesInv, Numbers
  <1>c. ASSUME NEW e \in IssuedAs(IdOf(n))
        PROVE  Committed(e) /\ e \in Entry
    <2> DEFINE m == e.number
    <2>1. PICK i \in 1..Len(ring) : ring[i] = e /\ m \in Numbers /\ n <= m
      BY <1>0, IssuedNewer
    <2>2. e \in Entry /\ e.id = IdOf(m) /\ e.snapshot \in {m, None}
      BY <2>1, <1>0 DEF RingInv
    <2>3. e.snapshot # None => m \in disk \/ age[m] > KEEP
      BY <2>1, <1>0 DEF FilesInv
    <2>4. age[m] \in Nat /\ age[m] <= age[n]
      <3>1. m \in 1..issued /\ n \in 1..issued
        BY <2>1, <1>n
      <3> HIDE DEF m
      <3> QED
        BY <3>1, <2>1, <1>0 DEF FilesInv
    <2>5. ~(age[m] > KEEP) /\ age[m] <= JobAge + pass
      <3>1. pass \in Nat /\ {KEEP, JobAge, PruneTime} \subseteq Nat /\ JobAge + PruneTime <= KEEP
        BY <1>0, CoinbasersAssumption, MarginAssumption DEF FilesInv
      <3> HIDE DEF m
      <3> QED
        BY <3>1, <2>4, <1>s, <1>n
    <2> QED
      BY <2>1, <2>2, <2>3, <2>5 DEF Committed
  <1>o. issued - n < IDS =>
           {e.number : e \in IssuedAs(IdOf(n))} = IF issued - n < KEPT THEN {n} ELSE {}
    <2> SUFFICES ASSUME issued - n < IDS
                 PROVE  {e.number : e \in IssuedAs(IdOf(n))} =
                           IF issued - n < KEPT THEN {n} ELSE {}
      OBVIOUS
    <2>1. \A e \in IssuedAs(IdOf(n)) : e.number = n /\ issued - n < KEPT
      BY <1>0, IssuedOwn
    <2>2. issued - n < KEPT => \E e \in IssuedAs(IdOf(n)) : e.number = n
      BY <1>0, IssuedFound
    <2> QED
      BY <2>1, <2>2
  <1>r. r \in RecordOf /\ r.own = n /\ r.judged = IssuedAs(IdOf(n)) /\ OwnOf(r)
    BY <1>n, <1>c, <1>o DEF RecordOf, OwnOf
  <1> HIDE DEF r
  <1>l. /\ records' \in Seq(RecordOf)
        /\ Len(records') \in 1..(Len(records) + 1)
        /\ records'[Len(records')] = r
        /\ \A i \in 1..(Len(records') - 1) :
              /\ Len(records) + 1 - Len(records') + i \in 1..Len(records)
              /\ records'[i] = records[Len(records) + 1 - Len(records') + i]
    <2>1. RECORDS \in Nat /\ RECORDS > 0 /\ records \in Seq(RecordOf)
      BY <1>0, CoinbasersAssumption DEF RecordsInv
    <2> DEFINE l == Pushed(records, r, RECORDS)
    <2>2. /\ l \in Seq(RecordOf)
          /\ Len(l) \in 1..(Len(records) + 1)
          /\ l[Len(l)] = r
          /\ \A i \in 1..(Len(l) - 1) :
                /\ Len(records) + 1 - Len(l) + i \in 1..Len(records)
                /\ l[i] = records[Len(records) + 1 - Len(l) + i]
      BY <2>1, <1>r, IssuedPushed, SMTT(30)
    <2>3. records' = l
      BY <1>s DEF Pushed
    <2> HIDE DEF l
    <2> QED
      BY <2>2, <2>3
  <1>1. RingInv' /\ FilesInv'
    BY <1>0, <1>s DEF RingInv, FilesInv, Numbers
  <1>2. RecordsInv'
    <2>1. ASSUME NEW i \in 1..Len(records')
          PROVE  /\ records'[i].own \in Numbers
                 /\ OwnOf(records'[i])
                 /\ \A e \in records'[i].judged : Committed(e)
      <3>1. CASE i = Len(records')
        BY <3>1, <1>l, <1>r, <1>c
      <3>2. CASE i # Len(records')
        <4>1. PICK j \in 1..Len(records) : records'[i] = records[j]
          <5>1. i \in 1..(Len(records') - 1)
            BY <3>2, <1>l
          <5> QED
            BY <5>1, <1>l
        <4> QED
          BY <4>1, <1>0 DEF RecordsInv
      <3> QED
        BY <3>1, <3>2
    <2> QED
      BY <2>1, <1>l, <1>s DEF RecordsInv, Committed, Numbers
  <1> QED
    BY <1>1, <1>2 DEF IssueInv

\* The list of what to keep names every recorded snapshot.
LEMMA KeepStep ==
  ASSUME IssueInv, KeepList
  PROVE  IssueInv'
  <1>0. RingInv /\ FilesInv /\ RecordsInv
    BY DEF IssueInv
  <1>s. /\ keep' = Named /\ pass' = 0
        /\ UNCHANGED <<issued, next_id, ring, age, disk, records>>
    BY DEF KeepList
  <1>d. DOMAIN records = 1..Len(records)
    BY <1>0 DEF RecordsInv
  <1>j. \A i \in 1..Len(records) : \A e \in records[i].judged : Committed(e)
    BY <1>0 DEF RecordsInv
  <1>n. Named \subseteq Numbers
    BY <1>0, <1>d DEF Named, Committed, RecordsInv
  <1>1. RingInv'
    BY <1>0, <1>s DEF RingInv
  <1>2. FilesInv'
    <2>1. keep' \subseteq Numbers
      BY <1>n, <1>s
    <2>2. PruneTime >= 0
      BY CoinbasersAssumption
    <2> QED
      BY <2>1, <2>2, <1>0, <1>s DEF FilesInv, Numbers
  <1>3. RecordsInv'
    <2>1. ASSUME NEW i \in 1..Len(records), NEW e \in records[i].judged
          PROVE  Committed(e)'
      <3>1. Committed(e)
        BY <1>j
      <3>2. e.snapshot # None => e.number \in Named
        BY <3>1, <1>d DEF Named, Committed
      <3> QED
        BY <3>1, <3>2, <1>s DEF Committed, Numbers
    <2> QED
      BY <2>1, <1>0, <1>s DEF RecordsInv, Numbers
  <1> QED
    BY <1>1, <1>2, <1>3 DEF IssueInv

\* A file the pass deletes is past KEEP: no job can name it, and no block found
\* since the pass began did.
LEMMA PruneFileStep ==
  ASSUME IssueInv, NEW n \in Numbers, PruneFile(n)
  PROVE  IssueInv'
  <1>0. RingInv /\ FilesInv /\ RecordsInv
    BY DEF IssueInv
  <1>s. /\ keep # None /\ n \notin keep /\ age[n] > KEEP
        /\ disk' = disk \ {n}
        /\ UNCHANGED <<issued, next_id, ring, age, records, keep, pass>>
    BY DEF PruneFile, Removable
  <1>n. n \in Nat /\ age[n] \in Nat
    BY <1>0, CoinbasersAssumption, SMTT(30) DEF RingInv, FilesInv, Numbers
  <1>y. ~(age[n] <= JobAge + pass)
    <2>1. pass \in Nat /\ pass <= PruneTime
      BY <1>0, <1>s DEF FilesInv
    <2> QED
      BY <2>1, <1>n, <1>s, CoinbasersAssumption, MarginAssumption
  <1>1. RingInv'
    BY <1>0, <1>s DEF RingInv
  <1>2. FilesInv'
    <2>1. ASSUME NEW i \in 1..Len(ring), ring[i].snapshot # None
          PROVE  ring[i].number \in disk' \/ age[ring[i].number] > KEEP
      <3>1. ring[i].number \in disk \/ age[ring[i].number] > KEEP
        BY <2>1, <1>0 DEF FilesInv
      <3> QED
        BY <3>1, <1>s
    <2> QED
      BY <2>1, <1>0, <1>s DEF FilesInv, Numbers
  <1>3. RecordsInv'
    <2>1. ASSUME NEW i \in 1..Len(records), NEW e \in records[i].judged
          PROVE  Committed(e)'
      <3>1. Committed(e)
        BY <1>0 DEF RecordsInv
      <3>2. e.snapshot # None => e.number # n
        BY <3>1, <1>s, <1>y DEF Committed
      <3> QED
        BY <3>1, <3>2, <1>s DEF Committed, Numbers
    <2> QED
      BY <2>1, <1>0, <1>s DEF RecordsInv, Numbers
  <1> QED
    BY <1>1, <1>2, <1>3 DEF IssueInv

\* The end of a pass.
LEMMA PruneDoneStep ==
  ASSUME IssueInv, PruneDone
  PROVE  IssueInv'
  <1>s. keep' = None /\ UNCHANGED <<issued, next_id, ring, age, disk, records, pass>>
    BY DEF PruneDone
  <1>1. RingInv'
    BY <1>s DEF IssueInv, RingInv
  <1>2. FilesInv'
    BY <1>s DEF IssueInv, FilesInv, Numbers
  <1>3. RecordsInv'
    BY <1>s DEF IssueInv, RecordsInv, Numbers, Committed
  <1> QED
    BY <1>1, <1>2, <1>3 DEF IssueInv

\* Time adds to the ages and to the pass alike.
LEMMA FilesAgeStep ==
  ASSUME IssueInv, FilesAge
  PROVE  IssueInv'
  <1>0. RingInv /\ FilesInv /\ RecordsInv
    BY DEF IssueInv
  <1>s. /\ keep # None => pass < PruneTime
        /\ age' = [n \in Numbers |-> IF age[n] <= KEEP THEN age[n] + 1 ELSE age[n]]
        /\ pass' = IF keep = None THEN 0 ELSE pass + 1
        /\ UNCHANGED <<issued, next_id, ring, disk, records, keep>>
    BY DEF FilesAge
  <1>i. issued \in Nat /\ Numbers = 1..issued /\ KEEP \in Nat /\ PruneTime \in Nat /\ JobAge \in Nat
    BY <1>0, CoinbasersAssumption DEF RingInv, Numbers
  <1>t. age \in Seq(Nat) /\ Len(age) = issued /\ pass \in Nat
    BY <1>0 DEF FilesInv
  <1>a. \A n \in 1..issued : /\ age[n] \in Nat /\ age'[n] \in Nat
                             /\ age'[n] <= age[n] + 1
                             /\ age[n] > KEEP => age'[n] > KEEP
    BY <1>s, <1>i, <1>t
  <1>q. age' \in Seq(Nat) /\ Len(age') = issued
    <2>1. age' \in [1..issued -> Nat]
      BY <1>s, <1>i, <1>a
    <2> QED
      BY <2>1, <1>i
  <1>1. RingInv'
    BY <1>0, <1>s DEF RingInv
  <1>2. FilesInv'
    <2>1. pass' \in Nat /\ (keep # None => pass' <= PruneTime)
      BY <1>s, <1>t, <1>i
    <2>3. ASSUME NEW p \in 1..issued, NEW q \in 1..issued, q <= p
          PROVE  age'[p] <= age'[q]
      <3>1. age[p] <= age[q]
        BY <2>3, <1>0 DEF FilesInv
      <3> QED
        BY <3>1, <1>a, <1>s, <1>i
    <2>2. ASSUME NEW i \in 1..Len(ring), ring[i].snapshot # None
          PROVE  ring[i].number \in disk \/ age'[ring[i].number] > KEEP
      <3>1. ring[i].number \in disk \/ age[ring[i].number] > KEEP
        BY <2>2, <1>0 DEF FilesInv
      <3>2. ring[i].number \in 1..issued
        BY <1>0, <1>i DEF RingInv
      <3> QED
        BY <3>1, <3>2, <1>a
    <2> QED
      BY <2>1, <2>2, <2>3, <1>q, <1>0, <1>s DEF FilesInv, Numbers
  <1>3. RecordsInv'
    <2>1. ASSUME NEW i \in 1..Len(records), NEW e \in records[i].judged
          PROVE  Committed(e)'
      <3>1. Committed(e) /\ e.number \in 1..issued
        BY <1>0 DEF RecordsInv, Committed, Numbers
      <3> DEFINE n == e.number
      <3>2. keep # None /\ age[n] <= JobAge + pass => age'[n] <= JobAge + pass'
        <4>1. keep # None => pass' = pass + 1
          BY <1>s
        <4>2. age[n] \in Nat /\ age'[n] \in Nat /\ age'[n] <= age[n] + 1
          BY <3>1, <1>a
        <4> HIDE DEF n
        <4> QED
          BY <4>1, <4>2, <1>t, <1>i
      <3> QED
        BY <3>1, <3>2, <1>s DEF Committed, Numbers
    <2> QED
      BY <2>1, <1>0, <1>s DEF RecordsInv, Numbers
  <1> QED
    BY <1>1, <1>2, <1>3 DEF IssueInv

-----------------------------------------------------------------------------
(* Results *)

\* Every step keeps the invariant.
LEMMA IssueInvStep == IssueInv /\ [IssueNext]_issueVars => IssueInv'
  <1> SUFFICES ASSUME IssueInv, [IssueNext]_issueVars
               PROVE  IssueInv'
    OBVIOUS
  <1>1. CASE IssueNext
    BY <1>1, IssueStep, FindStep, KeepStep, PruneFileStep, PruneDoneStep, FilesAgeStep
       DEF IssueNext, Prune
  <1>2. CASE UNCHANGED issueVars
    BY <1>2 DEF issueVars, IssueInv, RingInv, FilesInv, RecordsInv, Committed, OwnOf, Numbers
  <1> QED
    BY <1>1, <1>2

\* The inductive invariant holds throughout.
LEMMA IssueInvariant == IssueSpec => []IssueInv
  BY IssueInvInit, IssueInvStep, PTL DEF IssueSpec

\* Ids, ring entries, ages, files and records stay well formed.
THEOREM IssueTypeCorrect == IssueSpec => []IssueTypeOK
  <1>1. IssueInv => IssueTypeOK
    <2> SUFFICES ASSUME IssueInv
                 PROVE  IssueTypeOK
      OBVIOUS
    <2>0. RingInv /\ FilesInv /\ RecordsInv
      BY DEF IssueInv
    <2>i. issued \in Nat /\ Numbers = 1..issued /\ issued + 1 > 0 /\ issued + 1 \in Nat
      BY <2>0, CoinbasersAssumption DEF RingInv, Numbers
    <2>1. issued \in 0..MaxIssued /\ next_id \in 1..IDS
      BY <2>0, <2>i, IdNext DEF RingInv
    <2>2. ASSUME NEW n \in Numbers, NEW e \in Entry, e.number = n, e.id = IdOf(n),
                 e.snapshot \in {n, None}
          PROVE  e \in Entries
      <3>1. IdOf(n) \in 1..IDS
        <4>1. n \in Nat /\ n > 0
          BY <2>i
        <4> QED
          BY <4>1, IdNext
      <3> QED
        BY <3>1, <2>2 DEF Entry, Entries
    <2>3. ASSUME NEW i \in DOMAIN ring
          PROVE  ring[i] \in Entries
      <3>1. i \in 1..Len(ring) /\ ring[i] \in Entry
        BY <2>0 DEF RingInv
      <3>2. ring[i].number \in Numbers
        BY <3>1, <2>0, <2>i DEF RingInv
      <3> QED
        BY <3>1, <3>2, <2>0, <2>2 DEF RingInv
    <2>4. age \in [Numbers -> Nat]
      BY <2>0, <2>i DEF FilesInv
    <2>5. ASSUME NEW i \in DOMAIN records
          PROVE  /\ records[i].own \in Numbers /\ records[i].lag \in Nat
                 /\ records[i].judged \subseteq Entries
      <3>1. i \in 1..Len(records) /\ records[i] \in RecordOf
        BY <2>0 DEF RecordsInv
      <3>2. /\ records[i].own \in Numbers /\ records[i].lag \in Nat
            /\ records[i].judged \subseteq Entry
        BY <3>1, <2>0 DEF RecordsInv, RecordOf
      <3>3. \A e \in records[i].judged : Committed(e)
        BY <3>1, <2>0 DEF RecordsInv
      <3> QED
        BY <3>2, <3>3, <2>2 DEF Committed
    <2>6. disk \subseteq Numbers /\ (keep = None \/ keep \subseteq Numbers)
      BY <2>0 DEF FilesInv
    <2> QED
      BY <2>1, <2>3, <2>4, <2>5, <2>6 DEF IssueTypeOK
  <1> QED
    BY <1>1, IssueInvariant, PTL

\* `issued(id)` looks an id up among the newest coinbasers: fewer than IDS
\* requests after a job's own it finds just that one, and none once it has left
\* the ring.
THEOREM JudgedByOwnList == IssueSpec => []OwnList
  <1>1. IssueInv => OwnList
    <2> SUFFICES ASSUME IssueInv
                 PROVE  \A i \in DOMAIN records : OwnOf(records[i])
      BY DEF OwnList, OwnOf
    <2>1. DOMAIN records = 1..Len(records)
      BY DEF IssueInv, RecordsInv
    <2> QED
      BY <2>1 DEF IssueInv, RecordsInv
  <1> QED
    BY <1>1, IssueInvariant, PTL

\* prune deletes no snapshot a kept block record names, though it works from a
\* list made when its pass began.
THEOREM NamedKept == IssueSpec => []SnapshotsKept
  <1>1. IssueInv => SnapshotsKept
    <2> SUFFICES ASSUME IssueInv
                 PROVE  Named \subseteq disk
      BY DEF SnapshotsKept
    <2>1. DOMAIN records = 1..Len(records)
      BY DEF IssueInv, RecordsInv
    <2>2. \A i \in 1..Len(records) : \A e \in records[i].judged :
             e.snapshot # None => e.snapshot \in disk
      BY DEF IssueInv, RecordsInv, Committed
    <2> QED
      BY <2>1, <2>2 DEF Named
  <1> QED
    BY <1>1, IssueInvariant, PTL
=============================================================================
