---------------------------- MODULE SessionLoop ----------------------------
(***************************************************************************)
(* One session's task: the hello under its time limit, then the select     *)
(* loop of serve(), which waits for bytes, for a block notification or for *)
(* its tick, and handles one of them to the end (its writes included)      *)
(* before it waits again.  Clocks are ages: how long ago last_recv,        *)
(* last_send, coinbaser_refill_at and each recent reject were, in units of *)
(* the loop's tick.                                                        *)
(*                                                                         *)
(* A write completes while the peer reads.  A peer that has stopped        *)
(* reading fills the socket, and write_all then waits without a limit: the *)
(* task does nothing else, its tick included.                              *)
(***************************************************************************)
EXTENDS Integers, Sequences, FiniteSetsExt

CONSTANTS
    HANDSHAKE_LIMIT, KEEPALIVE, IDLE_LIMIT,  \* session.rs, in ticks
    COINBASER_BURST, COINBASER_REFILL,
    REJECT_FLOOD, REJECT_WINDOW,
    Batch,  \* bound: frames one read completes
    Span    \* length of time splits are counted over

ASSUME SessionAssumption ==
    /\ {HANDSHAKE_LIMIT, KEEPALIVE, IDLE_LIMIT, COINBASER_BURST,
        COINBASER_REFILL, REJECT_FLOOD, REJECT_WINDOW, Batch, Span} \subseteq Nat
    /\ COINBASER_REFILL > 0
    /\ KEEPALIVE < IDLE_LIMIT

VARIABLES
    stage,      \* where run() and serve() stand
    then,       \* what the handler does once its write is through
    peer,       \* does the gateway read what it is sent?
    due,        \* has the tick interval passed?
    frames,     \* complete frames in InBuf, not yet handled
    last_recv, last_send, refill_at,   \* ages
    tokens,     \* coinbaser_tokens
    rejects,    \* recent_rejects, oldest first, as ages
    silent,     \* history: age of the last frame (or of the connection, the session)
    noted,      \* history: ages of the rejects within REJECT_WINDOW
    splits      \* history: ages of the splits computed within Span

vars == <<stage, then, peer, due, frames, last_recv, last_send, refill_at, tokens,
          rejects, silent, noted, splits>>

clocks == <<last_recv, last_send, refill_at, rejects, silent, noted, splits>>

Reasons == {"timeout", "bad", "idle", "flood", "gone"}
Open == {"hello", "greeting", "configuring", "serving", "cutting", "writing"}

TypeOK ==
    /\ stage \in Open \cup Reasons
    /\ then \in {"nothing", "note_reject"}
    /\ peer \in {"reads", "stalled"}
    /\ due \in {"yes", "no"}
    /\ frames \in 0..Batch
    /\ last_recv \in Nat /\ last_send \in Nat /\ refill_at \in Nat
    /\ tokens \in 0..COINBASER_BURST
    /\ rejects \in Seq(Nat) /\ noted \in Seq(Nat) /\ splits \in Seq(Nat)
    /\ silent \in Nat

\* The task has the accepted socket and waits for the hello.
Init ==
    /\ stage = "hello"
    /\ then = "nothing"
    /\ peer = "reads"
    /\ due = "no"
    /\ frames = 0
    /\ last_recv = 0 /\ last_send = 0 /\ refill_at = 0
    /\ tokens = COINBASER_BURST
    /\ rejects = << >> /\ noted = << >> /\ splits = << >>
    /\ silent = 0

-----------------------------------------------------------------------------
(* The throttles *)

\* What is left when the front is popped while it is older than the span.
Within(ages, span) ==
    LET young == {i \in DOMAIN ages : ages[i] <= span}
    IN  IF young = {} THEN << >> ELSE SubSeq(ages, Min(young), Len(ages))

\* recent_rejects after note_reject: pushed at the back, the old popped.
Recent(ages) == Within(Append(ages, 0), REJECT_WINDOW)

\* A frame is done with: the next one in InBuf, or back to select!.
After == IF frames' > 0 THEN "cutting" ELSE "serving"

\* note_reject: at the flood limit the session ends.
NoteReject ==
    /\ rejects' = Recent(rejects)
    /\ noted' = Append(noted, 0)
    /\ stage' = IF Len(rejects') > REJECT_FLOOD THEN "flood" ELSE After

\* The bucket after its refill: whole periods elapsed, up to the burst.
Refilled(t, age) ==
    LET n == age \div COINBASER_REFILL
    IN  IF t + n < COINBASER_BURST THEN t + n ELSE COINBASER_BURST

-----------------------------------------------------------------------------
(* Hello *)

\* A sealed and signed hello that opens; the reply is written next, outside
\* the time limit.
HelloArrives ==
    /\ stage = "hello"
    /\ stage' = "greeting"
    /\ silent' = 0
    /\ UNCHANGED <<then, peer, due, frames, last_recv, last_send, refill_at,
                   tokens, rejects, noted, splits>>

\* Any other first frame, or one that does not open.
HelloBad ==
    /\ stage = "hello"
    /\ stage' = "bad"
    /\ UNCHANGED <<then, peer, due, frames, clocks, tokens>>

HelloTimeout ==
    /\ stage = "hello"
    /\ last_recv >= HANDSHAKE_LIMIT
    /\ stage' = "timeout"
    /\ UNCHANGED <<then, peer, due, frames, clocks, tokens>>

\* The reply is out: the session is made, its clocks start.
Greeted ==
    /\ stage = "greeting"
    /\ peer = "reads"
    /\ stage' = "configuring"
    /\ last_recv' = 0 /\ last_send' = 0 /\ refill_at' = 0
    /\ tokens' = COINBASER_BURST
    /\ rejects' = << >>
    /\ silent' = 0
    /\ UNCHANGED <<then, peer, due, frames, noted, splits>>

\* The configuration is out; the interval's first tick is immediate.
Configured ==
    /\ stage = "configuring"
    /\ peer = "reads"
    /\ stage' = "serving"
    /\ last_send' = 0
    /\ due' = "yes"
    /\ UNCHANGED <<then, peer, frames, last_recv, refill_at, tokens, rejects,
                   silent, noted, splits>>

-----------------------------------------------------------------------------
(* serve(): bytes *)

\* Bytes arrive and complete n frames (none, if they are part of one).
Read(n) ==
    /\ stage = "serving"
    /\ last_recv' = 0 /\ silent' = 0
    /\ frames' = n
    /\ stage' = After
    /\ UNCHANGED <<then, peer, due, last_send, refill_at, tokens, rejects,
                   noted, splits>>

\* The next frame of the read is cut from InBuf.
Cut == stage = "cutting" /\ frames' = frames - 1

Write(next) == stage' = "writing" /\ then' = next

\* A command Prime ignores, or a validation reply.
FrameIgnored ==
    /\ Cut
    /\ stage' = After
    /\ UNCHANGED <<then, peer, due, clocks, tokens>>

\* A frame that breaks the protocol ends the session.
FrameFatal ==
    /\ Cut
    /\ stage' = "bad"
    /\ UNCHANGED <<then, peer, due, clocks, tokens>>

\* A mining message that does not parse is counted, not answered.
FrameMalformed ==
    /\ Cut
    /\ NoteReject
    /\ UNCHANGED <<then, peer, due, last_recv, last_send, refill_at, tokens,
                   silent, splits>>

\* A share: its receipt is written; a rejected one is counted after that.
ShareFrame ==
    /\ Cut
    /\ \E next \in {"nothing", "note_reject"} : Write(next)
    /\ UNCHANGED <<peer, due, clocks, tokens>>

\* Mutant of CoinbaserRequest: the bucket is refilled and refill_at is kept.
CoinbaserRequestKeepsClock ==
    /\ Cut
    /\ LET t == Refilled(tokens, refill_at) IN
       IF t = 0
       THEN /\ NoteReject
            /\ tokens' = t
            /\ UNCHANGED <<then, splits>>
       ELSE /\ tokens' = t - 1
            /\ splits' = Append(splits, 0)
            /\ Write("nothing")
            /\ UNCHANGED <<rejects, noted>>
    /\ UNCHANGED <<peer, due, last_recv, last_send, refill_at, silent>>

\* on_coinbaser_request: refill, then answer with a split or count a reject.
CoinbaserRequest ==
    /\ Cut
    /\ refill_at' = IF refill_at >= COINBASER_REFILL THEN 0 ELSE refill_at
    /\ LET t == Refilled(tokens, refill_at) IN
       IF t = 0
       THEN /\ NoteReject
            /\ tokens' = t
            /\ UNCHANGED <<then, splits>>
       ELSE /\ tokens' = t - 1
            /\ splits' = Append(splits, 0)
            /\ Write("nothing")
            /\ UNCHANGED <<rejects, noted>>
    /\ UNCHANGED <<peer, due, last_recv, last_send, silent>>

-----------------------------------------------------------------------------
(* serve(): notifications, the tick, writes *)

\* A new block, or several while the task was busy (Lagged): one notice.
Notify ==
    /\ stage = "serving"
    /\ Write("nothing")
    /\ UNCHANGED <<peer, due, frames, clocks, tokens>>

\* Mutant of Tick: sending a keepalive counts as hearing from the peer.
TickHears ==
    /\ stage = "serving"
    /\ due = "yes"
    /\ due' = "no"
    /\ IF last_recv > IDLE_LIMIT
       THEN stage' = "idle" /\ UNCHANGED <<then, last_recv>>
       ELSE IF last_send > KEEPALIVE
            THEN Write("nothing") /\ last_recv' = 0
            ELSE UNCHANGED <<stage, then, last_recv>>
    /\ UNCHANGED <<peer, frames, last_send, refill_at, rejects, silent, noted,
                   splits, tokens>>

\* Mutant of Tick: the keepalive waits for the idle limit.
TickLate ==
    /\ stage = "serving"
    /\ due = "yes"
    /\ due' = "no"
    /\ IF last_recv > IDLE_LIMIT
       THEN stage' = "idle" /\ UNCHANGED then
       ELSE IF last_send > IDLE_LIMIT
            THEN Write("nothing")
            ELSE UNCHANGED <<stage, then>>
    /\ UNCHANGED <<peer, frames, clocks, tokens>>

\* The tick: idle limit first, then the keepalive. (Its sweep of the pending
\* blocks is in Candidates.)
Tick ==
    /\ stage = "serving"
    /\ due = "yes"
    /\ due' = "no"
    /\ IF last_recv > IDLE_LIMIT
       THEN stage' = "idle" /\ UNCHANGED then
       ELSE IF last_send > KEEPALIVE
            THEN Write("nothing")
            ELSE UNCHANGED <<stage, then>>
    /\ UNCHANGED <<peer, frames, clocks, tokens>>

\* write_all returns; last_send is set and the handler ends.
WriteDone ==
    /\ stage = "writing"
    /\ peer = "reads"
    /\ last_send' = 0
    /\ then' = "nothing"
    /\ UNCHANGED frames
    /\ IF then = "note_reject"
       THEN NoteReject
       ELSE stage' = After /\ UNCHANGED <<rejects, noted>>
    /\ UNCHANGED <<peer, due, last_recv, refill_at, tokens, silent, splits>>

\* The peer closes or resets: the read or the write in hand fails.
Gone ==
    /\ stage \in Open
    /\ stage' = "gone"
    /\ UNCHANGED <<then, peer, due, frames, clocks, tokens>>

-----------------------------------------------------------------------------
(* Surroundings *)

Stall ==
    /\ stage \in Open
    /\ peer' = IF peer = "reads" THEN "stalled" ELSE "reads"
    /\ UNCHANGED <<stage, then, due, frames, clocks, tokens>>

Older(age, limit) == IF age <= limit THEN age + 1 ELSE age

Aged(ages, span) ==
    Within([i \in DOMAIN ages |-> Older(ages[i], span)], span)

\* One tick's length passes. A task that could run has run before: timers
\* that are up are not left behind. Ages stop past the last limit they are
\* compared with.
TimePasses ==
    /\ stage \in Open
    /\ stage # "cutting"
    /\ ~(stage = "serving" /\ due = "yes")
    /\ ~(stage = "hello" /\ last_recv >= HANDSHAKE_LIMIT)
    /\ ~(stage \in {"greeting", "configuring", "writing"} /\ peer = "reads")
    /\ due' = IF stage \in {"serving", "writing"} THEN "yes" ELSE due
    /\ last_recv' = Older(last_recv, IDLE_LIMIT)
    /\ last_send' = Older(last_send, KEEPALIVE)
    /\ refill_at' = Older(refill_at, COINBASER_BURST * COINBASER_REFILL)
    /\ rejects' = [i \in DOMAIN rejects |-> Older(rejects[i], REJECT_WINDOW)]
    /\ silent' = Older(silent, IDLE_LIMIT)
    /\ noted' = Aged(noted, REJECT_WINDOW)
    /\ splits' = Aged(splits, Span)
    /\ UNCHANGED <<stage, then, peer, frames, tokens>>

HandleFrame ==
    \/ FrameIgnored \/ FrameFatal \/ FrameMalformed
    \/ ShareFrame \/ CoinbaserRequest

Task ==
    \/ HelloTimeout \/ Greeted \/ Configured
    \/ HandleFrame \/ Tick \/ WriteDone

Next ==
    \/ Task
    \/ HelloArrives \/ HelloBad
    \/ \E n \in 0..Batch : Read(n)
    \/ Notify \/ Gone \/ Stall \/ TimePasses

\* A task that can run runs; select! takes its ready branches in random order,
\* so notifications do not keep the tick waiting for ever; and they do not
\* stop the clock. The peer owes nothing.
Spec ==
    /\ Init /\ [][Next]_vars
    /\ WF_vars(Task) /\ SF_vars(Tick) /\ SF_vars(TimePasses)

-----------------------------------------------------------------------------
(* Properties *)

\* Once a tick has been handled, the peer was heard within the idle limit,
\* and something was sent within the keepalive time (which "resets the
\* gateway's nothing-from-server watchdog": session.rs); a hello that does not
\* come is not waited for past its limit.
WatchdogsHold ==
    /\ stage = "hello" => silent <= HANDSHAKE_LIMIT
    /\ stage = "serving" /\ due = "no" =>
          silent <= IDLE_LIMIT /\ last_send <= KEEPALIVE

\* What one open session can make the pool do is bounded whatever it sends:
\* rejects in any window, and splits (each under the ledger lock) in any span
\* of time: the burst and a refill for each period begun. And only a flood is
\* dropped as one, over however long a session.
CostBounded ==
    /\ stage \in Open =>
          /\ Len(noted) <= REJECT_FLOOD
          /\ Len(splits) <= COINBASER_BURST + (Span + COINBASER_REFILL - 1) \div COINBASER_REFILL
    /\ stage = "flood" => Len(noted) > REJECT_FLOOD

\* A gateway that reads but falls silent, or never speaks at all, is dropped
\* in the end and its slot given back. One that stops reading is not: the
\* write in hand has no limit (session.rs:271).
SilentEnds ==
    <>[](peer = "reads" /\ silent > 0) => <>(stage \in Reasons)
=============================================================================
