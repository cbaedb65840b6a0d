------------------------------- MODULE Fifo -------------------------------
(***************************************************************************)
(* What a session's inbound channel promises: the frames a gateway sends   *)
(* are handled once each and in order, until the session closes, except    *)
(* while the session waits for the gateway to read.                        *)
(***************************************************************************)
EXTENDS Sequences

CONSTANT Msgs

VARIABLES
    queue,    \* sent and not yet handled
    handled,  \* every frame handled so far
    open      \* "yes", "waits" for the gateway to read, "no" once closed

fifo_vars == <<queue, handled, open>>

FifoInit == queue = << >> /\ handled = << >> /\ open = "yes"

Enqueue(m) ==
    /\ queue' = Append(queue, m)
    /\ UNCHANGED <<handled, open>>

Handle ==
    /\ open = "yes"
    /\ queue # << >>
    /\ handled' = Append(handled, Head(queue))
    /\ queue' = Tail(queue)
    /\ open' \in {"yes", "waits"}

Wait ==
    /\ open = "yes"
    /\ open' = "waits"
    /\ UNCHANGED <<queue, handled>>

Resume ==
    /\ open = "waits"
    /\ open' = "yes"
    /\ UNCHANGED <<queue, handled>>

Close ==
    /\ open' = "no"
    /\ UNCHANGED <<queue, handled>>

FifoNext == (\E m \in Msgs : Enqueue(m)) \/ Handle \/ Wait \/ Resume \/ Close

FifoSafe == FifoInit /\ [][FifoNext]_fifo_vars

\* What was sent is handled in the end, unless the session closes or waits for
\* ever; waits that end do not put it off for ever.
FifoSpec == FifoSafe /\ SF_fifo_vars(Handle)
=============================================================================
