----------------------------- MODULE Candidates -----------------------------
(***************************************************************************)
(* Block candidates on their way to the node.  A solved share is recorded, *)
(* kept in `pending_blocks` under its one-byte job id, and the gateway is  *)
(* asked for the job's transactions; the answer names the job id and       *)
(* nothing else.  Meanwhile the gateway goes on: it moves a job id to a    *)
(* new template, finds more blocks, answers late, with an error or never,  *)
(* and the session may end.  A candidate that waits PENDING_BLOCK_TTL is   *)
(* dropped by the session's tick.  The task that ticks also writes, and a  *)
(* write waits for as long as the gateway does not read.                   *)
(*                                                                         *)
(* Gateway and Prime exchange messages over two FIFO channels (Frames).    *)
(***************************************************************************)
EXTENDS Integers, Sequences

CONSTANTS
    Ids,         \* job ids
    Templates,   \* templates, each a transaction set of its own
    Blocks,      \* the blocks found, by hash
    TTL,         \* PENDING_BLOCK_TTL in ticks
    EarlyReuse,  \* the gateway may move a job id with candidates unanswered
    MaxSessions, \* bound: sessions of this gateway
    MaxUnasked,  \* bound: replies in a session that no request asked for
    None         \* no template, no transactions

ASSUME CandidatesAssumption ==
    /\ TTL \in Nat \ {0}
    /\ EarlyReuse \in BOOLEAN
    /\ MaxSessions \in Nat \ {0} /\ MaxUnasked \in Nat
    /\ None \notin Templates

VARIABLES
    jobs,       \* gateway: the template each job id stands for
    minedOn,    \* the template each block was found on, None before that
    toPrime,    \* frames on their way to Prime
    toGateway,  \* ... and to the gateway
    pending,    \* pending_blocks: how often a job id's list holds a candidate
    waited,     \* how long each candidate has been there
    submit,     \* BlockRecord::submit, with how the candidate got there
    txns,       \* the transaction set the block was assembled from
    sessions,   \* sessions so far
    unasked,    \* replies in this session that nothing asked for
    busy        \* is the session's task in a write?

vars == <<jobs, minedOn, toPrime, toGateway, pending, waited, submit, txns,
          sessions, unasked, busy>>

\* What became of a candidate. The record's `submit` stays "pending" when it
\* is swept or lost with its session.
Fates == {"none", "pending", "swept", "lost", "no-transactions", "submitted"}

\* Replies: 0x92 or 0x91 with the transactions, an error status, 0x90.
Kinds == {"transactions", "error", "short-ids"}

ToPrime == [type : {"candidate"}, id : Ids, block : Blocks]
             \cup [type : Kinds, id : Ids, txns : Templates \cup {None}]

\* A job id nothing waits under. A list's order does not matter: it is
\* resolved or filtered as a whole.
Nothing == [b \in Blocks |-> 0]

TypeOK ==
    /\ jobs \in [Ids -> Templates \cup {None}]
    /\ minedOn \in [Blocks -> Templates \cup {None}]
    /\ toPrime \in Seq(ToPrime)
    /\ toGateway \in Seq(Ids)
    /\ pending \in [Ids -> [Blocks -> Nat]]
    /\ waited \in [Blocks -> 0..TTL]
    /\ submit \in [Blocks -> Fates]
    /\ txns \in [Blocks -> Templates \cup {None}]
    /\ sessions \in 1..MaxSessions
    /\ unasked \in 0..MaxUnasked
    /\ busy \in {"no", "writing"}

Init ==
    /\ jobs = [i \in Ids |-> None]
    /\ minedOn = [b \in Blocks |-> None]
    /\ toPrime = << >>
    /\ toGateway = << >>
    /\ pending = [i \in Ids |-> Nothing]
    /\ waited = [b \in Blocks |-> 0]
    /\ submit = [b \in Blocks |-> "none"]
    /\ txns = [b \in Blocks |-> None]
    /\ sessions = 1
    /\ unasked = 0
    /\ busy = "no"

-----------------------------------------------------------------------------
(* The gateway *)

\* Requests the gateway has not answered, or not seen yet, for a job id.
Open(i) ==
    \/ \E k \in DOMAIN toGateway : toGateway[k] = i
    \/ \E k \in DOMAIN toPrime : toPrime[k].type = "candidate" /\ toPrime[k].id = i

\* A job id moves to a template that was on no id before.
NewJob(i, t) ==
    /\ \A j \in Ids : jobs[j] # t
    /\ \A b \in Blocks : minedOn[b] # t
    /\ EarlyReuse \/ ~Open(i)
    /\ jobs' = [jobs EXCEPT ![i] = t]
    /\ UNCHANGED <<minedOn, toPrime, toGateway, pending, waited, submit, txns,
                   sessions, unasked, busy>>

Solve(i, b) ==
    /\ jobs[i] # None
    /\ minedOn[b] = None
    /\ minedOn' = [minedOn EXCEPT ![b] = jobs[i]]
    /\ toPrime' = Append(toPrime, [type |-> "candidate", id |-> i, block |-> b])
    /\ UNCHANGED <<jobs, toGateway, pending, waited, submit, txns, sessions,
                   unasked, busy>>

Reply(kind, i) ==
    [type |-> kind, id |-> i,
     txns |-> IF kind = "transactions" THEN jobs[i] ELSE None]

\* It answers the oldest request with what the job id stands for now, or
\* cannot ...
Answer(kind) ==
    /\ toGateway # << >>
    /\ kind # "short-ids"
    /\ kind = "transactions" => jobs[Head(toGateway)] # None
    /\ toPrime' = Append(toPrime, Reply(kind, Head(toGateway)))
    /\ toGateway' = Tail(toGateway)
    /\ UNCHANGED <<jobs, minedOn, pending, waited, submit, txns, sessions,
                   unasked, busy>>

\* ... or sends what no request asked for: a second answer, or short ids.
AnswerUnasked(kind, i) ==
    /\ unasked < MaxUnasked
    /\ kind = "transactions" => jobs[i] # None
    /\ toPrime' = Append(toPrime, Reply(kind, i))
    /\ unasked' = unasked + 1
    /\ UNCHANGED <<jobs, minedOn, toGateway, pending, waited, submit, txns,
                   sessions, busy>>

-----------------------------------------------------------------------------
(* Prime *)

HeldUnder(i) == {b \in Blocks : pending[i][b] > 0}

\* on_block_candidate, from the record on (what it says is Payout's): the
\* candidate waits under its job id and the transactions are asked for.
OnBlockCandidate(m) ==
    /\ submit' = [submit EXCEPT ![m.block] = "pending"]
    /\ pending' = [pending EXCEPT ![m.id][m.block] = @ + 1]
    /\ waited' = [waited EXCEPT ![m.block] = 0]
    /\ toGateway' = Append(toGateway, m.id)
    /\ busy' = "writing"
    /\ UNCHANGED txns

\* Every candidate of the job leaves the table with this outcome.
Resolve(i, outcome, from) ==
    /\ pending' = [pending EXCEPT ![i] = Nothing]
    /\ submit' = [b \in Blocks |-> IF b \in HeldUnder(i) THEN outcome ELSE submit[b]]
    /\ txns' = [b \in Blocks |-> IF b \in HeldUnder(i) THEN from ELSE txns[b]]

\* Mutant of OnValidation: any answer is taken for the oldest job waiting.
OnValidationAnyJob(m) ==
    LET waiting == {i \in Ids : HeldUnder(i) # {}}
        i == IF waiting = {} THEN m.id ELSE CHOOSE j \in waiting : TRUE
    IN  /\ \/ /\ m.type = "transactions"
              /\ Resolve(i, "submitted", m.txns)
           \/ /\ m.type = "error"
              /\ Resolve(i, "no-transactions", None)
           \/ /\ m.type = "short-ids"
              /\ UNCHANGED <<pending, submit, txns>>
        /\ UNCHANGED <<toGateway, waited, busy>>

\* on_validation and submit_candidate. A job nothing waits for is passed
\* over (nothing is held, so nothing is resolved); candidates are put back
\* on a 0x90 reply.
OnValidation(m) ==
    /\ \/ /\ m.type = "transactions"
          /\ Resolve(m.id, "submitted", m.txns)
       \/ /\ m.type = "error"
          /\ Resolve(m.id, "no-transactions", None)
       \/ /\ m.type = "short-ids"
          /\ UNCHANGED <<pending, submit, txns>>
    /\ UNCHANGED <<toGateway, waited, busy>>

\* handle_frame for the two messages this is about.
HandleFrame ==
    /\ busy = "no"
    /\ toPrime # << >>
    /\ LET m == Head(toPrime) IN
         IF m.type = "candidate" THEN OnBlockCandidate(m) ELSE OnValidation(m)
    /\ toPrime' = Tail(toPrime)
    /\ UNCHANGED <<jobs, minedOn, sessions, unasked>>

\* Mutant of Sweep: one candidate's age decides for all of its job.
SweepWholeJobs ==
    LET due == {i \in Ids : \E b \in HeldUnder(i) : waited[b] >= TTL} IN
    /\ pending' = [i \in Ids |-> IF i \in due THEN Nothing ELSE pending[i]]
    /\ submit' = [b \in Blocks |-> IF \E i \in due : b \in HeldUnder(i)
                                   THEN "swept" ELSE submit[b]]

\* What the sweep leaves of a job id's list.
Young(i) == [b \in Blocks |-> IF waited[b] < TTL THEN pending[i][b] ELSE 0]

\* Mutant of Sweep: a job still being answered is not swept.
SweepAnswered ==
    LET kept == {i \in Ids : Open(i)}
    IN  /\ pending' = [i \in Ids |-> IF i \in kept THEN pending[i]
                                       ELSE Young(i)]
        /\ submit' = [b \in Blocks |->
                         IF submit[b] = "pending" /\ waited[b] >= TTL
                            /\ \A i \in kept : b \notin HeldUnder(i)
                         THEN "swept" ELSE submit[b]]

\* The tick's retain: what has waited for the TTL is dropped.
Sweep ==
    /\ pending' = [i \in Ids |-> Young(i)]
    /\ submit' = [b \in Blocks |-> IF submit[b] = "pending" /\ waited[b] >= TTL
                                   THEN "swept" ELSE submit[b]]

\* The tick after its keepalive, when there is something to sweep.
Tick ==
    /\ busy = "no"
    /\ \E i \in Ids : \E b \in HeldUnder(i) : waited[b] >= TTL
    /\ Sweep
    /\ UNCHANGED <<jobs, minedOn, toPrime, toGateway, waited, txns, sessions,
                   unasked, busy>>

\* Other handlers' answers, notifications and the tick's keepalive.
LoopWrites ==
    /\ busy = "no"
    /\ busy' = "writing"
    /\ UNCHANGED <<jobs, minedOn, toPrime, toGateway, pending, waited, submit,
                   txns, sessions, unasked>>

\* The gateway has taken what was written.
Written ==
    /\ busy = "writing"
    /\ busy' = "no"
    /\ UNCHANGED <<jobs, minedOn, toPrime, toGateway, pending, waited, submit,
                   txns, sessions, unasked>>

\* The session ends and the gateway connects again: the table, and what was
\* under way in either direction, is gone.
Reconnect ==
    /\ sessions < MaxSessions
    /\ sessions' = sessions + 1
    /\ toPrime' = << >>
    /\ toGateway' = << >>
    /\ pending' = [i \in Ids |-> Nothing]
    /\ submit' = [b \in Blocks |-> IF submit[b] = "pending" THEN "lost" ELSE submit[b]]
    /\ unasked' = 0
    /\ busy' = "no"
    /\ UNCHANGED <<jobs, minedOn, waited, txns>>

\* Time passes, up to what the sweep waits for.
TimePasses ==
    /\ \E b \in Blocks : submit[b] = "pending" /\ waited[b] < TTL
    /\ waited' = [b \in Blocks |-> IF submit[b] = "pending" /\ waited[b] < TTL
                                   THEN waited[b] + 1 ELSE waited[b]]
    /\ UNCHANGED <<jobs, minedOn, toPrime, toGateway, pending, submit, txns,
                   sessions, unasked, busy>>

Gateway ==
    \/ \E i \in Ids, t \in Templates : NewJob(i, t)
    \/ \E i \in Ids, b \in Blocks : Solve(i, b)
    \/ \E kind \in Kinds : Answer(kind)
    \/ \E kind \in Kinds, i \in Ids : AnswerUnasked(kind, i)

Next ==
    \/ Gateway
    \/ HandleFrame \/ Tick \/ LoopWrites \/ Written
    \/ Reconnect \/ TimePasses

\* Time passes and the session's task runs: select! takes its ready branches
\* in random order, so other traffic does not keep the tick waiting for ever.
\* The gateway promises nothing, not even to take what is written to it.
Spec ==
    /\ Init /\ [][Next]_vars
    /\ WF_vars(HandleFrame) /\ SF_vars(Tick) /\ WF_vars(TimePasses)

-----------------------------------------------------------------------------
(* Properties *)

\* A block is assembled from the transactions of the template it was found
\* on, and from no other's: whichever request an answer was meant for, late,
\* repeated or unasked, and whatever the job id stood for before.
\* ("one transaction set per job; every candidate solved on this job
\* assembles from it", session.rs.) It rests on the gateway keeping a job id
\* on its template until the candidates it sent on it are answered.
OwnTransactions == \A b \in Blocks : txns[b] \in {None, minedOn[b]}

\* One place in the whole table, under this job id.
HeldOnce(b, i) ==
    /\ pending[i][b] = 1
    /\ \A j \in Ids \ {i} : pending[j][b] = 0

\* A candidate waits in the table, once, exactly while its record says pending
\* and neither the sweep nor the end of the session took it: no reply drops
\* one that can still be submitted, and none is left behind resolved. The
\* sweep takes one only when it has waited for the whole TTL itself.
PendingIsHeld ==
    \A b \in Blocks :
        /\ submit[b] = "pending" => \E i \in Ids : HeldOnce(b, i)
        /\ submit[b] # "pending" => \A i \in Ids : pending[i][b] = 0
        /\ submit[b] = "swept" => waited[b] = TTL

\* Unless a write waits for ever, no candidate does: it is submitted, given up
\* on, swept or lost with its session, whether or not the gateway answers. A
\* gateway that keeps the connection and stops reading holds the task in its
\* write, and with it the sweep.
Resolved ==
    []<>(busy = "no") =>
        \A b \in Blocks : (submit[b] = "pending") ~> (submit[b] # "pending")
=============================================================================
