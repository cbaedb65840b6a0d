----------------------------- MODULE BlockCarry -----------------------------
(***************************************************************************)
(* Found blocks and the carry ledger.  A block's record starts when a      *)
(* session finds it, is updated by the task that submits it to the node    *)
(* and by the poller that confirms it, and once it settles its unpaid sats *)
(* are moved into the carry ledger and the carry its coinbase paid is      *)
(* deducted.  Records live in memory (Shared::blocks) and in blocks.jsonl, *)
(* where the latest line of a hash wins; the carry ledger in memory and in *)
(* carry.json.                                                             *)
(*                                                                         *)
(* Shared::update_block changes and copies a record under the blocks lock  *)
(* and appends the copy to the log after releasing it: two steps, between  *)
(* which another task may change the record and append.                    *)
(*                                                                         *)
(* The ledger is kept per identity, and identities only share the room in  *)
(* a coinbase: the model follows one identity's balance.  Left out: the    *)
(* poller's limits (the 20 newest, 2000 or 100 blocks deep), a record list *)
(* beyond 10 000, and failing writes.                                      *)
(***************************************************************************)
EXTENDS Integers, FiniteSets, FiniteSetsExt

CONSTANTS
    Sessions,
    Blocks,       \* hashes of the block candidates that will be found
    Backed,       \* those the gateway answers for, so submit is updated
    Unpaid,       \* sats a coinbase may leave unpaid to the identity
    Room,         \* sats a coinbase has room for to pay carry
    MaxReorgs,    \* bound: changes of the node's mind about a block
    MaxCrashes,   \* bound: crashes
    NoRecord

\* A BlockRecord: settled is state # "open", carried is state = "carried".
Record == [kind : {"found", "orphan"}, state : {"open", "settled", "carried"},
           submit : {"pending", "answered"}, unpaid : Nat, carry_paid : Nat]

ASSUME CarryAssumption ==
    /\ Backed \subseteq Blocks
    /\ Unpaid \subseteq Nat
    /\ Room \in Nat
    /\ MaxReorgs \in Nat
    /\ MaxCrashes \in Nat
    /\ NoRecord \notin Record

VARIABLES
    blocks,      \* Shared::blocks
    log,         \* the latest line of each hash in blocks.jsonl
    carry,       \* Carry::owed for the identity
    carry_file,  \* carry.json
    offer,       \* carry_paid of the coinbaser each session's gateway uses
    submitter,   \* the submission task of each block
    poller,      \* where confirm_blocks stands, and with which block
    chain,       \* what the node says of each hash
    reorgs,
    crashes,
    applied,     \* history: times a block's sats are in carry
    saved,       \* history: times a block's sats are in carry_file
    stale        \* history: is an open copy logged last, after a settled one,
                 \* or was one when the process started again?

vars == <<blocks, log, carry, carry_file, offer, submitter, poller, chain,
          reorgs, crashes, applied, saved, stale>>

Idle == [at |-> "idle"]

PollerSteps == {"log_settled", "apply", "save", "mark", "log_carried", "log_orphan"}

\* Types: records and logged copies are whole, and a coinbaser never offers
\* more carry than its coinbase has room for.
TypeOK ==
    /\ blocks \in [Blocks -> Record \cup {NoRecord}]
    /\ log \in [Blocks -> Record \cup {NoRecord}]
    /\ carry \in Nat
    /\ carry_file \in Nat
    /\ offer \in [Sessions -> 0..Room]
    /\ submitter \in [Blocks -> [at : {"none", "waiting"}]
                                  \cup [at : {"append"}, line : Record]]
    /\ poller \in {Idle} \cup [at : PollerSteps, hash : Blocks, line : Record]
    /\ chain \in [Blocks -> {"unknown", "main", "side"}]
    /\ reorgs \in 0..MaxReorgs
    /\ crashes \in 0..MaxCrashes
    /\ applied \in [Blocks -> Nat]
    /\ saved \in [Blocks -> Nat]
    /\ stale \in [Blocks -> {"no", "logged", "read"}]

-----------------------------------------------------------------------------
\* What a coinbaser pays of the carry: as much as there is room for.
CarryPaid(owed) == IF owed < Room THEN owed ELSE Room

\* Carry::settle, then Carry::add; settle saturates at zero.
Settled(owed, r) ==
    (IF owed > r.carry_paid THEN owed - r.carry_paid ELSE 0) + r.unpaid

Init ==
    /\ blocks = [b \in Blocks |-> NoRecord]
    /\ log = [b \in Blocks |-> NoRecord]
    /\ carry = 0
    /\ carry_file = 0
    /\ offer = [s \in Sessions |-> 0]
    /\ submitter = [b \in Blocks |-> [at |-> "none"]]
    /\ poller = Idle
    /\ chain = [b \in Blocks |-> "unknown"]
    /\ reorgs = 0
    /\ crashes = 0
    /\ applied = [b \in Blocks |-> 0]
    /\ saved = [b \in Blocks |-> 0]
    /\ stale = [b \in Blocks |-> "no"]

\* on_coinbaser_request: the split pays carry out of the room it leaves. The
\* carry ledger is only copied.
IssueCoinbaser(s) ==
    /\ offer' = [offer EXCEPT ![s] = CarryPaid(carry)]
    /\ UNCHANGED <<blocks, log, carry, carry_file, submitter, poller, chain,
                   reorgs, crashes, applied, saved, stale>>

\* on_block_candidate: record_block appends and then pushes the record; the
\* gateway is asked for the transactions.
FindBlock(s, b, unpaid) ==
    /\ blocks[b] = NoRecord
    /\ LET r == [kind |-> "found", state |-> "open", submit |-> "pending",
                 unpaid |-> unpaid, carry_paid |-> offer[s]]
       IN  blocks' = [blocks EXCEPT ![b] = r] /\ log' = [log EXCEPT ![b] = r]
    /\ submitter' = [submitter EXCEPT ![b] =
                        [at |-> IF b \in Backed THEN "waiting" ELSE "none"]]
    /\ UNCHANGED <<carry, carry_file, offer, poller, chain, reorgs, crashes,
                   applied, saved, stale>>

\* on_validation or submitblock's answer: update_block sets submit...
SubmitAnswered(b) ==
    /\ submitter[b].at = "waiting"
    /\ blocks' = [blocks EXCEPT ![b].submit = "answered"]
    /\ submitter' = [submitter EXCEPT ![b] =
                        [at |-> "append", line |-> blocks'[b]]]
    /\ UNCHANGED <<log, carry, carry_file, offer, poller, chain, reorgs,
                   crashes, applied, saved, stale>>

\* An append of this line takes back that the block settled.
TakesBack(b, line) == line.state = "open" /\ log[b].state # "open"

\* ... and appends the copy it made.
SubmitAppend(b) ==
    /\ submitter[b].at = "append"
    /\ log' = [log EXCEPT ![b] = submitter[b].line]
    /\ stale' = IF stale[b] = "no" /\ TakesBack(b, submitter[b].line)
                THEN [stale EXCEPT ![b] = "logged"] ELSE stale
    /\ submitter' = [submitter EXCEPT ![b] = [at |-> "none"]]
    /\ UNCHANGED <<blocks, carry, carry_file, offer, poller, chain, reorgs,
                   crashes, applied, saved>>

\* The node accepts the block, loses it to another, or takes it back.
ChainMoves(b, view) ==
    /\ reorgs < MaxReorgs
    /\ reorgs' = reorgs + 1
    /\ blocks[b] # NoRecord
    /\ view # chain[b]
    /\ chain' = [chain EXCEPT ![b] = view]
    /\ UNCHANGED <<blocks, log, carry, carry_file, offer, submitter, poller,
                   crashes, applied, saved, stale>>

\* Mutant of Unsettled: a settled record is retried until it is carried.
UncarriedYet(b) == blocks[b] # NoRecord /\ blocks[b].state # "carried"

\* confirm_blocks looks only at records that are not settled.
Unsettled(b) == blocks[b] # NoRecord /\ blocks[b].state = "open"

\* update_block by the poller: the record becomes r, the copy is to be logged.
PollerUpdates(b, r, step) ==
    /\ blocks' = [blocks EXCEPT ![b] = r]
    /\ poller' = [at |-> step, hash |-> b, line |-> r]
    /\ UNCHANGED <<log, carry, carry_file, offer, submitter, chain, reorgs,
                   crashes, applied, saved, stale>>

\* getblockheader has confirmations: settled, and no orphan any more.
ConfirmMain(b) ==
    /\ poller.at = "idle"
    /\ Unsettled(b)
    /\ chain[b] = "main"
    /\ PollerUpdates(b, [blocks[b] EXCEPT !.kind = "found", !.state = "settled"],
                     "log_settled")

\* mark_orphan, once: the record stays unsettled and is looked at again.
MarkOrphan(b) ==
    /\ poller.at = "idle"
    /\ Unsettled(b)
    /\ chain[b] = "side"
    /\ blocks[b].kind # "orphan"
    /\ PollerUpdates(b, [blocks[b] EXCEPT !.kind = "orphan"], "log_orphan")

\* Mutant of PollerAppend: the carry ledger is not touched after settling.
PollerAppendOnly ==
    /\ poller.at \in {"log_settled", "log_carried", "log_orphan"}
    /\ log' = [log EXCEPT ![poller.hash] = poller.line]
    /\ poller' = Idle
    /\ UNCHANGED <<blocks, carry, carry_file, offer, submitter, chain, reorgs,
                   crashes, applied, saved, stale>>

\* The append of update_block, in the poller's task.
PollerAppend ==
    /\ poller.at \in {"log_settled", "log_carried", "log_orphan"}
    /\ log' = [log EXCEPT ![poller.hash] = poller.line]
    /\ stale' = IF stale[poller.hash] = "logged"
                THEN [stale EXCEPT ![poller.hash] = "no"] ELSE stale
    /\ poller' = IF poller.at = "log_settled"
                 THEN [poller EXCEPT !.at = "apply"] ELSE Idle
    /\ UNCHANGED <<blocks, carry, carry_file, offer, submitter, chain, reorgs,
                   crashes, applied, saved>>

\* apply_carry_for_settled: the record must be settled and not carried; the
\* carry ledger in memory is changed under its lock...
ApplyCarry ==
    /\ poller.at = "apply"
    /\ LET b == poller.hash IN
       IF blocks[b].state = "settled"
       THEN /\ carry' = Settled(carry, blocks[b])
            /\ applied' = [applied EXCEPT ![b] = @ + 1]
            /\ poller' = [poller EXCEPT !.at = "save"]
       ELSE poller' = Idle /\ UNCHANGED <<carry, applied>>
    /\ UNCHANGED <<blocks, log, carry_file, offer, submitter, chain, reorgs,
                   crashes, saved, stale>>

\* Mutant of SaveCarry: the write is skipped.
SaveCarrySkipped ==
    /\ poller.at = "save"
    /\ poller' = [poller EXCEPT !.at = "mark"]
    /\ UNCHANGED <<blocks, log, carry, carry_file, offer, submitter, chain,
                   reorgs, crashes, applied, saved, stale>>

\* ... save_carry takes the lock again to write the file...
SaveCarry ==
    /\ poller.at = "save"
    /\ carry_file' = carry
    /\ saved' = applied
    /\ poller' = [poller EXCEPT !.at = "mark"]
    /\ UNCHANGED <<blocks, log, carry, offer, submitter, chain, reorgs,
                   crashes, applied, stale>>

\* ... and update_block marks the record carried.
MarkCarried ==
    /\ poller.at = "mark"
    /\ PollerUpdates(poller.hash,
                     [blocks[poller.hash] EXCEPT !.state = "carried"],
                     "log_carried")

\* The process dies and starts again from its files. Gateways reconnect and
\* ask for new coinbasers; submissions under way are forgotten.
Crash ==
    /\ crashes < MaxCrashes
    /\ crashes' = crashes + 1
    /\ blocks' = log
    /\ carry' = carry_file
    /\ applied' = saved
    /\ stale' = [b \in Blocks |-> IF stale[b] = "no" THEN "no" ELSE "read"]
    /\ offer' = [s \in Sessions |-> 0]
    /\ submitter' = [b \in Blocks |-> [at |-> "none"]]
    /\ poller' = Idle
    /\ UNCHANGED <<log, carry_file, chain, reorgs, saved>>

Poller ==
    \/ \E b \in Blocks : ConfirmMain(b) \/ MarkOrphan(b)
    \/ PollerAppend \/ ApplyCarry \/ SaveCarry \/ MarkCarried

Next ==
    \/ \E s \in Sessions : IssueCoinbaser(s)
    \/ \E s \in Sessions, b \in Blocks, u \in Unpaid : FindBlock(s, b, u)
    \/ \E b \in Blocks : SubmitAnswered(b)
    \/ \E b \in Blocks : SubmitAppend(b)
    \/ \E b \in Blocks, v \in {"main", "side"} : ChainMoves(b, v)
    \/ Poller
    \/ Crash

\* The poller's task keeps running, and each of its passes goes over every
\* unsettled record, so a record that stays in the main chain has its turn;
\* a task that holds a copy appends it. Nothing obliges a gateway, the
\* node's chain or a crash to act.
Fairness ==
    /\ WF_vars(Poller)
    /\ \A b \in Blocks : SF_vars(ConfirmMain(b)) /\ WF_vars(SubmitAppend(b))

Spec == Init /\ [][Next]_vars /\ Fairness

-----------------------------------------------------------------------------
(* Properties *)

\* A block's sats enter the carry ledger at most once, however the poller's
\* passes, the submission task and crashes between the durable steps of
\* settling interleave. The one exception: update_block appends outside the
\* lock, so the submission task may log the open copy it made after the poller
\* logged a settled one, and a crash with that copy last in the log brings the
\* block back to be settled again.
AppliedOnce == \A b \in Blocks : applied[b] > 1 => stale[b] = "read"

\* The log never calls a block carried before carry.json holds its sats: a
\* crash after that line cannot lose them.
CarriedIsSaved ==
    \A b \in Blocks :
        log[b] # NoRecord /\ log[b].state = "carried" => saved[b] > 0

\* While the process lives, a recorded block that stays in the main chain,
\* after any time on a side branch, gets its unpaid sats into carry.json
\* ("Moved into the carry ledger once the block settles"). A crash between
\* the settled line and the save would lose them.
MainIsCarried ==
    \A b \in Blocks :
        [](crashes = 0) /\ <>[](blocks[b] # NoRecord /\ chain[b] = "main")
            => <>(saved[b] > 0)
=============================================================================
