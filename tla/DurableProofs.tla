--------------------------- MODULE DurableProofs ---------------------------
(***************************************************************************)
(* What survives a stop of the process, for any instance.                  *)
(*                                                                         *)
(* Block records and carry (BlockCarry): for any blocks, sessions, amounts,*)
(* reorganisations and crashes the log never calls a block carried before  *)
(* carry.json holds its sats, and a block's sats are applied at most once, *)
(* save for a block a crash brought back from an older copy of its record, *)
(* logged last by the submission task.                                     *)
(*                                                                         *)
(* The share window's ledger (TidesLedger): for any identities, work,      *)
(* targets, buffer and slack the window's running totals are exact, and as *)
(* long as no identity waits behind a full buffer of rows the files hold   *)
(* what the window is read from again: owners, rows and target.            *)
(***************************************************************************)
EXTENDS BlockCarry, TidesLedger, LoopLemmas

-----------------------------------------------------------------------------
(* Block records and carry *)

\* The blocks no crash brought back from an older copy of their record.
Fresh(b) == stale[b] # "read"

\* A task or a poller that holds a record holds that of a block in memory;
\* only a block the gateway answers for has a submission task.
HoldersInv ==
    /\ \A b \in Blocks : submitter[b].at # "none" => b \in Backed /\ blocks[b] # NoRecord
    /\ poller.at # "idle" => blocks[poller.hash] # NoRecord

\* Every copy that says carried, and the poller on its way to saying so, is
\* of a block that is saved; what is saved was applied.
SavedInv ==
    /\ \A b \in Blocks : saved[b] <= applied[b]
    /\ \A b \in Blocks : blocks[b] # NoRecord /\ blocks[b].state = "carried" => saved[b] > 0
    /\ \A b \in Blocks :
         submitter[b].at = "append" /\ submitter[b].line.state = "carried" => saved[b] > 0
    /\ poller.at = "save" => applied[poller.hash] > 0
    /\ poller.at \in {"mark", "log_carried"} => saved[poller.hash] > 0

\* What the poller is about to log, and the record behind it.
PollerInv ==
    /\ poller.at \in {"log_settled", "apply"} => /\ blocks[poller.hash].state = "settled"
                                                 /\ poller.line.state = "settled"
    /\ poller.at \in {"save", "mark"} => blocks[poller.hash].state = "settled"
    /\ poller.at = "log_carried" => poller.line.state = "carried"
    /\ poller.at = "log_orphan" => /\ blocks[poller.hash].state = "open"
                                   /\ poller.line.state = "open"

\* Once a block's sats are applied its record is settled, in memory and, unless
\* an older copy was logged after it, in the log; before the poller applies
\* them they have not been applied.
OnceInv ==
    \A b \in Blocks :
      /\ Fresh(b) => /\ applied[b] <= 1
                     /\ applied[b] > 0 => blocks[b] # NoRecord /\ blocks[b].state # "open"
                     /\ poller.at \in {"log_settled", "apply"} /\ poller.hash = b
                            => applied[b] = 0
      /\ stale[b] = "no" =>
             /\ applied[b] > 0 => log[b] # NoRecord /\ log[b].state # "open"
             /\ poller.at = "apply" /\ poller.hash = b
                    => log[b] # NoRecord /\ log[b].state # "open"

CarryInv == TypeOK /\ HoldersInv /\ SavedInv /\ PollerInv /\ OnceInv /\ CarriedIsSaved

-----------------------------------------------------------------------------
(* Records *)

\* What changing one field of a record leaves.
LEMMA RecordUpdates ==
  ASSUME NEW r \in Record
  PROVE  /\ r # NoRecord
         /\ r.state \in {"open", "settled", "carried"}
         /\ r.carry_paid \in Nat /\ r.unpaid \in Nat
         /\ [r EXCEPT !.submit = "answered"] \in Record
         /\ [r EXCEPT !.submit = "answered"].state = r.state
         /\ [r EXCEPT !.kind = "orphan"] \in Record
         /\ [r EXCEPT !.kind = "orphan"].state = r.state
         /\ [r EXCEPT !.kind = "found", !.state = "settled"] \in Record
         /\ [r EXCEPT !.kind = "found", !.state = "settled"].state = "settled"
         /\ [r EXCEPT !.state = "carried"] \in Record
         /\ [r EXCEPT !.state = "carried"].state = "carried"
  <1>1. r # NoRecord
    BY CarryAssumption
  <1> QED
    BY <1>1 DEF Record

\* The poller's step and what it holds.
LEMMA PollerHolds ==
  ASSUME TypeOK, poller.at # "idle"
  PROVE  /\ poller \in [at : PollerSteps, hash : Blocks, line : Record]
         /\ poller.hash \in Blocks /\ poller.line \in Record
         /\ \A a \in PollerSteps : /\ [poller EXCEPT !.at = a].at = a
                                   /\ [poller EXCEPT !.at = a].hash = poller.hash
                                   /\ [poller EXCEPT !.at = a].line = poller.line
                                   /\ [poller EXCEPT !.at = a] \in [at : PollerSteps, hash : Blocks, line : Record]
  <1>1. poller \in [at : PollerSteps, hash : Blocks, line : Record]
    BY DEF TypeOK, Idle
  <1> QED
    BY <1>1

\* The copy a submission task is about to append.
LEMMA SubmitterHolds ==
  ASSUME TypeOK, NEW b \in Blocks, submitter[b].at = "append"
  PROVE  submitter[b].line \in Record
  BY DEF TypeOK

-----------------------------------------------------------------------------
(* The inductive invariant *)

\* Nothing is recorded, held or applied at first.
LEMMA CarryInit == Init => CarryInv
  <1> SUFFICES ASSUME Init
               PROVE  CarryInv
    OBVIOUS
  <1>1. TypeOK
    BY CarryAssumption DEF Init, TypeOK, Idle
  <1>2. HoldersInv
    BY DEF Init, HoldersInv, Idle
  <1>3. SavedInv
    BY DEF Init, SavedInv, Idle
  <1>4. PollerInv
    BY DEF Init, PollerInv, Idle
  <1>5. OnceInv
    BY DEF Init, OnceInv, Idle
  <1>6. CarriedIsSaved
    BY DEF Init, CarriedIsSaved
  <1> QED
    BY <1>1, <1>2, <1>3, <1>4, <1>5, <1>6 DEF CarryInv

\* A coinbaser only copies the ledger.
LEMMA IssueStep ==
  ASSUME CarryInv, NEW s \in Sessions, IssueCoinbaser(s)
  PROVE  CarryInv'
  <1> USE DEF CarryInv, IssueCoinbaser
  <1>1. TypeOK'
    <2>1. CarryPaid(carry) \in 0..Room
      BY CarryAssumption DEF TypeOK, CarryPaid
    <2> QED
      BY <2>1 DEF TypeOK
  <1>2. HoldersInv' /\ SavedInv'
    BY DEF HoldersInv, SavedInv
  <1>3. PollerInv' /\ OnceInv' /\ CarriedIsSaved'
    BY DEF PollerInv, OnceInv, Fresh, CarriedIsSaved
  <1> QED
    BY <1>1, <1>2, <1>3

\* A new record is open, and nothing of its block was applied before.
LEMMA FindStep ==
  ASSUME CarryInv, NEW s \in Sessions, NEW b \in Blocks, NEW u \in Unpaid,
         FindBlock(s, b, u)
  PROVE  CarryInv'
  <1> DEFINE r == [kind |-> "found", state |-> "open", submit |-> "pending",
                   unpaid |-> u, carry_paid |-> offer[s]]
             t == [at |-> IF b \in Backed THEN "waiting" ELSE "none"]
  <1>r. r \in Record /\ r.state = "open" /\ r # NoRecord
    <2>1. r \in Record /\ r.state = "open"
      BY CarryAssumption DEF CarryInv, TypeOK, Record
    <2> QED
      BY <2>1, CarryAssumption
  <1>t. t \in [at : {"none", "waiting"}] /\ (t.at # "none" => b \in Backed) /\ t.at # "append"
    OBVIOUS
  <1>s. /\ blocks[b] = NoRecord
        /\ blocks' = [blocks EXCEPT ![b] = r] /\ log' = [log EXCEPT ![b] = r]
        /\ submitter' = [submitter EXCEPT ![b] = t]
        /\ UNCHANGED <<carry, carry_file, offer, poller, chain, reorgs, crashes,
                       applied, saved, stale>>
    BY DEF FindBlock
  <1> HIDE DEF r, t
  <1>0. TypeOK /\ HoldersInv /\ SavedInv /\ PollerInv /\ OnceInv /\ CarriedIsSaved
    BY DEF CarryInv
  <1>b. /\ blocks'[b] = r /\ log'[b] = r /\ submitter'[b] = t
        /\ \A c \in Blocks \ {b} : /\ blocks'[c] = blocks[c] /\ log'[c] = log[c]
                                   /\ submitter'[c] = submitter[c]
    BY <1>s, <1>0 DEF TypeOK
  <1>p. poller.at # "idle" => poller.hash \in Blocks /\ poller.hash # b
    BY <1>0, <1>s, PollerHolds DEF HoldersInv
  <1>1. TypeOK'
    BY <1>s, <1>r, <1>t, <1>0 DEF TypeOK
  <1>2. HoldersInv'
    BY <1>s, <1>b, <1>r, <1>t, <1>p, <1>0 DEF HoldersInv
  <1>3. SavedInv'
    BY <1>s, <1>b, <1>r, <1>t, <1>0 DEF SavedInv
  <1>4. PollerInv'
    BY <1>s, <1>b, <1>p, <1>0 DEF PollerInv
  <1>5. OnceInv'
    <2>1. Fresh(b) => applied[b] = 0
      BY <1>0, <1>s DEF OnceInv, TypeOK
    <2>2. stale[b] = "no" => Fresh(b)
      BY DEF Fresh
    <2> QED
      BY <2>1, <2>2, <1>s, <1>b, <1>p, <1>0 DEF OnceInv, Fresh
  <1>6. CarriedIsSaved'
    BY <1>s, <1>b, <1>r, <1>0 DEF CarriedIsSaved
  <1> QED
    BY <1>1, <1>2, <1>3, <1>4, <1>5, <1>6 DEF CarryInv

\* The submission's answer leaves a record's state alone; the copy has it too.
LEMMA AnsweredStep ==
  ASSUME CarryInv, NEW b \in Blocks, SubmitAnswered(b)
  PROVE  CarryInv'
  <1> DEFINE r == [blocks[b] EXCEPT !.submit = "answered"]
  <1>0. TypeOK /\ HoldersInv /\ SavedInv /\ PollerInv /\ OnceInv /\ CarriedIsSaved
    BY DEF CarryInv
  <1>k. blocks[b] # NoRecord /\ blocks[b] \in Record /\ b \in Backed
    BY <1>0 DEF SubmitAnswered, HoldersInv, TypeOK
  <1>r. r \in Record /\ r.state = blocks[b].state /\ r # NoRecord
    BY <1>k, RecordUpdates
  <1>s. /\ blocks' = [blocks EXCEPT ![b] = r]
        /\ submitter' = [submitter EXCEPT ![b] = [at |-> "append", line |-> r]]
        /\ UNCHANGED <<log, carry, carry_file, offer, poller, chain, reorgs,
                       crashes, applied, saved, stale>>
    BY <1>0 DEF SubmitAnswered, TypeOK
  <1> HIDE DEF r
  <1>b. /\ blocks'[b] = r /\ submitter'[b].at = "append" /\ submitter'[b].line = r
        /\ \A c \in Blocks \ {b} : blocks'[c] = blocks[c] /\ submitter'[c] = submitter[c]
    BY <1>s, <1>0 DEF TypeOK
  <1>p. poller.at # "idle" => poller.hash \in Blocks
    BY <1>0, PollerHolds
  <1>1. TypeOK'
    BY <1>s, <1>r, <1>0 DEF TypeOK
  <1>2. HoldersInv'
    BY <1>s, <1>b, <1>r, <1>k, <1>p, <1>0 DEF HoldersInv
  <1>3. SavedInv'
    BY <1>s, <1>b, <1>r, <1>k, <1>0 DEF SavedInv
  <1>4. PollerInv'
    BY <1>s, <1>b, <1>r, <1>p, <1>0 DEF PollerInv
  <1>5. OnceInv'
    BY <1>s, <1>b, <1>r, <1>k, <1>0 DEF OnceInv, Fresh
  <1>6. CarriedIsSaved'
    BY <1>s, <1>0 DEF CarriedIsSaved
  <1> QED
    BY <1>1, <1>2, <1>3, <1>4, <1>5, <1>6 DEF CarryInv

\* The copy a submission task appends may be old: when it takes back that the
\* block settled the block is marked stale, and when it does not nothing of
\* the block was applied or the copy says so.
LEMMA AppendStep ==
  ASSUME CarryInv, NEW b \in Blocks, SubmitAppend(b)
  PROVE  CarryInv'
  <1>0. TypeOK /\ HoldersInv /\ SavedInv /\ PollerInv /\ OnceInv /\ CarriedIsSaved
    BY DEF CarryInv
  <1>s. /\ submitter[b].at = "append"
        /\ log' = [log EXCEPT ![b] = submitter[b].line]
        /\ submitter' = [submitter EXCEPT ![b] = [at |-> "none"]]
        /\ UNCHANGED <<blocks, carry, carry_file, offer, poller, chain, reorgs,
                       crashes, applied, saved>>
    BY DEF SubmitAppend
  <1>t. /\ stale' \in [Blocks -> {"no", "logged", "read"}]
        /\ stale'[b] = "no" => stale[b] = "no" /\ ~TakesBack(b, submitter[b].line)
        /\ stale'[b] # "read" => stale[b] # "read"
        /\ \A c \in Blocks \ {b} : stale'[c] = stale[c]
    BY <1>0 DEF SubmitAppend, TypeOK
  <1>k. b \in Backed /\ submitter[b].line \in Record
    BY <1>0, <1>s, SubmitterHolds DEF HoldersInv
  <1>b. /\ log'[b] = submitter[b].line /\ submitter'[b].at = "none"
        /\ \A c \in Blocks \ {b} : log'[c] = log[c] /\ submitter'[c] = submitter[c]
    BY <1>s, <1>0 DEF TypeOK
  <1>1. TypeOK'
    BY <1>s, <1>t, <1>k, <1>0 DEF TypeOK
  <1>2. HoldersInv' /\ SavedInv'
    BY <1>s, <1>b, <1>0 DEF HoldersInv, SavedInv
  <1>3. PollerInv'
    BY <1>s, <1>0 DEF PollerInv
  <1>4. OnceInv'
    <2>1. submitter[b].line # NoRecord
      BY <1>k, CarryAssumption
    <2>2. \A c \in Blocks : Fresh(c)' => Fresh(c)
      BY <1>t DEF Fresh
    <2>3. stale'[b] = "no" /\ log[b].state # "open" => log'[b].state # "open"
      BY <1>b, <1>t DEF TakesBack
    <2>4. ASSUME NEW c \in Blocks
          PROVE  Fresh(c)' => /\ applied'[c] <= 1
                              /\ applied'[c] > 0 => blocks'[c] # NoRecord /\ blocks'[c].state # "open"
                              /\ poller'.at \in {"log_settled", "apply"} /\ poller'.hash = c
                                    => applied'[c] = 0
      BY <2>2, <1>s, <1>0 DEF OnceInv
    <2>5. ASSUME NEW c \in Blocks, stale'[c] = "no"
          PROVE  /\ applied'[c] > 0 => log'[c] # NoRecord /\ log'[c].state # "open"
                 /\ poller'.at = "apply" /\ poller'.hash = c
                       => log'[c] # NoRecord /\ log'[c].state # "open"
      <3>1. CASE c = b
        BY <2>1, <2>3, <2>5, <3>1, <1>s, <1>b, <1>t, <1>0 DEF OnceInv
      <3>2. CASE c # b
        BY <2>5, <3>2, <1>s, <1>b, <1>t, <1>0 DEF OnceInv
      <3> QED
        BY <3>1, <3>2
    <2> QED
      BY <2>4, <2>5 DEF OnceInv
  <1>5. CarriedIsSaved'
    BY <1>s, <1>b, <1>0 DEF CarriedIsSaved, SavedInv
  <1> QED
    BY <1>1, <1>2, <1>3, <1>4, <1>5 DEF CarryInv

\* The node's view is not part of the records.
LEMMA ChainStep ==
  ASSUME CarryInv, NEW b \in Blocks, NEW v \in {"main", "side"}, ChainMoves(b, v)
  PROVE  CarryInv'
  <1> USE DEF CarryInv, ChainMoves
  <1>1. TypeOK'
    BY CarryAssumption DEF TypeOK
  <1>2. HoldersInv' /\ SavedInv'
    BY DEF HoldersInv, SavedInv
  <1>3. PollerInv' /\ OnceInv' /\ CarriedIsSaved'
    BY DEF PollerInv, OnceInv, Fresh, CarriedIsSaved
  <1> QED
    BY <1>1, <1>2, <1>3

\* What update_block by the poller does to the records, for any new record.
LEMMA PollerUpdateFrame ==
  ASSUME CarryInv, NEW b \in Blocks, NEW r \in Record, NEW a \in PollerSteps,
         blocks[b] # NoRecord, PollerUpdates(b, r, a)
  PROVE  /\ TypeOK' /\ HoldersInv' /\ CarriedIsSaved'
         /\ blocks'[b] = r /\ poller'.at = a /\ poller'.hash = b /\ poller'.line = r
         /\ \A c \in Blocks \ {b} : blocks'[c] = blocks[c]
         /\ UNCHANGED <<log, submitter, crashes, applied, saved, stale>>
  <1>0. TypeOK /\ HoldersInv /\ CarriedIsSaved
    BY DEF CarryInv
  <1>r. r # NoRecord
    BY CarryAssumption
  <1>s. /\ blocks' = [blocks EXCEPT ![b] = r]
        /\ poller' = [at |-> a, hash |-> b, line |-> r]
        /\ UNCHANGED <<log, carry, carry_file, offer, submitter, chain, reorgs,
                       crashes, applied, saved, stale>>
    BY DEF PollerUpdates
  <1>b. /\ blocks'[b] = r /\ poller'.at = a /\ poller'.hash = b /\ poller'.line = r
        /\ \A c \in Blocks \ {b} : blocks'[c] = blocks[c]
    BY <1>s, <1>0 DEF TypeOK
  <1>1. TypeOK'
    BY <1>s, <1>0 DEF TypeOK
  <1>2. HoldersInv'
    BY <1>s, <1>b, <1>r, <1>0 DEF HoldersInv
  <1>3. CarriedIsSaved'
    BY <1>s, <1>0 DEF CarriedIsSaved
  <1> QED
    BY <1>1, <1>2, <1>3, <1>s, <1>b

\* A confirmed record is settled; being open before, it was never applied.
LEMMA ConfirmStep ==
  ASSUME CarryInv, NEW b \in Blocks, ConfirmMain(b)
  PROVE  CarryInv'
  <1> DEFINE r == [blocks[b] EXCEPT !.kind = "found", !.state = "settled"]
  <1>0. TypeOK /\ HoldersInv /\ SavedInv /\ PollerInv /\ OnceInv
    BY DEF CarryInv
  <1>k. blocks[b] \in Record /\ blocks[b] # NoRecord /\ blocks[b].state = "open"
    BY <1>0 DEF ConfirmMain, Unsettled, TypeOK
  <1>r. r \in Record /\ r.state = "settled"
    BY <1>k, RecordUpdates
  <1>u. PollerUpdates(b, r, "log_settled")
    BY DEF ConfirmMain
  <1> HIDE DEF r
  <1>f. /\ TypeOK' /\ HoldersInv' /\ CarriedIsSaved'
        /\ blocks'[b] = r /\ poller'.at = "log_settled" /\ poller'.hash = b /\ poller'.line = r
        /\ \A c \in Blocks \ {b} : blocks'[c] = blocks[c]
        /\ UNCHANGED <<log, submitter, crashes, applied, saved, stale>>
    BY <1>k, <1>r, <1>u, PollerUpdateFrame DEF PollerSteps
  <1>1. SavedInv'
    BY <1>f, <1>r, <1>0 DEF SavedInv
  <1>2. PollerInv'
    BY <1>f, <1>r DEF PollerInv
  <1>3. OnceInv'
    <2>1. Fresh(b) => applied[b] = 0
      BY <1>0, <1>k DEF OnceInv, TypeOK
    <2> QED
      BY <2>1, <1>f, <1>r, <1>0 DEF OnceInv, Fresh
  <1> QED
    BY <1>f, <1>1, <1>2, <1>3 DEF CarryInv

\* An orphan's record stays open.
LEMMA OrphanStep ==
  ASSUME CarryInv, NEW b \in Blocks, MarkOrphan(b)
  PROVE  CarryInv'
  <1> DEFINE r == [blocks[b] EXCEPT !.kind = "orphan"]
  <1>0. TypeOK /\ HoldersInv /\ SavedInv /\ PollerInv /\ OnceInv
    BY DEF CarryInv
  <1>k. blocks[b] \in Record /\ blocks[b] # NoRecord /\ blocks[b].state = "open"
    BY <1>0 DEF MarkOrphan, Unsettled, TypeOK
  <1>r. r \in Record /\ r.state = "open"
    BY <1>k, RecordUpdates
  <1>u. PollerUpdates(b, r, "log_orphan")
    BY DEF MarkOrphan
  <1> HIDE DEF r
  <1>f. /\ TypeOK' /\ HoldersInv' /\ CarriedIsSaved'
        /\ blocks'[b] = r /\ poller'.at = "log_orphan" /\ poller'.hash = b /\ poller'.line = r
        /\ \A c \in Blocks \ {b} : blocks'[c] = blocks[c]
        /\ UNCHANGED <<log, submitter, crashes, applied, saved, stale>>
    BY <1>k, <1>r, <1>u, PollerUpdateFrame DEF PollerSteps
  <1>1. SavedInv'
    BY <1>f, <1>r, <1>0 DEF SavedInv
  <1>2. PollerInv'
    BY <1>f, <1>r DEF PollerInv
  <1>3. OnceInv'
    BY <1>f, <1>r, <1>k, <1>0 DEF OnceInv, Fresh
  <1> QED
    BY <1>f, <1>1, <1>2, <1>3 DEF CarryInv

\* The record becomes carried once carry.json holds its sats.
LEMMA MarkStep ==
  ASSUME CarryInv, MarkCarried
  PROVE  CarryInv'
  <1> DEFINE b == poller.hash
             r == [blocks[b] EXCEPT !.state = "carried"]
  <1>0. TypeOK /\ HoldersInv /\ SavedInv /\ PollerInv /\ OnceInv
    BY DEF CarryInv
  <1>p. poller.at = "mark" /\ b \in Blocks
    BY <1>0, PollerHolds DEF MarkCarried
  <1>k. blocks[b] \in Record /\ blocks[b] # NoRecord /\ saved[b] > 0 /\ blocks[b].state = "settled"
    BY <1>0, <1>p DEF HoldersInv, TypeOK, SavedInv, PollerInv
  <1>r. r \in Record /\ r.state = "carried" /\ r # NoRecord
    BY <1>k, RecordUpdates
  <1>u. PollerUpdates(b, r, "log_carried")
    BY DEF MarkCarried
  <1> HIDE DEF b, r
  <1>f. /\ TypeOK' /\ HoldersInv' /\ CarriedIsSaved'
        /\ blocks'[b] = r /\ poller'.at = "log_carried" /\ poller'.hash = b /\ poller'.line = r
        /\ \A c \in Blocks \ {b} : blocks'[c] = blocks[c]
        /\ UNCHANGED <<log, submitter, crashes, applied, saved, stale>>
    BY <1>k, <1>r, <1>u, <1>p, PollerUpdateFrame DEF PollerSteps
  <1>1. SavedInv'
    BY <1>f, <1>r, <1>k, <1>0 DEF SavedInv
  <1>2. PollerInv'
    BY <1>f, <1>r DEF PollerInv
  <1>3. OnceInv'
    BY <1>f, <1>r, <1>k, <1>0 DEF OnceInv, Fresh
  <1> QED
    BY <1>f, <1>1, <1>2, <1>3 DEF CarryInv

\* The poller's line reaches the log: what it says carried is saved, and it
\* is open only for a block that was never applied.
LEMMA PollerAppendStep ==
  ASSUME CarryInv, PollerAppend
  PROVE  CarryInv'
  <1> DEFINE b == poller.hash
             l == poller.line
  <1>0. TypeOK /\ HoldersInv /\ SavedInv /\ PollerInv /\ OnceInv /\ CarriedIsSaved
    BY DEF CarryInv
  <1>a. poller.at \in {"log_settled", "log_carried", "log_orphan"}
    BY DEF PollerAppend
  <1>p. b \in Blocks /\ l \in Record /\ l # NoRecord
    BY <1>0, <1>a, PollerHolds, CarryAssumption
  <1>s. /\ log' = [log EXCEPT ![b] = l]
        /\ UNCHANGED <<blocks, carry, carry_file, offer, submitter, chain, reorgs,
                       crashes, applied, saved>>
    BY DEF PollerAppend
  <1>t. /\ stale' \in [Blocks -> {"no", "logged", "read"}]
        /\ stale'[b] = "read" <=> stale[b] = "read"
        /\ \A c \in Blocks \ {b} : stale'[c] = stale[c]
    BY <1>0, <1>p DEF PollerAppend, TypeOK
  <1>n. \/ /\ poller.at = "log_settled"
           /\ poller'.at = "apply" /\ poller'.hash = b /\ poller'.line = l
           /\ poller' \in [at : PollerSteps, hash : Blocks, line : Record]
        \/ poller.at # "log_settled" /\ poller' = Idle /\ poller'.at = "idle"
    <2>1. CASE poller.at = "log_settled"
      <3>1. poller' = [poller EXCEPT !.at = "apply"]
        BY <2>1 DEF PollerAppend
      <3>2. "apply" \in PollerSteps
        BY DEF PollerSteps
      <3> QED
        BY <2>1, <3>1, <3>2, <1>0, PollerHolds
    <2>2. CASE poller.at # "log_settled"
      BY <2>2 DEF PollerAppend, Idle
    <2> QED
      BY <2>1, <2>2
  <1>b. log'[b] = l /\ \A c \in Blocks \ {b} : log'[c] = log[c]
    BY <1>s, <1>p, <1>0 DEF TypeOK
  <1>v. l.state = "carried" => saved[b] > 0
    BY <1>0, <1>a DEF PollerInv, SavedInv
  <1>h. blocks[b] # NoRecord
    BY <1>0, <1>a DEF HoldersInv
  <1>o. Fresh(b) /\ applied[b] > 0 => l.state # "open"
    BY <1>0, <1>a, <1>p DEF PollerInv, OnceInv
  <1>w. poller.at = "log_settled" => l.state = "settled" /\ blocks[b].state = "settled" /\ (Fresh(b) => applied[b] = 0)
    BY <1>0, <1>p DEF PollerInv, OnceInv
  <1> HIDE DEF b, l
  <1>1. TypeOK'
    BY <1>s, <1>t, <1>n, <1>p, <1>0 DEF TypeOK
  <1>2. HoldersInv'
    BY <1>s, <1>n, <1>h, <1>0 DEF HoldersInv
  <1>3. SavedInv'
    BY <1>s, <1>n, <1>0 DEF SavedInv
  <1>4. PollerInv'
    BY <1>s, <1>n, <1>w DEF PollerInv
  <1>5. OnceInv'
    BY <1>s, <1>t, <1>n, <1>b, <1>o, <1>w, <1>p, <1>h, <1>0 DEF OnceInv, Fresh
  <1>6. CarriedIsSaved'
    BY <1>s, <1>b, <1>v, <1>0 DEF CarriedIsSaved
  <1> QED
    BY <1>1, <1>2, <1>3, <1>4, <1>5, <1>6 DEF CarryInv

\* The ledger takes a settled record's sats, for the first time.
LEMMA ApplyStep ==
  ASSUME CarryInv, ApplyCarry
  PROVE  CarryInv'
  <1> DEFINE b == poller.hash
  <1>0. TypeOK /\ HoldersInv /\ SavedInv /\ PollerInv /\ OnceInv /\ CarriedIsSaved
    BY DEF CarryInv
  <1>a. poller.at = "apply" /\ blocks[b].state = "settled"
    BY <1>0 DEF ApplyCarry, PollerInv
  <1>p. b \in Blocks /\ blocks[b] # NoRecord /\ blocks[b] \in Record
    BY <1>0, <1>a, PollerHolds DEF HoldersInv, TypeOK
  <1>s. /\ carry' = Settled(carry, blocks[b])
        /\ applied' = [applied EXCEPT ![b] = @ + 1]
        /\ poller' = [poller EXCEPT !.at = "save"]
        /\ UNCHANGED <<blocks, log, carry_file, offer, submitter, chain, reorgs,
                       crashes, saved, stale>>
    BY <1>a DEF ApplyCarry
  <1>n. /\ poller'.at = "save" /\ poller'.hash = b
        /\ poller' \in [at : PollerSteps, hash : Blocks, line : Record]
    <2>1. "save" \in PollerSteps
      BY DEF PollerSteps
    <2> QED
      BY <2>1, <1>0, <1>a, <1>s, PollerHolds
  <1>c. carry' \in Nat
    <2>1. blocks[b].carry_paid \in Nat /\ blocks[b].unpaid \in Nat
      BY <1>p, RecordUpdates
    <2>2. carry \in Nat
      BY <1>0 DEF TypeOK
    <2> QED
      BY <2>1, <2>2, <1>s DEF Settled
  <1>k. /\ \A c \in Blocks : applied[c] \in Nat /\ saved[c] \in Nat
        /\ applied'[b] = applied[b] + 1 /\ \A c \in Blocks \ {b} : applied'[c] = applied[c]
        /\ applied' \in [Blocks -> Nat]
    BY <1>0, <1>p, <1>s DEF TypeOK
  <1>f. /\ Fresh(b) => applied[b] = 0
        /\ stale[b] = "no" => log[b] # NoRecord /\ log[b].state # "open"
    BY <1>0, <1>a, <1>p DEF OnceInv
  <1> HIDE DEF b
  <1>1. TypeOK'
    BY <1>s, <1>n, <1>c, <1>k, <1>0 DEF TypeOK
  <1>2. HoldersInv'
    BY <1>s, <1>n, <1>p, <1>0 DEF HoldersInv
  <1>3. SavedInv'
    BY <1>s, <1>n, <1>k, <1>p, <1>0 DEF SavedInv
  <1>4. PollerInv'
    BY <1>s, <1>n, <1>a DEF PollerInv
  <1>5. OnceInv'
    BY <1>s, <1>n, <1>k, <1>f, <1>p, <1>a, <1>0 DEF OnceInv, Fresh
  <1>6. CarriedIsSaved'
    BY <1>s, <1>0 DEF CarriedIsSaved
  <1> QED
    BY <1>1, <1>2, <1>3, <1>4, <1>5, <1>6 DEF CarryInv

\* carry.json takes the ledger's whole content: nothing saved is lost.
LEMMA SaveStep ==
  ASSUME CarryInv, SaveCarry
  PROVE  CarryInv'
  <1> DEFINE b == poller.hash
  <1>0. TypeOK /\ HoldersInv /\ SavedInv /\ PollerInv /\ OnceInv /\ CarriedIsSaved
    BY DEF CarryInv
  <1>a. poller.at = "save"
    BY DEF SaveCarry
  <1>p. b \in Blocks /\ applied[b] > 0 /\ blocks[b] # NoRecord /\ blocks[b].state = "settled"
    BY <1>0, <1>a, PollerHolds DEF SavedInv, HoldersInv, PollerInv
  <1>s. /\ carry_file' = carry /\ saved' = applied
        /\ poller' = [poller EXCEPT !.at = "mark"]
        /\ UNCHANGED <<blocks, log, carry, offer, submitter, chain, reorgs,
                       crashes, applied, stale>>
    BY DEF SaveCarry
  <1>n. /\ poller'.at = "mark" /\ poller'.hash = b
        /\ poller' \in [at : PollerSteps, hash : Blocks, line : Record]
    <2>1. "mark" \in PollerSteps
      BY DEF PollerSteps
    <2> QED
      BY <2>1, <1>0, <1>a, <1>s, PollerHolds
  <1>k. \A c \in Blocks : /\ applied[c] \in Nat /\ saved[c] \in Nat
                          /\ saved[c] <= applied[c] /\ saved'[c] = applied[c]
    BY <1>0, <1>s DEF TypeOK, SavedInv
  <1>g. \A c \in Blocks : saved[c] > 0 => saved'[c] > 0
    BY <1>k
  <1> HIDE DEF b
  <1>1. TypeOK'
    BY <1>s, <1>n, <1>0 DEF TypeOK
  <1>2. HoldersInv'
    BY <1>s, <1>n, <1>p, <1>0 DEF HoldersInv
  <1>3. SavedInv'
    BY <1>s, <1>n, <1>k, <1>g, <1>p, <1>0 DEF SavedInv
  <1>4. PollerInv'
    BY <1>s, <1>n, <1>p DEF PollerInv
  <1>5. OnceInv'
    BY <1>s, <1>n, <1>0 DEF OnceInv, Fresh
  <1>6. CarriedIsSaved'
    BY <1>s, <1>g, <1>0 DEF CarriedIsSaved
  <1> QED
    BY <1>1, <1>2, <1>3, <1>4, <1>5, <1>6 DEF CarryInv

\* The files are what the process starts from again.
LEMMA CrashStep ==
  ASSUME CarryInv, Crash
  PROVE  CarryInv'
  <1>0. TypeOK /\ HoldersInv /\ SavedInv /\ PollerInv /\ OnceInv /\ CarriedIsSaved
    BY DEF CarryInv
  <1>s. /\ crashes < MaxCrashes /\ crashes' = crashes + 1
        /\ blocks' = log /\ carry' = carry_file /\ applied' = saved
        /\ offer' = [s \in Sessions |-> 0]
        /\ submitter' = [b \in Blocks |-> [at |-> "none"]]
        /\ poller' = Idle /\ poller'.at = "idle"
        /\ stale' = [b \in Blocks |-> IF stale[b] = "no" THEN "no" ELSE "read"]
        /\ UNCHANGED <<log, carry_file, chain, reorgs, saved>>
    BY DEF Crash, Idle
  <1>k. \A b \in Blocks : /\ applied[b] \in Nat /\ saved[b] \in Nat /\ saved[b] <= applied[b]
                          /\ submitter'[b].at = "none"
    BY <1>0, <1>s DEF TypeOK, SavedInv
  <1>1. TypeOK'
    BY <1>s, <1>0, CarryAssumption DEF TypeOK
  <1>2. HoldersInv'
    BY <1>s, <1>k DEF HoldersInv
  <1>3. SavedInv'
    BY <1>s, <1>k, <1>0 DEF SavedInv, CarriedIsSaved
  <1>4. PollerInv'
    BY <1>s DEF PollerInv
  <1>5. OnceInv'
    <2> SUFFICES ASSUME NEW b \in Blocks, stale[b] = "no"
                 PROVE  /\ saved[b] <= 1
                        /\ saved[b] > 0 => log[b] # NoRecord /\ log[b].state # "open"
      BY <1>s DEF OnceInv, Fresh
    <2>1. applied[b] <= 1 /\ (applied[b] > 0 => log[b] # NoRecord /\ log[b].state # "open")
      BY <1>0 DEF OnceInv, Fresh
    <2> QED
      BY <2>1, <1>k
  <1>6. CarriedIsSaved'
    BY <1>s, <1>0 DEF CarriedIsSaved
  <1> QED
    BY <1>1, <1>2, <1>3, <1>4, <1>5, <1>6 DEF CarryInv

-----------------------------------------------------------------------------
(* Results *)

\* Every step keeps the invariant.
LEMMA CarryStep == CarryInv /\ [Next]_vars => CarryInv'
  <1> SUFFICES ASSUME CarryInv, [Next]_vars
               PROVE  CarryInv'
    OBVIOUS
  <1>1. CASE Next
    BY <1>1, IssueStep, FindStep, AnsweredStep, AppendStep, ChainStep, ConfirmStep,
       OrphanStep, PollerAppendStep, ApplyStep, SaveStep, MarkStep, CrashStep
       DEF Next, Poller
  <1>2. CASE UNCHANGED vars
    <2>1. TypeOK' /\ HoldersInv' /\ SavedInv'
      BY <1>2 DEF vars, CarryInv, TypeOK, HoldersInv, SavedInv
    <2>2. PollerInv' /\ OnceInv' /\ CarriedIsSaved'
      BY <1>2 DEF vars, CarryInv, PollerInv, OnceInv, Fresh, CarriedIsSaved
    <2> QED
      BY <2>1, <2>2 DEF CarryInv
  <1> QED
    BY <1>1, <1>2

\* The inductive invariant holds throughout.
LEMMA CarryInvariant == Spec => []CarryInv
  BY CarryInit, CarryStep, PTL DEF Spec

\* The records, the log, both ledgers and the poller stay well formed.
THEOREM TypeCorrect == Spec => []TypeOK
  <1>1. CarryInv => TypeOK
    BY DEF CarryInv
  <1> QED
    BY <1>1, CarryInvariant, PTL

\* apply_carry_for_settled writes carry.json before update_block logs the
\* record as carried, and no later append or crash undoes that order: whatever
\* the log calls carried is in carry.json.
THEOREM CarriedSaved == Spec => []CarriedIsSaved
  <1>1. CarryInv => CarriedIsSaved
    BY DEF CarryInv
  <1> QED
    BY <1>1, CarryInvariant, PTL

\* A block's sats enter the carry ledger at most once, whatever interleaves
\* and wherever the process dies, unless a crash brought the block back from an
\* open copy that its submission task logged after the poller's settled one.
THEOREM OnceApplied == Spec => []AppliedOnce
  <1>1. CarryInv => AppliedOnce
    <2> SUFFICES ASSUME CarryInv, NEW b \in Blocks, applied[b] > 1
                 PROVE  stale[b] = "read"
      BY DEF AppliedOnce
    <2>1. applied[b] \in Nat
      BY DEF CarryInv, TypeOK
    <2> QED
      BY <2>1 DEF CarryInv, OnceInv, Fresh
  <1> QED
    BY <1>1, CarryInvariant, PTL

-----------------------------------------------------------------------------
(* The window *)

Work == [r \in Rows |-> r.work]
WorkFor(i) == [r \in Rows |-> IF r.ident = i THEN r.work ELSE 0]
RowsFor(i) == [r \in Rows |-> IF r.ident = i THEN 1 ELSE 0]

\* A row has positive work, a position and an owner.
LEMMA RowFields ==
  ASSUME NEW r \in Rows
  PROVE  r.work \in Nat \ {0} /\ r.ident \in Nat \ {0} /\ r.owner \in Idents
  BY LedgerAssumption DEF Rows

\* What a row adds to each of the window's sums is a natural.
LEMMA Weights ==
  /\ Work \in [Rows -> Nat]
  /\ \A i : WorkFor(i) \in [Rows -> Nat] /\ RowsFor(i) \in [Rows -> Nat]
  BY RowFields DEF Work, WorkFor, RowsFor

\* The window's three sums.
LEMMA SumsBy ==
  ASSUME NEW rows \in Seq(Rows)
  PROVE  /\ SumWork(rows) = SumBy(Work, rows)
         /\ \A i : WorkOf(rows, i) = SumBy(WorkFor(i), rows)
         /\ \A i : CountOf(rows, i) = SumBy(RowsFor(i), rows)
  <1>1. \A k \in DOMAIN rows : rows[k] \in Rows
    BY LenProperties, ElementOfSeq
  <1>2. [k \in DOMAIN rows |-> rows[k].work] = [k \in DOMAIN rows |-> Work[rows[k]]]
    <2>1. \A k \in DOMAIN rows : Work[rows[k]] = rows[k].work
      BY <1>1 DEF Work
    <2> QED
      BY <2>1, Zenon
  <1>3. ASSUME NEW i
        PROVE  /\ [k \in DOMAIN rows |-> IF rows[k].ident = i THEN rows[k].work ELSE 0]
                    = [k \in DOMAIN rows |-> WorkFor(i)[rows[k]]]
               /\ [k \in DOMAIN rows |-> IF rows[k].ident = i THEN 1 ELSE 0]
                    = [k \in DOMAIN rows |-> RowsFor(i)[rows[k]]]
    <2>1. \A k \in DOMAIN rows :
             WorkFor(i)[rows[k]] = IF rows[k].ident = i THEN rows[k].work ELSE 0
      BY <1>1 DEF WorkFor
    <2>2. \A k \in DOMAIN rows : RowsFor(i)[rows[k]] = IF rows[k].ident = i THEN 1 ELSE 0
      BY <1>1 DEF RowsFor
    <2> QED
      BY <2>1, <2>2, Zenon
  <1> QED
    BY <1>2, <1>3, Zenon DEF SumWork, WorkOf, CountOf, SumBy

\* The window's sums are naturals.
LEMMA SumsNat ==
  ASSUME NEW rows \in Seq(Rows)
  PROVE  /\ SumWork(rows) \in Nat
         /\ \A i : WorkOf(rows, i) \in Nat /\ CountOf(rows, i) \in Nat
  <1>1. SumBy(Work, rows) \in Nat
    BY Weights, ByNat
  <1>2. ASSUME NEW i PROVE SumBy(WorkFor(i), rows) \in Nat /\ SumBy(RowsFor(i), rows) \in Nat
    BY Weights, ByNat
  <1> QED
    BY <1>1, <1>2, SumsBy

\* No rows, no work.
LEMMA SumsEmpty ==
  SumWork(<< >>) = 0 /\ \A i : WorkOf(<< >>, i) = 0 /\ CountOf(<< >>, i) = 0
  <1>1. << >> \in Seq(Rows)
    OBVIOUS
  <1> QED
    BY <1>1, SumsBy, ByEmpty

\* One row more.
LEMMA SumsAppend ==
  ASSUME NEW rows \in Seq(Rows), NEW r \in Rows
  PROVE  /\ SumWork(Append(rows, r)) = SumWork(rows) + r.work
         /\ \A i : /\ WorkOf(Append(rows, r), i)
                        = WorkOf(rows, i) + (IF r.ident = i THEN r.work ELSE 0)
                   /\ CountOf(Append(rows, r), i)
                        = CountOf(rows, i) + (IF r.ident = i THEN 1 ELSE 0)
  <1>1. Append(rows, r) \in Seq(Rows)
    BY AppendProperties
  <1>2. Work[r] = r.work
    BY DEF Work
  <1>3. SumWork(Append(rows, r)) = SumWork(rows) + r.work
    <2>1. SumBy(Work, Append(rows, r)) = SumBy(Work, rows) + Work[r]
      BY Weights, ByAppend
    <2> QED
      BY <1>1, <1>2, <2>1, SumsBy
  <1>4. ASSUME NEW i
        PROVE  /\ WorkOf(Append(rows, r), i)
                        = WorkOf(rows, i) + (IF r.ident = i THEN r.work ELSE 0)
               /\ CountOf(Append(rows, r), i)
                        = CountOf(rows, i) + (IF r.ident = i THEN 1 ELSE 0)
    <2>1. WorkFor(i)[r] = IF r.ident = i THEN r.work ELSE 0
      BY DEF WorkFor
    <2>2. RowsFor(i)[r] = IF r.ident = i THEN 1 ELSE 0
      BY DEF RowsFor
    <2>3. SumBy(WorkFor(i), Append(rows, r)) = SumBy(WorkFor(i), rows) + WorkFor(i)[r]
      BY Weights, ByAppend
    <2>4. SumBy(RowsFor(i), Append(rows, r)) = SumBy(RowsFor(i), rows) + RowsFor(i)[r]
      BY Weights, ByAppend
    <2>5. WorkOf(Append(rows, r), i) = SumBy(WorkFor(i), Append(rows, r))
      BY <1>1, SumsBy
    <2>6. CountOf(Append(rows, r), i) = SumBy(RowsFor(i), Append(rows, r))
      BY <1>1, SumsBy
    <2>7. WorkOf(rows, i) = SumBy(WorkFor(i), rows) /\ CountOf(rows, i) = SumBy(RowsFor(i), rows)
      BY SumsBy
    <2> QED
      BY <2>1, <2>2, <2>3, <2>4, <2>5, <2>6, <2>7
  <1> QED
    BY <1>3, <1>4

\* The first n rows and the others.
LEMMA SumsParts ==
  ASSUME NEW rows \in Seq(Rows), NEW n \in 0..Len(rows)
  PROVE  /\ SumWork(rows) = SumWork(SubSeq(rows, 1, n)) + SumWork(SubSeq(rows, n + 1, Len(rows)))
         /\ \A i : /\ WorkOf(rows, i) = WorkOf(SubSeq(rows, 1, n), i)
                                          + WorkOf(SubSeq(rows, n + 1, Len(rows)), i)
                   /\ CountOf(rows, i) = CountOf(SubSeq(rows, 1, n), i)
                                          + CountOf(SubSeq(rows, n + 1, Len(rows)), i)
  <1> DEFINE l == SubSeq(rows, 1, n)
             r == SubSeq(rows, n + 1, Len(rows))
  <1>1. l \in Seq(Rows) /\ r \in Seq(Rows)
    OBVIOUS
  <1>2. \A f \in [Rows -> Nat] : SumBy(f, rows) = SumBy(f, l) + SumBy(f, r)
    BY ByParts
  <1> HIDE DEF l, r
  <1>3. SumWork(rows) = SumWork(l) + SumWork(r)
    BY <1>1, <1>2, Weights, SumsBy
  <1>4. ASSUME NEW i
        PROVE  WorkOf(rows, i) = WorkOf(l, i) + WorkOf(r, i)
               /\ CountOf(rows, i) = CountOf(l, i) + CountOf(r, i)
    <2>1. /\ SumBy(WorkFor(i), rows) = SumBy(WorkFor(i), l) + SumBy(WorkFor(i), r)
          /\ SumBy(RowsFor(i), rows) = SumBy(RowsFor(i), l) + SumBy(RowsFor(i), r)
      BY <1>2, Weights
    <2> QED
      BY <1>1, <2>1, SumsBy
  <1> QED
    BY <1>3, <1>4 DEF l, r

\* Positions named by rows, and nothing is counted for the others.
NamedBy(rows) == {rows[k].ident : k \in 1..Len(rows)}

\* Nothing is counted for a position no row names, and something for the others.
LEMMA CountZero ==
  ASSUME NEW rows \in Seq(Rows), NEW i
  PROVE  /\ i \notin NamedBy(rows) => WorkOf(rows, i) = 0 /\ CountOf(rows, i) = 0
         /\ i \in NamedBy(rows) => CountOf(rows, i) > 0
  <1>1. \A k \in 1..Len(rows) : rows[k] \in Rows
    BY LenProperties, ElementOfSeq
  <1>0. \A f \in [Rows -> Nat] : SumBy(f, rows) = 0 <=> \A k \in 1..Len(rows) : f[rows[k]] = 0
    BY ByZero
  <1>2. SumBy(WorkFor(i), rows) = 0 <=> \A k \in 1..Len(rows) : WorkFor(i)[rows[k]] = 0
    BY <1>0, Weights, Zenon
  <1>3. SumBy(RowsFor(i), rows) = 0 <=> \A k \in 1..Len(rows) : RowsFor(i)[rows[k]] = 0
    BY <1>0, Weights, Zenon
  <1>4. \A k \in 1..Len(rows) : rows[k].ident # i => WorkFor(i)[rows[k]] = 0
    BY <1>1 DEF WorkFor
  <1>5. \A k \in 1..Len(rows) : RowsFor(i)[rows[k]] = IF rows[k].ident = i THEN 1 ELSE 0
    BY <1>1 DEF RowsFor
  <1>6. CountOf(rows, i) = 0 <=> i \notin NamedBy(rows)
    BY <1>3, <1>5, SumsBy DEF NamedBy
  <1>7. i \notin NamedBy(rows) => WorkOf(rows, i) = 0
    BY <1>2, <1>4, SumsBy DEF NamedBy
  <1> QED
    BY <1>6, <1>7, SumsNat

\* The running totals that rows call for, and the window that holds them.
TotalsFor(rows) ==
    [i \in NamedBy(rows) |-> [work |-> WorkOf(rows, i), rows |-> CountOf(rows, i)]]

WinOf(ids, rows, t) ==
    [idents |-> ids, credits |-> rows, totals |-> TotalsFor(rows),
     total_work |-> SumWork(rows), target_work |-> t]

\* push_raw keeps the totals up to date.
LEMMA PushIs ==
  ASSUME NEW ids, NEW rows \in Seq(Rows), NEW t, NEW r \in Rows
  PROVE  PushRaw(WinOf(ids, rows, t), r) = WinOf(ids, Append(rows, r), t)
  <1> DEFINE w == WinOf(ids, rows, t)
             all == Append(rows, r)
             old == IF r.ident \in NamedBy(rows) THEN TotalsFor(rows)[r.ident]
                    ELSE [work |-> 0, rows |-> 0]
             new == [work |-> old.work + r.work, rows |-> old.rows + 1]
             after == [i \in NamedBy(rows) \cup {r.ident} |->
                         IF i = r.ident THEN new ELSE TotalsFor(rows)[i]]
  <1>1. old = [work |-> WorkOf(rows, r.ident), rows |-> CountOf(rows, r.ident)]
    BY CountZero DEF TotalsFor
  <1>2. new = [work |-> WorkOf(all, r.ident), rows |-> CountOf(all, r.ident)]
    BY <1>1, SumsAppend
  <1>3. NamedBy(all) = NamedBy(rows) \cup {r.ident}
    <2>1. Len(rows) \in Nat /\ Len(all) = Len(rows) + 1
      BY LenProperties, AppendProperties
    <2>2. all[Len(rows) + 1] = r /\ \A k \in 1..Len(rows) : all[k] = rows[k]
      BY AppendProperties
    <2>3. \A k \in 1..Len(all) : k \in 1..Len(rows) \/ k = Len(rows) + 1
      BY <2>1
    <2>4. \A k \in 1..Len(rows) : k \in 1..Len(all)
      BY <2>1
    <2>5. Len(rows) + 1 \in 1..Len(all)
      BY <2>1
    <2> HIDE DEF all
    <2> QED
      BY <2>2, <2>3, <2>4, <2>5 DEF NamedBy
  <1>4. \A i \in NamedBy(rows) : i # r.ident
           => TotalsFor(rows)[i] = [work |-> WorkOf(all, i), rows |-> CountOf(all, i)]
    <2> TAKE i \in NamedBy(rows)
    <2> HAVE i # r.ident
    <2>1. WorkOf(all, i) = WorkOf(rows, i) + 0 /\ CountOf(all, i) = CountOf(rows, i) + 0
      BY SumsAppend
    <2>2. WorkOf(rows, i) \in Nat /\ CountOf(rows, i) \in Nat
      BY SumsNat
    <2> QED
      BY <2>1, <2>2 DEF TotalsFor
  <1> HIDE DEF new
  <1>5. after = TotalsFor(all)
    BY <1>2, <1>3, <1>4, Zenon DEF TotalsFor
  <1>6. DOMAIN TotalsFor(rows) = NamedBy(rows)
    BY DEF TotalsFor
  <1>7. SumWork(all) = SumWork(rows) + r.work
    BY SumsAppend
  <1>8. PushRaw(w, r) = [w EXCEPT !.credits = Append(rows, r),
                                  !.total_work = SumWork(rows) + r.work,
                                  !.totals = after]
    BY <1>6 DEF PushRaw, WinOf, new
  <1> HIDE DEF after
  <1>9. PushRaw(w, r) = [idents |-> ids, credits |-> Append(rows, r), totals |-> after,
                         total_work |-> SumWork(rows) + r.work, target_work |-> t]
    BY <1>8 DEF WinOf
  <1> QED
    BY <1>5, <1>7, <1>9, Zenon DEF WinOf

\* Dropping the first n rows leaves the target t covered, or n is 0, and
\* dropping any more would not: what trim drops.
Trimmed(rows, t, n) ==
    /\ t = 0 => n = 0
    /\ n # 0 => SumWork(SubSeq(rows, n + 1, Len(rows))) >= t
    /\ t # 0 => \A k \in (n + 1)..Len(rows) : SumWork(SubSeq(rows, k + 1, Len(rows))) < t

\* Only one number of rows can be dropped so.
LEMMA TrimmedOnce ==
  ASSUME NEW rows, Len(rows) \in Nat, NEW t,
         NEW n \in 0..Len(rows), NEW m \in 0..Len(rows),
         Trimmed(rows, t, n), Trimmed(rows, t, m),
         \A k \in 0..Len(rows) : SumWork(SubSeq(rows, k + 1, Len(rows))) \in Nat, t \in Nat
  PROVE  n = m
  <1>1. SUFFICES ASSUME n < m \/ m < n PROVE FALSE
    OBVIOUS
  <1>2. CASE n < m
    BY <1>2 DEF Trimmed
  <1>3. CASE m < n
    BY <1>3 DEF Trimmed
  <1> QED
    BY <1>1, <1>2, <1>3

\* Window::trim drops just so many rows and keeps the totals up to date.
LEMMA TrimIs ==
  ASSUME NEW ids, NEW rows \in Seq(Rows), NEW t \in Nat
  PROVE  \E n \in 0..Len(rows) :
            /\ Trimmed(rows, t, n)
            /\ Trim(WinOf(ids, rows, t)) = WinOf(ids, SubSeq(rows, n + 1, Len(rows)), t)
  <1> DEFINE w == WinOf(ids, rows, t)
             Rest(k) == SubSeq(rows, k + 1, Len(rows))
             Gone(k) == SubSeq(rows, 1, k)
  <1>1. Len(rows) \in Nat
    BY LenProperties
  <1>2. \A k \in 0..Len(rows) : Rest(k) \in Seq(Rows) /\ Gone(k) \in Seq(Rows)
    OBVIOUS
  <1>3. \A k \in 0..Len(rows) : /\ SumWork(rows) = SumWork(Gone(k)) + SumWork(Rest(k))
                                /\ SumWork(Gone(k)) \in Nat /\ SumWork(Rest(k)) \in Nat
    BY <1>2, SumsParts, SumsNat
  <1>4. CASE t = 0
    <2>1. Trim(w) = w
      BY <1>4 DEF Trim, WinOf
    <2>2. Rest(0) = rows
      BY SubSeqFull
    <2>3. Trimmed(rows, t, 0) /\ 0 \in 0..Len(rows)
      BY <1>1, <1>4 DEF Trimmed
    <2> QED
      BY <2>1, <2>2, <2>3
  <1>5. CASE t # 0
    <2> DEFINE may == {k \in 0..Len(rows) : k = 0 \/ SumWork(rows) - SumWork(Gone(k)) >= t}
               n == TrimCount(w)
    <2>1. n = Max(may)
      BY DEF TrimCount, WinOf
    <2>2. n \in may /\ \A k \in may : n >= k
      <3>1. \E m \in may : \A k \in may : m >= k
        <4> DEFINE T == {Len(rows) - k : k \in may}
        <4>1. T \in SUBSET Nat /\ T # {}
          <5>1. 0 \in may
            BY <1>1
          <5> QED
            BY <5>1, <1>1
        <4>2. PICK d \in T : \A e \in T : d <= e
          BY <4>1, LeastOf
        <4>3. PICK m \in may : d = Len(rows) - m
          BY <4>2
        <4>4. \A k \in may : Len(rows) - k \in T
          OBVIOUS
        <4>5. \A k \in may : k \in Nat
          BY <1>1
        <4> HIDE DEF T, may
        <4>6. \A k \in may : m >= k
          <5> TAKE k \in may
          <5>1. d <= Len(rows) - k
            BY <4>2, <4>4
          <5> QED
            BY <1>1, <4>3, <4>5, <5>1
        <4> QED
          BY <4>6
      <3> HIDE DEF may
      <3> QED
        BY <2>1, <3>1 DEF Max
    <2> HIDE DEF n
    <2>3. n \in 0..Len(rows) /\ (n # 0 => SumWork(Rest(n)) >= t)
      BY <1>3, <2>2
    <2>4. \A k \in (n + 1)..Len(rows) : SumWork(Rest(k)) < t
      <3> TAKE k \in (n + 1)..Len(rows)
      <3>1. k \in 0..Len(rows) /\ k # 0 /\ ~(n >= k)
        BY <1>1, <2>3
      <3>2. ~(SumWork(rows) - SumWork(Gone(k)) >= t)
        BY <2>2, <3>1
      <3> QED
        BY <1>3, <3>1, <3>2
    <2>5. Trimmed(rows, t, n)
      BY <1>5, <2>3, <2>4 DEF Trimmed
    <2> DEFINE gone == Gone(n)
               rest == Rest(n)
    <2>6. gone \in Seq(Rows) /\ rest \in Seq(Rows) /\ SumWork(rows) - SumWork(gone) = SumWork(rest)
      BY <1>2, <1>3, <2>3
    <2>7. \A i : /\ WorkOf(rows, i) - WorkOf(gone, i) = WorkOf(rest, i)
                 /\ CountOf(rows, i) - CountOf(gone, i) = CountOf(rest, i)
      <3> TAKE i
      <3>1. /\ WorkOf(rows, i) = WorkOf(gone, i) + WorkOf(rest, i)
            /\ CountOf(rows, i) = CountOf(gone, i) + CountOf(rest, i)
        BY <2>3, SumsParts
      <3>2. /\ WorkOf(gone, i) \in Nat /\ WorkOf(rest, i) \in Nat
            /\ CountOf(gone, i) \in Nat /\ CountOf(rest, i) \in Nat
        BY <2>6, SumsNat
      <3> HIDE DEF gone, rest
      <3> QED
        BY <3>1, <3>2
    <2>8. \A k \in 1..Len(rest) : \E j \in 1..Len(rows) : rest[k] = rows[j]
      <3>1. Len(rest) = Len(rows) - n /\ \A k \in 1..(Len(rows) - n) : rest[k] = rows[n + k]
        BY <2>3, <1>1
      <3> QED
        BY <3>1, <2>3, <1>1
    <2> HIDE DEF gone, rest
    <2>9. NamedBy(rest) = {j \in NamedBy(rows) : CountOf(rest, j) > 0}
      <3>1. NamedBy(rest) \subseteq NamedBy(rows)
        BY <2>8 DEF NamedBy
      <3> QED
        BY <3>1, <2>6, CountZero
    <2>10. TotalsWithout(TotalsFor(rows), gone) = TotalsFor(rest)
      <3> DEFINE T == TotalsFor(rows)
                 left(i) == [work |-> T[i].work - WorkOf(gone, i),
                             rows |-> T[i].rows - CountOf(gone, i)]
      <3>1. \A i \in NamedBy(rows) : left(i) = [work |-> WorkOf(rest, i), rows |-> CountOf(rest, i)]
        BY <2>7 DEF TotalsFor
      <3>2. DOMAIN T = NamedBy(rows)
        BY DEF TotalsFor
      <3>3. TotalsWithout(T, gone) = [i \in {j \in DOMAIN T : left(j).rows > 0} |-> left(i)]
        BY Zenon DEF TotalsWithout
      <3> HIDE DEF T, left
      <3>4. {j \in DOMAIN T : left(j).rows > 0} = NamedBy(rest)
        BY <2>9, <3>1, <3>2
      <3>5. \A i \in NamedBy(rest) : left(i) = [work |-> WorkOf(rest, i), rows |-> CountOf(rest, i)]
        BY <2>9, <3>1
      <3>6. TotalsWithout(T, gone) = TotalsFor(rest)
        BY <3>3, <3>4, <3>5, Zenon DEF TotalsFor
      <3> QED
        BY <3>6 DEF T
    <2>11. Trim(w) = [w EXCEPT !.credits = SubSeq(@, n + 1, Len(@)),
                              !.total_work = @ - SumWork(gone),
                              !.totals = TotalsWithout(@, gone)]
      <3>1. w.target_work = t /\ w.credits = rows
        BY DEF WinOf
      <3> HIDE DEF w
      <3> QED
        BY <3>1, <1>5 DEF Trim, n, gone
    <2>12. Trim(w) = WinOf(ids, rest, t)
      <3>1. SubSeq(rows, n + 1, Len(rows)) = rest
        BY DEF rest
      <3> QED
        BY <3>1, <2>6, <2>10, <2>11 DEF WinOf
    <2> QED
      BY <2>3, <2>5, <2>12 DEF rest
  <1> QED
    BY <1>4, <1>5

-----------------------------------------------------------------------------
(* The identity table *)

Distinct(s) == \A j, k \in 1..Len(s) : s[j] = s[k] => j = k

\* Window::intern keeps a list of identities.
LEMMA InternType ==
  ASSUME NEW s \in Seq(Idents), NEW x \in Idents
  PROVE  Intern(s, x) \in Seq(Idents)
  BY AppendProperties DEF Intern

\* Interning gives x a place and keeps identities apart.
LEMMA InternKeeps ==
  ASSUME NEW s \in Seq(Idents), NEW x \in Idents
  PROVE  /\ Distinct(s) => Distinct(Intern(s, x))
         /\ IndexOf(Intern(s, x), x) \in 1..Len(Intern(s, x))
         /\ Intern(s, x)[IndexOf(Intern(s, x), x)] = x
  <1> DEFINE t == Intern(s, x)
  <1>1. CASE Contains(s, x)
    <2>1. t = s
      BY <1>1 DEF Intern
    <2>2. \E i \in 1..Len(t) : t[i] = x
      BY <1>1, <2>1 DEF Contains
    <2>3. DOMAIN t = 1..Len(t)
      BY <2>1, LenProperties
    <2> HIDE DEF t
    <2>4. IndexOf(t, x) \in 1..Len(t) /\ t[IndexOf(t, x)] = x
      BY <2>2, <2>3 DEF IndexOf
    <2> QED
      BY <2>1, <2>4 DEF t
  <1>2. CASE ~Contains(s, x)
    <2>1. t = Append(s, x)
      BY <1>2 DEF Intern
    <2>2. Len(s) \in Nat /\ Len(t) = Len(s) + 1 /\ t \in Seq(Idents)
      BY <2>1, LenProperties, AppendProperties
    <2>3. t[Len(s) + 1] = x /\ \A k \in 1..Len(s) : t[k] = s[k]
      BY <2>1, AppendProperties
    <2>4. \A k \in 1..Len(s) : s[k] # x
      BY <1>2 DEF Contains
    <2>5. DOMAIN t = 1..Len(t)
      BY <2>2, LenProperties
    <2> HIDE DEF t
    <2>6. Distinct(s) => Distinct(t)
      BY <2>2, <2>3, <2>4 DEF Distinct
    <2>7. \E i \in 1..Len(t) : t[i] = x
      BY <2>2, <2>3
    <2>8. IndexOf(t, x) \in 1..Len(t) /\ t[IndexOf(t, x)] = x
      BY <2>5, <2>7 DEF IndexOf
    <2> QED
      BY <2>6, <2>8 DEF t
  <1> QED
    BY <1>1, <1>2

Interning == [x \in Idents |-> [v \in Seq(Idents) |-> Intern(v, x)]]

\* Reading the identity file is a loop on lists of identities.
LEMMA InterningLoop == Loop(Idents, Seq(Idents), << >>, Interning)
  BY InternType DEF Loop, Interning

\* TableOf is what that loop leaves behind.
LEMMA TableRun ==
  ASSUME NEW s \in Seq(Idents)
  PROVE  TableOf(s) \in Results(s, Seq(Idents), << >>, Interning)
  <1> DEFINE n == Len(s)
             Rec(g) == g = [k \in 0..n |-> IF k = 0 THEN << >> ELSE Intern(g[k - 1], s[k])]
             read == CHOOSE g : Rec(g)
             V == Seq(Idents)
             a == << >>
  <1>1. n \in Nat /\ \A k \in 1..n : s[k] \in Idents
    BY LenProperties, ElementOfSeq
  <1>2. TableOf(s) = read[n]
    BY DEF TableOf
  <1>3. \A k \in 1..n, v \in V : Interning[s[k]][v] = Intern(v, s[k])
    BY <1>1 DEF Interning
  <1>4. PICK h : h \in Runs(s, V, a, Interning)
    BY InterningLoop, RunExists
  <1>5. /\ h \in [0..n -> V] /\ h[0] = a
        /\ \A k \in 1..n : h[k] = Interning[s[k]][h[k - 1]]
    BY <1>4 DEF Runs
  <1> HIDE DEF n, read, V
  <1>6. \A k \in 1..n : h[k] = Intern(h[k - 1], s[k])
    <2> TAKE k \in 1..n
    <2>1. k - 1 \in 0..n
      BY <1>1
    <2>2. h[k - 1] \in V
      BY <2>1, <1>5
    <2> QED
      BY <2>2, <1>3, <1>5
  <1>7. Rec(h)
    BY <1>1, <1>5, <1>6
  <1>8. Rec(read)
    BY <1>7 DEF read
  <1>9. read = [k \in 0..n |-> read[k]]
    BY <1>8
  <1>10. read[0] = << >> /\ \A k \in 1..n : read[k] = Intern(read[k - 1], s[k])
    BY <1>1, <1>8
  <1>11. \A k \in 1..n : read[k - 1] \in V => read[k] = Interning[s[k]][read[k - 1]]
    BY <1>3, <1>10
  <1>12. Follows(read, s, V, << >>, Interning)
    BY <1>9, <1>10, <1>11 DEF Follows, n
  <1>13. read \in Runs(s, V, << >>, Interning)
    BY <1>12, InterningLoop, RunIs DEF V
  <1> QED
    BY <1>2, <1>13 DEF Results, n, V

\* The table is a list of identities.
LEMMA TableType ==
  ASSUME NEW s \in Seq(Idents)
  PROVE  TableOf(s) \in Seq(Idents)
  BY TableRun, InterningLoop, ResultIn

\* Lines that are all different are the table.
LEMMA TableIs ==
  ASSUME NEW s \in Seq(Idents), Distinct(s)
  PROVE  TableOf(s) = s
  <1> DEFINE T == {r \in Seq(Idents) : Distinct(r) => TableOf(r) = r}
  <1>1. << >> \in T
    <2>1. << >> \in Seq(Idents)
      OBVIOUS
    <2>2. TableOf(<< >>) \in Results(<< >>, Seq(Idents), << >>, Interning)
      BY <2>1, TableRun
    <2>3. TableOf(<< >>) = << >>
      BY <2>1, <2>2, ResultEmpty
    <2> QED
      BY <2>1, <2>3
  <1>2. ASSUME NEW r \in Seq(Idents), NEW x \in Idents, r \in T PROVE Append(r, x) \in T
    <2> DEFINE t == Append(r, x)
    <2>1. t \in Seq(Idents) /\ Len(t) = Len(r) + 1 /\ Len(r) \in Nat
      BY AppendProperties, LenProperties
    <2>2. t[Len(r) + 1] = x /\ \A k \in 1..Len(r) : t[k] = r[k]
      BY AppendProperties
    <2>3. TableOf(r) \in Results(r, Seq(Idents), << >>, Interning)
      BY TableRun
    <2>4. TableOf(t) \in Results(Append(r, x), Seq(Idents), << >>, Interning)
      BY <2>1, TableRun
    <2>5. TableOf(t) = Interning[x][TableOf(r)]
      BY <2>3, <2>4, InterningLoop, ResultAppend
    <2>6. TableOf(t) = Intern(TableOf(r), x)
      BY <2>5, TableType DEF Interning
    <2>7. ASSUME Distinct(t) PROVE TableOf(t) = t
      <3>1. Distinct(r) /\ ~Contains(r, x)
        <4> HIDE DEF t
        <4> QED
          BY <2>1, <2>2, <2>7 DEF Distinct, Contains
      <3>2. TableOf(r) = r
        BY <1>2, <3>1
      <3> QED
        BY <2>6, <3>1, <3>2 DEF Intern
    <2> QED
      BY <2>1, <2>7
  <1>3. \A r \in Seq(Idents), x \in Idents : r \in T => Append(r, x) \in T
    BY <1>2
  <1> HIDE DEF T
  <1>4. \A r \in Seq(Idents) : r \in T
    BY <1>1, <1>3, SeqInduct
  <1> QED
    BY <1>4 DEF T

-----------------------------------------------------------------------------
(* Replaying the rows *)

\* Windows over the table ids that have no target yet.
Untrimmed(ids) == {WinOf(ids, rows, 0) : rows \in Seq(Rows)}

Reading(ids) ==
    [r \in Rows |-> [w \in Untrimmed(ids) |->
        IF Readable(r, w.idents) THEN PushRaw(w, r) ELSE w]]

\* The window Ledger::open starts from.
LEMMA EmptyIs ==
  ASSUME NEW ids
  PROVE  [EmptyWindow EXCEPT !.idents = ids] = WinOf(ids, << >>, 0)
  <1>1. NamedBy(<< >>) = {}
    BY DEF NamedBy
  <1>2. TotalsFor(<< >>) = << >>
    BY <1>1 DEF TotalsFor
  <1>3. SumWork(<< >>) = 0
    BY SumsEmpty
  <1> QED
    BY <1>2, <1>3 DEF EmptyWindow, WinOf

\* Reading the rows file is a loop on untrimmed windows.
LEMMA ReadingLoop ==
  ASSUME NEW ids
  PROVE  Loop(Rows, Untrimmed(ids), WinOf(ids, << >>, 0), Reading(ids))
  <1>1. WinOf(ids, << >>, 0) \in Untrimmed(ids)
    BY EmptySeq DEF Untrimmed
  <1>2. ASSUME NEW r \in Rows, NEW w \in Untrimmed(ids) PROVE PushRaw(w, r) \in Untrimmed(ids)
    <2>1. PICK rows \in Seq(Rows) : w = WinOf(ids, rows, 0)
      BY DEF Untrimmed
    <2>2. PushRaw(w, r) = WinOf(ids, Append(rows, r), 0) /\ Append(rows, r) \in Seq(Rows)
      BY <2>1, PushIs, AppendProperties
    <2> QED
      BY <2>2 DEF Untrimmed
  <1> QED
    BY <1>1, <1>2 DEF Loop, Reading

\* Loaded is what that loop leaves behind.
LEMMA LoadedRun ==
  ASSUME NEW cf \in Seq(Rows), NEW idf
  PROVE  Loaded(cf, idf) \in Results(cf, Untrimmed(TableOf(idf)),
                                     WinOf(TableOf(idf), << >>, 0), Reading(TableOf(idf)))
  <1> DEFINE n == Len(cf)
             ids == TableOf(idf)
             a == WinOf(ids, << >>, 0)
             V == Untrimmed(ids)
             op == Reading(ids)
             Turn(w, r) == IF Readable(r, w.idents) THEN PushRaw(w, r) ELSE w
             Rec(g) == g = [k \in 0..n |-> IF k = 0 THEN [EmptyWindow EXCEPT !.idents = ids]
                                           ELSE Turn(g[k - 1], cf[k])]
             read == CHOOSE g : Rec(g)
  <1>1. n \in Nat /\ \A k \in 1..n : cf[k] \in Rows
    BY LenProperties, ElementOfSeq
  <1>2. Loaded(cf, idf) = read[n]
    BY Zenon DEF Loaded
  <1>3. \A k \in 1..n, v \in V : op[cf[k]][v] = Turn(v, cf[k])
    BY <1>1 DEF Reading
  <1>4. Loop(Rows, V, a, op) /\ [EmptyWindow EXCEPT !.idents = ids] = a
    BY ReadingLoop, EmptyIs
  <1> HIDE DEF n, read, V, a, op, ids, Turn
  <1>5. PICK h : h \in Runs(cf, V, a, op)
    BY <1>4, RunExists
  <1>6. /\ h \in [0..n -> V] /\ h[0] = a
        /\ \A k \in 1..n : h[k] = op[cf[k]][h[k - 1]]
    BY <1>5 DEF Runs, n
  <1>7. \A k \in 1..n : h[k] = Turn(h[k - 1], cf[k])
    <2> TAKE k \in 1..n
    <2>1. k - 1 \in 0..n
      BY <1>1
    <2>2. h[k - 1] \in V
      BY <2>1, <1>6
    <2> QED
      BY <2>2, <1>3, <1>6
  <1>8. Rec(h)
    BY <1>1, <1>4, <1>6, <1>7
  <1>9. Rec(read)
    BY <1>8 DEF read
  <1>10. read = [k \in 0..n |-> read[k]]
    BY <1>9
  <1>11. read[0] = a /\ \A k \in 1..n : read[k] = Turn(read[k - 1], cf[k])
    <2> DEFINE first == [EmptyWindow EXCEPT !.idents = ids]
    <2>1. read = [k \in 0..n |-> IF k = 0 THEN first ELSE Turn(read[k - 1], cf[k])]
      BY <1>9, Zenon
    <2>2. first = a
      BY <1>4
    <2> HIDE DEF first
    <2>3. \A k \in 0..n : read[k] = IF k = 0 THEN first ELSE Turn(read[k - 1], cf[k])
      BY <2>1, Zenon
    <2>4. 0 \in 0..n /\ \A k \in 1..n : k \in 0..n /\ k # 0
      BY <1>1
    <2> QED
      BY <2>2, <2>3, <2>4
  <1>12. \A k \in 1..n : read[k - 1] \in V => read[k] = op[cf[k]][read[k - 1]]
    BY <1>3, <1>11
  <1>13. Follows(read, cf, V, a, op)
    BY <1>10, <1>11, <1>12 DEF Follows, n
  <1>14. read \in Runs(cf, V, a, op)
    BY <1>4, <1>13, RunIs
  <1> QED
    BY <1>2, <1>14 DEF Results, n, V, a, op, ids

\* Whatever the files hold, what is read is a window with exact totals.
LEMMA LoadedSome ==
  ASSUME NEW cf \in Seq(Rows), NEW idf
  PROVE  \E rows \in Seq(Rows) : Loaded(cf, idf) = WinOf(TableOf(idf), rows, 0)
  <1>1. Loaded(cf, idf) \in Untrimmed(TableOf(idf))
    BY LoadedRun, ReadingLoop, ResultIn
  <1> QED
    BY <1>1 DEF Untrimmed

\* Each row names its owner in the table.
Named(rows, ids) ==
    \A k \in 1..Len(rows) : /\ rows[k].ident \in 1..Len(ids)
                            /\ ids[rows[k].ident] = rows[k].owner

\* Then every row is read.
LEMMA LoadedAll ==
  ASSUME NEW cf \in Seq(Rows), NEW idf \in Seq(Idents), Named(cf, TableOf(idf))
  PROVE  Loaded(cf, idf) = WinOf(TableOf(idf), cf, 0)
  <1> DEFINE ids == TableOf(idf)
             a == WinOf(ids, << >>, 0)
             V == Untrimmed(ids)
             op == Reading(ids)
             T == {rows \in Seq(Rows) : Named(rows, ids) => Loaded(rows, idf) = WinOf(ids, rows, 0)}
  <1>1. Loop(Rows, V, a, op)
    BY ReadingLoop
  <1>2. \A rows \in Seq(Rows) : Loaded(rows, idf) \in Results(rows, V, a, op)
    BY LoadedRun
  <1>3. Len(ids) \in Nat
    BY TableType, LenProperties
  <1> HIDE DEF ids, V, op
  <1>4. << >> \in T
    <2>1. << >> \in Seq(Rows)
      BY EmptySeq
    <2>2. Loaded(<< >>, idf) = a
      <3> HIDE DEF a
      <3>1. a \in V
        BY <1>1 DEF Loop
      <3> QED
        BY <1>2, <2>1, <3>1, ResultEmpty
    <2> QED
      BY <2>1, <2>2
  <1>5. ASSUME NEW rows \in Seq(Rows), NEW r \in Rows, rows \in T PROVE Append(rows, r) \in T
    <2> DEFINE t == Append(rows, r)
    <2>1. t \in Seq(Rows) /\ Len(t) = Len(rows) + 1 /\ Len(rows) \in Nat
      BY AppendProperties, LenProperties
    <2>2. t[Len(rows) + 1] = r /\ \A k \in 1..Len(rows) : t[k] = rows[k]
      BY AppendProperties
    <2>3. ASSUME Named(t, ids) PROVE Loaded(t, idf) = WinOf(ids, t, 0)
      <3>1. Loaded(t, idf) = op[r][Loaded(rows, idf)]
        <4>1. Loaded(t, idf) \in Results(Append(rows, r), V, a, op)
          BY <1>2, <2>1
        <4>2. Loaded(rows, idf) \in Results(rows, V, a, op)
          BY <1>2
        <4> HIDE DEF a, t
        <4> QED
          BY <1>1, <4>1, <4>2, ResultAppend
      <3>2. Named(rows, ids) /\ r.ident \in 1..Len(ids)
        <4> HIDE DEF t
        <4> QED
          BY <2>1, <2>2, <2>3 DEF Named
      <3>3. Loaded(rows, idf) = WinOf(ids, rows, 0)
        BY <1>5, <3>2
      <3>4. WinOf(ids, rows, 0) \in V /\ WinOf(ids, rows, 0).idents = ids
        BY DEF V, Untrimmed, WinOf
      <3>5. Readable(r, ids)
        BY <1>3, <3>2 DEF Readable
      <3>6. op[r][WinOf(ids, rows, 0)] = PushRaw(WinOf(ids, rows, 0), r)
        BY <3>4, <3>5 DEF op, Reading, V
      <3> QED
        BY <3>1, <3>3, <3>6, PushIs
    <2> QED
      BY <2>1, <2>3
  <1>6. \A rows \in Seq(Rows), r \in Rows : rows \in T => Append(rows, r) \in T
    BY <1>5
  <1> HIDE DEF T
  <1>7. \A rows \in Seq(Rows) : rows \in T
    BY <1>4, <1>6, SeqInduct
  <1>8. Named(cf, ids)
    BY DEF ids
  <1> QED
    BY <1>7, <1>8 DEF T, ids

\* Ledger::open on files whose lines are all different and whose rows are well
\* named: the window over the rows left when what trim drops is dropped.
LEMMA ReplayIs ==
  ASSUME NEW cf \in Seq(Rows), NEW idf \in Seq(Idents), Distinct(idf), Named(cf, idf),
         NEW m, m.target_work \in Nat
  PROVE  /\ Len(Loaded(cf, idf).credits) = Len(cf)
         /\ \E n \in 0..Len(cf) :
               /\ Trimmed(cf, m.target_work, n)
               /\ Replay(cf, idf, m)
                    = WinOf(idf, SubSeq(cf, n + 1, Len(cf)), m.target_work)
  <1>1. TableOf(idf) = idf
    BY TableIs
  <1>2. Loaded(cf, idf) = WinOf(idf, cf, 0)
    BY <1>1, LoadedAll
  <1>3. Replay(cf, idf, m) = Trim(WinOf(idf, cf, m.target_work))
    <2>1. [WinOf(idf, cf, 0) EXCEPT !.target_work = m.target_work]
             = WinOf(idf, cf, m.target_work)
      BY DEF WinOf
    <2> QED
      BY <1>2, <2>1 DEF Replay, SetWindowTarget
  <1>4. Loaded(cf, idf).credits = cf
    BY <1>2 DEF WinOf
  <1>5. \E n \in 0..Len(cf) :
            /\ Trimmed(cf, m.target_work, n)
            /\ Trim(WinOf(idf, cf, m.target_work))
                 = WinOf(idf, SubSeq(cf, n + 1, Len(cf)), m.target_work)
    BY TrimIs
  <1> QED
    BY <1>3, <1>4, <1>5

\* Rests of a sequence.
LEMMA RestProperties ==
  ASSUME NEW S, NEW s \in Seq(S), NEW n \in 0..Len(s)
  PROVE  /\ SubSeq(s, n + 1, Len(s)) \in Seq(S)
         /\ Len(SubSeq(s, n + 1, Len(s))) = Len(s) - n
         /\ \A k \in 1..(Len(s) - n) : SubSeq(s, n + 1, Len(s))[k] = s[n + k]
  OBVIOUS

\* The first rows of a sequence.
LEMMA FirstProperties ==
  ASSUME NEW S, NEW s \in Seq(S), NEW n \in 0..Len(s)
  PROVE  /\ SubSeq(s, 1, n) \in Seq(S)
         /\ Len(SubSeq(s, 1, n)) = n
         /\ \A k \in 1..n : SubSeq(s, 1, n)[k] = s[k]
  OBVIOUS

\* A rest of a rest is a rest.
LEMMA RestOfRest ==
  ASSUME NEW S, NEW s \in Seq(S), NEW n \in 0..Len(s), NEW k \in 0..(Len(s) - n)
  PROVE  SubSeq(SubSeq(s, n + 1, Len(s)), k + 1, Len(s) - n) = SubSeq(s, n + k + 1, Len(s))
  <1> DEFINE r == SubSeq(s, n + 1, Len(s))
             p == SubSeq(r, k + 1, Len(s) - n)
             q == SubSeq(s, n + k + 1, Len(s))
  <1>1. Len(s) \in Nat
    BY LenProperties
  <1>2. r \in Seq(S) /\ Len(r) = Len(s) - n /\ \A j \in 1..(Len(s) - n) : r[j] = s[n + j]
    BY RestProperties
  <1>3. n + k \in 0..Len(s) /\ k \in 0..Len(r)
    BY <1>1, <1>2
  <1>4. /\ q \in Seq(S) /\ Len(q) = Len(s) - (n + k)
        /\ \A j \in 1..(Len(s) - (n + k)) : q[j] = s[(n + k) + j]
    BY <1>3, RestProperties
  <1> HIDE DEF r
  <1>5. p \in Seq(S) /\ Len(p) = Len(r) - k /\ \A j \in 1..(Len(r) - k) : p[j] = r[k + j]
    <2>1. p = SubSeq(r, k + 1, Len(r))
      BY <1>2
    <2> HIDE DEF p
    <2> QED
      BY <1>2, <1>3, <2>1, RestProperties
  <1> HIDE DEF p, q
  <1>6. Len(p) = Len(q)
    BY <1>1, <1>2, <1>4, <1>5
  <1>7. \A j \in 1..Len(p) : p[j] = q[j]
    <2> TAKE j \in 1..Len(p)
    <2>1. j \in 1..(Len(r) - k) /\ j \in 1..(Len(s) - (n + k)) /\ k + j \in 1..(Len(s) - n)
      BY <1>1, <1>2, <1>5
    <2>2. p[j] = s[n + (k + j)]
      BY <1>2, <1>5, <2>1
    <2>3. q[j] = s[(n + k) + j]
      BY <1>4, <2>1
    <2>4. n + (k + j) = (n + k) + j
      BY <1>1, <2>1
    <2> QED
      BY <2>2, <2>3, <2>4
  <1> QED
    BY <1>4, <1>5, <1>6, <1>7, SeqEqual DEF p, q, r

\* Taking off the last k of all rows leaves work that is a number.
LEMMA RestNat ==
  ASSUME NEW rows \in Seq(Rows)
  PROVE  \A k \in 0..Len(rows) : SumWork(SubSeq(rows, k + 1, Len(rows))) \in Nat
  <1> TAKE k \in 0..Len(rows)
  <1>1. SubSeq(rows, k + 1, Len(rows)) \in Seq(Rows)
    BY RestProperties
  <1> QED
    BY <1>1, SumsNat

\* What trim leaves it would leave again.
LEMMA TrimmedRest ==
  ASSUME NEW rows \in Seq(Rows), NEW t \in Nat, NEW n \in 0..Len(rows), Trimmed(rows, t, n)
  PROVE  Trimmed(SubSeq(rows, n + 1, Len(rows)), t, 0)
  <1> DEFINE r == SubSeq(rows, n + 1, Len(rows))
  <1>1. Len(rows) \in Nat
    BY LenProperties
  <1>2. Len(r) = Len(rows) - n
    BY RestProperties
  <1>3. ASSUME t # 0, NEW k \in (0 + 1)..Len(r) PROVE SumWork(SubSeq(r, k + 1, Len(r))) < t
    <2>1. k \in 0..(Len(rows) - n) /\ n + k \in (n + 1)..Len(rows)
      BY <1>1, <1>2, <1>3
    <2>2. SubSeq(r, k + 1, Len(r)) = SubSeq(rows, (n + k) + 1, Len(rows))
      BY <1>2, <2>1, RestOfRest
    <2>3. SumWork(SubSeq(rows, (n + k) + 1, Len(rows))) < t
      BY <1>3, <2>1 DEF Trimmed
    <2> QED
      BY <2>2, <2>3
  <1> HIDE DEF r
  <1>4. Trimmed(r, t, 0)
    BY <1>3 DEF Trimmed
  <1> QED
    BY <1>4 DEF r

-----------------------------------------------------------------------------
(* Windows the ledger may hold *)

GoodWindow(w) ==
    \E ids \in Seq(Idents), rows \in Seq(Rows), t \in Targets \cup {0} :
        w = WinOf(ids, rows, t) /\ Trimmed(rows, t, 0)

\* A target is a natural.
LEMMA TargetNat == \A t \in Targets \cup {0} : t \in Nat
  BY LedgerAssumption

\* What a good window is made of.
LEMMA GoodParts ==
  ASSUME NEW w, GoodWindow(w)
  PROVE  /\ w.idents \in Seq(Idents) /\ w.credits \in Seq(Rows)
         /\ w.target_work \in Targets \cup {0} /\ w.target_work \in Nat
         /\ w.total_work \in Nat
         /\ w = WinOf(w.idents, w.credits, w.target_work)
         /\ Trimmed(w.credits, w.target_work, 0)
  <1>1. PICK ids \in Seq(Idents), rows \in Seq(Rows), t \in Targets \cup {0} :
           w = WinOf(ids, rows, t) /\ Trimmed(rows, t, 0)
    BY DEF GoodWindow
  <1>2. w.idents = ids /\ w.credits = rows /\ w.target_work = t /\ w.total_work = SumWork(rows)
    BY <1>1 DEF WinOf
  <1>3. SumWork(rows) \in Nat /\ t \in Nat
    BY SumsNat, TargetNat
  <1> QED
    BY <1>1, <1>2, <1>3

\* A good window has exact totals and no row to spare.
LEMMA GoodExact ==
  ASSUME NEW w, GoodWindow(w)
  PROVE  TotalsExact(w) /\ Minimal(w)
  <1>1. PICK ids \in Seq(Idents), rows \in Seq(Rows), t \in Targets \cup {0} :
           w = WinOf(ids, rows, t) /\ Trimmed(rows, t, 0)
    BY DEF GoodWindow
  <1>2. /\ w.credits = rows /\ w.target_work = t /\ w.total_work = SumWork(rows)
        /\ w.totals = TotalsFor(rows)
    BY <1>1 DEF WinOf
  <1>3. Len(rows) \in Nat /\ DOMAIN rows = 1..Len(rows) /\ t \in Nat
    BY LenProperties, TargetNat
  <1>4. TotalsExact(w)
    <2>1. {r.ident : r \in ToSet(rows)} = NamedBy(rows)
      BY <1>3 DEF ToSet, NamedBy
    <2>2. /\ DOMAIN TotalsFor(rows) = NamedBy(rows)
          /\ \A i \in NamedBy(rows) :
                TotalsFor(rows)[i] = [work |-> WorkOf(rows, i), rows |-> CountOf(rows, i)]
      BY DEF TotalsFor
    <2> QED
      BY <1>2, <2>1, <2>2 DEF TotalsExact
  <1>5. ASSUME t > 0, rows # << >> PROVE SumWork(rows) - Head(rows).work < t
    <2>1. Len(rows) >= 1 /\ 1 \in 0..Len(rows)
      BY <1>5, <1>3, EmptySeq
    <2>2. SumWork(rows) = SumWork(SubSeq(rows, 1, 1)) + SumWork(SubSeq(rows, 1 + 1, Len(rows)))
      BY <2>1, SumsParts
    <2>3. SumWork(SubSeq(rows, 1 + 1, Len(rows))) < t
      BY <1>1, <1>3, <1>5, <2>1 DEF Trimmed
    <2>4. SumWork(SubSeq(rows, 1, 1)) = Head(rows).work
      <3> DEFINE h == Head(rows)
                 p == SubSeq(rows, 1, 1)
                 q == Append(<< >>, h)
      <3>1. h = rows[1] /\ h \in Rows
        BY <2>1, <1>3
      <3>2. p \in Seq(Rows) /\ Len(p) = 1 /\ p[1] = rows[1]
        BY <2>1, <1>3
      <3> HIDE DEF h, p
      <3>3. q \in Seq(Rows) /\ Len(q) = 1 /\ q[1] = h
        BY <3>1
      <3> HIDE DEF q
      <3>4. \A k \in 1..Len(p) : p[k] = q[k]
        BY <3>1, <3>2, <3>3
      <3>5. p = q
        BY <3>2, <3>3, <3>4, SeqEqual
      <3>6. SumWork(q) = SumWork(<< >>) + h.work
        BY <3>1, EmptySeq, SumsAppend DEF q
      <3>7. h.work \in Nat /\ SumWork(<< >>) = 0
        BY <3>1, RowFields, SumsEmpty
      <3>8. SumWork(p) = h.work
        BY <3>5, <3>6, <3>7
      <3> QED
        BY <3>8 DEF p, h
    <2>5. Head(rows).work \in Nat /\ SumWork(SubSeq(rows, 1 + 1, Len(rows))) \in Nat
      BY <2>1, <1>3, <1>5, RowFields, RestNat, HeadTailProperties
    <2> QED
      BY <2>2, <2>3, <2>4, <2>5
  <1> QED
    BY <1>2, <1>4, <1>5 DEF Minimal

\* The window of a new ledger is good.
LEMMA GoodEmpty == GoodWindow(EmptyWindow)
  <1>1. EmptyWindow = [EmptyWindow EXCEPT !.idents = << >>]
    BY DEF EmptyWindow
  <1>2. EmptyWindow = WinOf(<< >>, << >>, 0)
    BY <1>1, EmptyIs
  <1>3. Trimmed(<< >>, 0, 0)
    BY DEF Trimmed
  <1> QED
    BY <1>2, <1>3, EmptySeq DEF GoodWindow

\* A window trimmed to a target is good.
LEMMA GoodRest ==
  ASSUME NEW ids \in Seq(Idents), NEW rows \in Seq(Rows), NEW t \in Targets \cup {0},
         NEW n \in 0..Len(rows), Trimmed(rows, t, n)
  PROVE  GoodWindow(WinOf(ids, SubSeq(rows, n + 1, Len(rows)), t))
  <1>1. SubSeq(rows, n + 1, Len(rows)) \in Seq(Rows)
    BY RestProperties
  <1>2. Trimmed(SubSeq(rows, n + 1, Len(rows)), t, 0)
    BY TargetNat, TrimmedRest
  <1> QED
    BY <1>1, <1>2 DEF GoodWindow

\* Window::credit_row: the new row names who earned it.
LEMMA CreditedIs ==
  ASSUME NEW w, w.idents \in Seq(Idents), NEW i \in Idents, NEW x \in Works
  PROVE  /\ CreditedRow(w, i, x) \in Rows
         /\ CreditedRow(w, i, x).owner = i
         /\ CreditedRow(w, i, x).ident \in 1..Len(Intern(w.idents, i))
         /\ Intern(w.idents, i)[CreditedRow(w, i, x).ident] = i
  <1> DEFINE row == CreditedRow(w, i, x)
             new == Intern(w.idents, i)
  <1>1. row = [ident |-> IndexOf(new, i), work |-> x, owner |-> i]
    BY DEF CreditedRow, Row
  <1>2. new \in Seq(Idents) /\ IndexOf(new, i) \in 1..Len(new) /\ new[IndexOf(new, i)] = i
    BY InternType, InternKeeps
  <1>3. Len(new) \in Nat
    BY <1>2, LenProperties
  <1> HIDE DEF new
  <1>4. IndexOf(new, i) \in Nat \ {0}
    BY <1>2, <1>3
  <1> HIDE DEF row
  <1>5. row \in Rows /\ row.owner = i /\ row.ident \in 1..Len(new) /\ new[row.ident] = i
    BY <1>1, <1>2, <1>4 DEF Rows
  <1> QED
    BY <1>5 DEF row, new

\* What trim drops is dropped from the rows with the new one.
LEMMA CreditIs ==
  ASSUME NEW w, GoodWindow(w), NEW i \in Idents, NEW x \in Works
  PROVE  LET all == Append(w.credits, CreditedRow(w, i, x))
         IN  \E n \in 0..Len(all) :
                /\ Trimmed(all, w.target_work, n)
                /\ CreditRow(w, i, x)
                     = WinOf(Intern(w.idents, i), SubSeq(all, n + 1, Len(all)), w.target_work)
  <1> DEFINE ids == w.idents
             rows == w.credits
             t == w.target_work
             row == CreditedRow(w, i, x)
             all == Append(rows, row)
             new == Intern(ids, i)
  <1>1. /\ ids \in Seq(Idents) /\ rows \in Seq(Rows) /\ t \in Nat /\ w = WinOf(ids, rows, t)
    BY GoodParts
  <1>2. row \in Rows
    BY <1>1, CreditedIs
  <1>3. [w EXCEPT !.idents = Intern(@, i)] = WinOf(new, rows, t)
    <2> HIDE DEF ids, rows, t
    <2>1. [WinOf(ids, rows, t) EXCEPT !.idents = Intern(@, i)] = WinOf(new, rows, t)
      BY DEF WinOf
    <2> QED
      BY <1>1, <2>1
  <1>4. CreditRow(w, i, x) = Trim(PushRaw(WinOf(new, rows, t), row))
    BY <1>3 DEF CreditRow
  <1> HIDE DEF row, new, ids, rows, t
  <1>5. PushRaw(WinOf(new, rows, t), row) = WinOf(new, all, t) /\ all \in Seq(Rows)
    BY <1>1, <1>2, PushIs, AppendProperties
  <1> HIDE DEF all
  <1>6. \E n \in 0..Len(all) :
            /\ Trimmed(all, t, n)
            /\ Trim(WinOf(new, all, t)) = WinOf(new, SubSeq(all, n + 1, Len(all)), t)
    BY <1>1, <1>5, TrimIs
  <1>7. \E n \in 0..Len(all) :
            /\ Trimmed(all, t, n)
            /\ CreditRow(w, i, x) = WinOf(new, SubSeq(all, n + 1, Len(all)), t)
    BY <1>4, <1>5, <1>6
  <1> QED
    BY <1>7 DEF all, row, new, ids, rows, t

\* Window::set_target
LEMMA RetargetIs ==
  ASSUME NEW ids, NEW rows \in Seq(Rows), NEW s, NEW t \in Nat
  PROVE  \E n \in 0..Len(rows) :
            /\ Trimmed(rows, t, n)
            /\ SetWindowTarget(WinOf(ids, rows, s), t)
                 = WinOf(ids, SubSeq(rows, n + 1, Len(rows)), t)
  <1>1. [WinOf(ids, rows, s) EXCEPT !.target_work = t] = WinOf(ids, rows, t)
    BY DEF WinOf
  <1>2. SetWindowTarget(WinOf(ids, rows, s), t) = Trim(WinOf(ids, rows, t))
    BY <1>1 DEF SetWindowTarget
  <1> QED
    BY <1>2, TrimIs

\* Opening whatever the files hold gives a good window.
LEMMA ReplayGood ==
  ASSUME NEW cf \in Seq(Rows), NEW idf \in Seq(Idents), NEW m,
         m.target_work \in Targets \cup {0}
  PROVE  GoodWindow(Replay(cf, idf, m)) /\ Len(Loaded(cf, idf).credits) \in Nat
  <1>1. PICK rows \in Seq(Rows) : Loaded(cf, idf) = WinOf(TableOf(idf), rows, 0)
    BY LoadedSome
  <1>2. Loaded(cf, idf).credits = rows /\ Len(rows) \in Nat
    BY <1>1, LenProperties DEF WinOf
  <1>3. m.target_work \in Nat
    BY TargetNat
  <1>a. \A ids, s : \A u \in Nat : \E n \in 0..Len(rows) :
           /\ Trimmed(rows, u, n)
           /\ SetWindowTarget(WinOf(ids, rows, s), u)
                = WinOf(ids, SubSeq(rows, n + 1, Len(rows)), u)
    BY RetargetIs
  <1>4. PICK n \in 0..Len(rows) :
           /\ Trimmed(rows, m.target_work, n)
           /\ SetWindowTarget(WinOf(TableOf(idf), rows, 0), m.target_work)
                = WinOf(TableOf(idf), SubSeq(rows, n + 1, Len(rows)), m.target_work)
    BY <1>3, <1>a, Zenon
  <1>5. TableOf(idf) \in Seq(Idents)
    BY TableType
  <1>6. GoodWindow(WinOf(TableOf(idf), SubSeq(rows, n + 1, Len(rows)), m.target_work))
    BY <1>4, <1>5, GoodRest
  <1> QED
    BY <1>1, <1>2, <1>4, <1>6 DEF Replay

-----------------------------------------------------------------------------
(* Any ledger: types and the window's sums *)

Metas == [target_work : Targets \cup {0}, lifetime : 0..MaxShares]

\* The window in memory is good, and no share is counted that was not made.
LedgerInv ==
    /\ LedgerTypeOK
    /\ GoodWindow(window)
    /\ lifetime <= made
    /\ meta.lifetime <= made

\* Ledger::open of any files leaves the invariant true.
LEMMA OpenTyped ==
  ASSUME LedgerInv, NEW cf \in Seq(Rows), NEW idf \in Seq(Idents),
         NEW m \in Metas, m.lifetime <= made,
         Open(cf, idf, m), made' = made, stops' \in 0..MaxStops
  PROVE  LedgerInv'
  <1> DEFINE w == Replay(cf, idf, m)
  <1>1. m.target_work \in Targets \cup {0} /\ m.lifetime \in 0..MaxShares
    BY DEF Metas
  <1>2. GoodWindow(w) /\ Len(Loaded(cf, idf).credits) \in Nat
    BY <1>1, ReplayGood
  <1>3. window' = w /\ lifetime' = m.lifetime /\ credits_out' = << >> /\ idents_out' = << >>
        /\ dirty' = FALSE /\ idents_file' = idf /\ meta' = m
    BY DEF Open
  <1>4. \/ credits_file' = w.credits /\ rows_on_disk' = Len(w.credits)
        \/ credits_file' = cf /\ rows_on_disk' = Len(Loaded(cf, idf).credits)
    BY DEF Open
  <1> HIDE DEF w
  <1>5. w.credits \in Seq(Rows) /\ Len(w.credits) \in Nat
    BY <1>2, GoodParts, LenProperties
  <1>6. credits_file' \in Seq(Rows) /\ rows_on_disk' \in Nat
    BY <1>2, <1>4, <1>5
  <1>7. /\ window'.idents \in Seq(Idents) /\ window'.credits \in Seq(Rows)
        /\ window'.total_work \in Nat /\ window'.target_work \in Targets \cup {0}
    BY <1>2, <1>3, GoodParts
  <1>8. /\ credits_out' \in Seq(Rows) /\ Len(credits_out') <= BUF_ROWS
        /\ idents_out' \in Seq(Idents)
    BY <1>3, EmptySeq, LedgerAssumption
  <1>9. made' \in 0..MaxShares
    BY DEF LedgerInv, LedgerTypeOK
  <1>10. lifetime' \in 0..MaxShares /\ meta' \in Metas /\ dirty' \in BOOLEAN
         /\ idents_file' \in Seq(Idents)
    BY <1>1, <1>3
  <1>11. LedgerTypeOK'
    BY <1>6, <1>7, <1>8, <1>9, <1>10 DEF LedgerTypeOK, Metas
  <1>12. GoodWindow(window)'
    BY <1>2, <1>3
  <1> QED
    BY <1>3, <1>11, <1>12 DEF LedgerInv

\* What a flush of the window w writes.
LEMMA WriteTyped ==
  ASSUME LedgerInv, NEW w, GoodWindow(w), NEW compacting \in BOOLEAN,
         WriteOut(w, compacting), window' = w, UNCHANGED <<lifetime, made, stops>>
  PROVE  LedgerInv'
  <1>1. /\ w.idents \in Seq(Idents) /\ w.credits \in Seq(Rows) /\ w.total_work \in Nat
        /\ w.target_work \in Targets \cup {0} /\ Len(w.credits) \in Nat
    BY GoodParts, LenProperties
  <1>2. /\ credits_file' = w.credits \/ credits_file' = credits_file \o credits_out
        /\ rows_on_disk' = Len(w.credits) \/ rows_on_disk' = rows_on_disk
        /\ idents_file' = idents_file \o idents_out
        /\ credits_out' = << >> /\ idents_out' = << >> /\ dirty' = FALSE
        /\ meta' = [target_work |-> w.target_work, lifetime |-> lifetime]
    BY DEF WriteOut, MetaOf
  <1>3. /\ credits_file \in Seq(Rows) /\ credits_out \in Seq(Rows) /\ rows_on_disk \in Nat
        /\ idents_file \in Seq(Idents) /\ idents_out \in Seq(Idents)
        /\ lifetime \in 0..MaxShares /\ made \in 0..MaxShares /\ stops \in 0..MaxStops
    BY DEF LedgerInv, LedgerTypeOK
  <1>4. credits_file' \in Seq(Rows) /\ idents_file' \in Seq(Idents) /\ rows_on_disk' \in Nat
    BY <1>1, <1>2, <1>3, ConcatProperties
  <1>5. /\ credits_out' \in Seq(Rows) /\ Len(credits_out') <= BUF_ROWS
        /\ idents_out' \in Seq(Idents) /\ dirty' \in BOOLEAN
    <2>1. credits_out' = << >> /\ idents_out' = << >>
      BY <1>2
    <2>2. BUF_ROWS \in Nat /\ Len(<< >>) = 0
      BY LedgerAssumption
    <2>3. dirty' \in BOOLEAN
      BY <1>2
    <2> QED
      BY <2>1, <2>2, <2>3, EmptySeq
  <1>6. meta' \in Metas
    BY <1>1, <1>2, <1>3 DEF Metas
  <1>7. LedgerTypeOK'
    BY <1>1, <1>3, <1>4, <1>5, <1>6 DEF LedgerTypeOK, Metas
  <1>8. (lifetime <= made)' /\ (meta.lifetime <= made)'
    BY <1>2 DEF LedgerInv
  <1> QED
    BY <1>7, <1>8 DEF LedgerInv

\* Ledger::credit leaves the invariant true.
LEMMA CreditTyped ==
  ASSUME LedgerInv, NEW i \in Idents, NEW x \in Works, Credit(i, x)
  PROVE  LedgerInv'
  <1> DEFINE ids == window.idents
             t == window.target_work
             row == CreditedRow(window, i, x)
             all == Append(window.credits, row)
  <1>0. GoodWindow(window)
    BY DEF LedgerInv
  <1>1. ids \in Seq(Idents) /\ window.credits \in Seq(Rows) /\ t \in Targets \cup {0}
    BY <1>0, GoodParts
  <1>2. row \in Rows
    BY <1>1, CreditedIs
  <1>3. all \in Seq(Rows) /\ Intern(ids, i) \in Seq(Idents)
    BY <1>1, <1>2, AppendProperties, InternType
  <1>4. GoodWindow(CreditRow(window, i, x))
    <2>1. PICK n \in 0..Len(all) :
             /\ Trimmed(all, t, n)
             /\ CreditRow(window, i, x) = WinOf(Intern(ids, i), SubSeq(all, n + 1, Len(all)), t)
      BY <1>0, CreditIs
    <2> HIDE DEF all, ids, t
    <2> QED
      BY <1>1, <1>3, <2>1, GoodRest
  <1>5. GoodWindow(window')
    BY <1>4 DEF Credit
  <1>6. /\ window'.idents \in Seq(Idents) /\ window'.credits \in Seq(Rows)
        /\ window'.total_work \in Nat /\ window'.target_work \in Targets \cup {0}
    BY <1>5, GoodParts
  <1>7. /\ credits_file \in Seq(Rows) /\ credits_out \in Seq(Rows) /\ rows_on_disk \in Nat
        /\ idents_file \in Seq(Idents) /\ idents_out \in Seq(Idents) /\ meta \in Metas
        /\ lifetime \in 0..MaxShares /\ made \in 0..MaxShares /\ stops \in 0..MaxStops
        /\ Len(credits_out) <= BUF_ROWS /\ lifetime <= made /\ meta.lifetime <= made
    BY DEF LedgerInv, LedgerTypeOK, Metas
  <1>8. /\ made < MaxShares /\ made' = made + 1 /\ lifetime' = lifetime + 1
        /\ idents_out' = idents_out \/ idents_out' = Append(idents_out, i)
        /\ rows_on_disk' = rows_on_disk + 1 /\ dirty' = TRUE
        /\ idents_file' = idents_file /\ meta' = meta /\ stops' = stops
    BY DEF Credit
  <1>9. \/ credits_file' = credits_file \o credits_out /\ credits_out' = <<row>>
        \/ /\ credits_out' = Append(credits_out, row) /\ credits_file' = credits_file
           /\ Len(credits_out) # BUF_ROWS
    BY DEF Credit
  <1> HIDE DEF row
  <1>10. /\ credits_file' \in Seq(Rows) /\ credits_out' \in Seq(Rows)
         /\ Len(credits_out') <= BUF_ROWS
    <2>1. BUF_ROWS \in Nat \ {0}
      BY LedgerAssumption
    <2>2. CASE credits_file' = credits_file \o credits_out /\ credits_out' = <<row>>
      BY <1>2, <1>7, <2>1, <2>2, ConcatProperties
    <2>3. CASE /\ credits_out' = Append(credits_out, row) /\ credits_file' = credits_file
               /\ Len(credits_out) # BUF_ROWS
      <3>1. Len(Append(credits_out, row)) = Len(credits_out) + 1 /\ Len(credits_out) \in Nat
            /\ Append(credits_out, row) \in Seq(Rows)
        BY <1>2, <1>7, AppendProperties, LenProperties
      <3> QED
        BY <1>7, <2>1, <2>3, <3>1
    <2> QED
      BY <1>9, <2>2, <2>3
  <1>11. idents_out' \in Seq(Idents)
    <2>1. Append(idents_out, i) \in Seq(Idents)
      BY <1>7, AppendProperties
    <2> QED
      BY <1>7, <1>8, <2>1
  <1>12. /\ made' \in 0..MaxShares /\ lifetime' \in 0..MaxShares /\ rows_on_disk' \in Nat
         /\ lifetime' <= made' /\ meta'.lifetime <= made'
    <2>1. meta.lifetime \in 0..MaxShares /\ MaxShares \in Nat
      BY <1>7, LedgerAssumption DEF Metas
    <2> QED
      BY <1>7, <1>8, <2>1
  <1>13. dirty' \in BOOLEAN
    BY <1>8
  <1>14. LedgerTypeOK'
    BY <1>6, <1>7, <1>8, <1>10, <1>11, <1>12, <1>13 DEF LedgerTypeOK, Metas
  <1> QED
    BY <1>5, <1>12, <1>14 DEF LedgerInv

\* The invariant holds of a new ledger.
LEMMA LedgerInvInit == LedgerInit => LedgerInv
  <1> SUFFICES ASSUME LedgerInit PROVE LedgerInv
    OBVIOUS
  <1>1. GoodWindow(window)
    BY GoodEmpty DEF LedgerInit
  <1>2. /\ window.idents \in Seq(Idents) /\ window.credits \in Seq(Rows)
        /\ window.total_work \in Nat /\ window.target_work \in Targets \cup {0}
    BY <1>1, GoodParts
  <1>3. Len(<< >>) <= BUF_ROWS /\ 0 \in 0..MaxShares /\ 0 \in 0..MaxStops /\ 0 \in Targets \cup {0}
    BY LedgerAssumption
  <1>4. credits_out = << >> /\ idents_out = << >> /\ credits_file = << >> /\ idents_file = << >>
    BY DEF LedgerInit
  <1>5. meta = [target_work |-> 0, lifetime |-> 0] /\ lifetime = 0 /\ made = 0
        /\ stops = 0 /\ rows_on_disk = 0
    BY DEF LedgerInit, NoMeta
  <1>6. dirty \in BOOLEAN
    BY DEF LedgerInit
  <1>7. meta \in Metas /\ meta.lifetime <= made /\ lifetime <= made
    BY <1>3, <1>5 DEF Metas
  <1>8. LedgerTypeOK
    BY <1>2, <1>3, <1>4, <1>5, <1>6, <1>7, EmptySeq DEF LedgerTypeOK, Metas
  <1> QED
    BY <1>1, <1>7, <1>8 DEF LedgerInv

\* What the ledger's files and buffers hold together.
LEMMA LedgerParts ==
  ASSUME LedgerInv
  PROVE  /\ window.idents \in Seq(Idents) /\ window.credits \in Seq(Rows)
         /\ window.target_work \in Targets \cup {0}
         /\ credits_file \in Seq(Rows) /\ credits_out \in Seq(Rows)
         /\ credits_file \o credits_out \in Seq(Rows)
         /\ idents_file \in Seq(Idents) /\ idents_out \in Seq(Idents)
         /\ idents_file \o idents_out \in Seq(Idents)
         /\ meta \in Metas /\ meta.lifetime <= made
         /\ \A t \in Targets \cup {0} : MetaOf(t) \in Metas /\ MetaOf(t).lifetime <= made
  <1>1. /\ window.idents \in Seq(Idents) /\ window.credits \in Seq(Rows)
        /\ window.target_work \in Targets \cup {0}
        /\ credits_file \in Seq(Rows) /\ credits_out \in Seq(Rows)
        /\ idents_file \in Seq(Idents) /\ idents_out \in Seq(Idents)
        /\ meta \in Metas /\ meta.lifetime <= made
        /\ lifetime \in 0..MaxShares /\ lifetime <= made
    BY DEF LedgerInv, LedgerTypeOK, Metas
  <1>2. /\ credits_file \o credits_out \in Seq(Rows)
        /\ idents_file \o idents_out \in Seq(Idents)
    BY <1>1, ConcatProperties
  <1>3. \A t \in Targets \cup {0} : MetaOf(t) \in Metas /\ MetaOf(t).lifetime <= made
    BY <1>1 DEF MetaOf, Metas
  <1> QED
    BY <1>1, <1>2, <1>3

\* Every step leaves the invariant true.
LEMMA LedgerInvNext == LedgerInv /\ [LedgerNext]_ledgerVars => LedgerInv'
  <1> SUFFICES ASSUME LedgerInv, [LedgerNext]_ledgerVars PROVE LedgerInv'
    OBVIOUS
  <1>1. GoodWindow(window) /\ made = made /\ stops \in 0..MaxStops
    BY DEF LedgerInv, LedgerTypeOK
  <1>2. ASSUME NEW i \in Idents, NEW x \in Works, Credit(i, x) PROVE LedgerInv'
    BY <1>2, CreditTyped
  <1>3. CASE Flush
    <2> DEFINE c == Overgrown(rows_on_disk, window)
    <2>1. WriteOut(window, c) /\ window' = window /\ UNCHANGED <<lifetime, made, stops>>
      BY <1>3 DEF Flush
    <2>2. c \in BOOLEAN
      BY DEF Overgrown
    <2> HIDE DEF c
    <2> QED
      BY <1>1, <2>1, <2>2, WriteTyped
  <1>4. CASE PersistWindow
    <2> DEFINE c == rows_on_disk # Len(window.credits)
    <2>1. WriteOut(window, c) /\ window' = window /\ UNCHANGED <<lifetime, made, stops>>
      BY <1>4 DEF PersistWindow
    <2>2. c \in BOOLEAN
      OBVIOUS
    <2> HIDE DEF c
    <2> QED
      BY <1>1, <2>1, <2>2, WriteTyped
  <1>5. ASSUME NEW t \in Targets, SetTarget(t) PROVE LedgerInv'
    <2> DEFINE w == SetWindowTarget(window, t)
               c == rows_on_disk # Len(w.credits)
    <2>1. window' = w /\ WriteOut(w, c) /\ UNCHANGED <<lifetime, made, stops>>
      BY <1>5 DEF SetTarget
    <2>2. c \in BOOLEAN
      OBVIOUS
    <2>3. GoodWindow(w)
      <3>1. /\ window.idents \in Seq(Idents) /\ window.credits \in Seq(Rows)
            /\ window = WinOf(window.idents, window.credits, window.target_work)
        BY <1>1, GoodParts
      <3>2. t \in Nat /\ t \in Targets \cup {0}
        BY TargetNat
      <3>3. PICK n \in 0..Len(window.credits) :
               /\ Trimmed(window.credits, t, n)
               /\ w = WinOf(window.idents, SubSeq(window.credits, n + 1, Len(window.credits)), t)
        BY <3>1, <3>2, RetargetIs
      <3> QED
        BY <3>1, <3>2, <3>3, GoodRest
    <2> HIDE DEF c, w
    <2> QED
      BY <2>1, <2>2, <2>3, WriteTyped
  <1>6. CASE Restart
    <2> DEFINE cf == IF rows_on_disk # Len(window.credits) THEN window.credits
                     ELSE credits_file \o credits_out
               idf == idents_file \o idents_out
               m == MetaOf(window.target_work)
    <2>1. Open(cf, idf, m) /\ made' = made /\ stops' = stops
      BY <1>6 DEF Restart
    <2>2. cf \in Seq(Rows) /\ idf \in Seq(Idents) /\ m \in Metas /\ m.lifetime <= made
      BY LedgerParts
    <2> HIDE DEF cf, idf, m
    <2> QED
      BY <1>1, <2>1, <2>2, OpenTyped
  <1>7. ASSUME NEW done \in 0..3, CrashAfter(done) PROVE LedgerInv'
    <2> DEFINE cf == IF done >= 2 THEN credits_file \o credits_out ELSE credits_file
               idf == IF done >= 1 THEN idents_file \o idents_out ELSE idents_file
               m == IF done >= 3 THEN MetaOf(window.target_work) ELSE meta
    <2>1. Open(cf, idf, m) /\ made' = made /\ stops' = stops + 1 /\ stops < MaxStops
      BY <1>7 DEF CrashAfter
    <2>2. cf \in Seq(Rows) /\ idf \in Seq(Idents) /\ m \in Metas /\ m.lifetime <= made
      BY LedgerParts
    <2>3. stops' \in 0..MaxStops
      BY <1>1, <2>1, LedgerAssumption
    <2> HIDE DEF cf, idf, m
    <2> QED
      BY <2>1, <2>2, <2>3, OpenTyped
  <1>8. ASSUME NEW t \in Targets, CrashResizing(t) PROVE LedgerInv'
    <2> DEFINE cf == credits_file \o credits_out
               idf == idents_file \o idents_out
               m == MetaOf(t)
    <2>1. Open(cf, idf, m) /\ made' = made /\ stops' = stops + 1 /\ stops < MaxStops
      BY <1>8 DEF CrashResizing
    <2>2. cf \in Seq(Rows) /\ idf \in Seq(Idents) /\ m \in Metas /\ m.lifetime <= made
      BY LedgerParts
    <2>3. stops' \in 0..MaxStops
      BY <1>1, <2>1, LedgerAssumption
    <2> HIDE DEF cf, idf, m
    <2> QED
      BY <2>1, <2>2, <2>3, OpenTyped
  <1>9. CASE UNCHANGED ledgerVars
    BY <1>9 DEF ledgerVars, mem, disk, LedgerInv, LedgerTypeOK
  <1> QED
    BY <1>2, <1>3, <1>4, <1>5, <1>6, <1>7, <1>8, <1>9 DEF LedgerNext

\* The invariant holds forever.
LEMMA LedgerAlwaysInv == LedgerSpec => []LedgerInv
  BY LedgerInvInit, LedgerInvNext, PTL DEF LedgerSpec

\* Ledger: every variable keeps its type, whatever is credited, resized, flushed,
\* restarted or lost in a crash; in particular the BufWriter never holds more than
\* BUF_ROWS rows, and no run counts more shares than were made.
THEOREM LedgerTyped == LedgerSpec => []LedgerTypeOK
  <1>1. LedgerInv => LedgerTypeOK
    BY DEF LedgerInv
  <1> QED
    BY <1>1, LedgerAlwaysInv, PTL

\* Window::push_raw, trim and Ledger::open: in every state, spilled rows included,
\* the running totals are the sums over the window's rows, and no row could leave
\* without taking the window below its target.
THEOREM LedgerWindowExact == LedgerSpec => []WindowExact
  <1>1. LedgerInv => WindowExact
    BY GoodExact DEF LedgerInv, WindowExact
  <1> QED
    BY <1>1, LedgerAlwaysInv, PTL

-----------------------------------------------------------------------------
(* Files and window together *)

\* The window's rows are what trim leaves of all the rows.
LastOf(w, all) ==
    \E n \in 0..Len(all) : /\ w.credits = SubSeq(all, n + 1, Len(all))
                           /\ Trimmed(all, w.target_work, n)

\* The rest of well-named rows is well named.
LEMMA NamedRest ==
  ASSUME NEW rows \in Seq(Rows), NEW ids, Named(rows, ids), NEW n \in 0..Len(rows)
  PROVE  Named(SubSeq(rows, n + 1, Len(rows)), ids)
  <1> DEFINE r == SubSeq(rows, n + 1, Len(rows))
  <1>1. Len(rows) \in Nat
    BY LenProperties
  <1>2. Len(r) = Len(rows) - n /\ \A k \in 1..(Len(rows) - n) : r[k] = rows[n + k]
    BY RestProperties
  <1> HIDE DEF r
  <1>3. ASSUME NEW k \in 1..Len(r)
        PROVE  r[k].ident \in 1..Len(ids) /\ ids[r[k].ident] = r[k].owner
    <2>1. n + k \in 1..Len(rows) /\ r[k] = rows[n + k]
      BY <1>1, <1>2
    <2> QED
      BY <2>1 DEF Named
  <1>4. Named(r, ids)
    BY <1>3 DEF Named
  <1> QED
    BY <1>4 DEF r

\* Rows put together are well named just when their parts are.
LEMMA NamedConcat ==
  ASSUME NEW a \in Seq(Rows), NEW b \in Seq(Rows), NEW ids
  PROVE  Named(a \o b, ids) <=> Named(a, ids) /\ Named(b, ids)
  <1> DEFINE c == a \o b
             Ok(r) == r.ident \in 1..Len(ids) /\ ids[r.ident] = r.owner
  <1>1. Len(a) \in Nat /\ Len(b) \in Nat /\ Len(c) = Len(a) + Len(b)
    BY LenProperties, ConcatProperties
  <1>2. \A k \in 1..Len(a) : c[k] = a[k] /\ k \in 1..Len(c)
    BY <1>1, ConcatProperties
  <1>3. \A k \in 1..Len(b) : c[Len(a) + k] = b[k] /\ Len(a) + k \in 1..Len(c)
    BY <1>1, ConcatProperties
  <1> HIDE DEF c, Ok
  <1>4. ASSUME \A k \in 1..Len(c) : Ok(c[k])
        PROVE  (\A k \in 1..Len(a) : Ok(a[k])) /\ (\A k \in 1..Len(b) : Ok(b[k]))
    BY <1>2, <1>3, <1>4
  <1>5. ASSUME \A k \in 1..Len(a) : Ok(a[k]), \A k \in 1..Len(b) : Ok(b[k])
        PROVE  \A k \in 1..Len(c) : Ok(c[k])
    <2> TAKE k \in 1..Len(c)
    <2>1. CASE k \in 1..Len(a)
      BY <1>2, <1>5, <2>1
    <2>2. CASE k \notin 1..Len(a)
      <3> DEFINE j == k - Len(a)
      <3>1. j \in 1..Len(b) /\ k = Len(a) + j
        BY <1>1, <2>2
      <3> HIDE DEF j
      <3> QED
        BY <1>3, <1>5, <3>1
    <2> QED
      BY <2>1, <2>2
  <1>6. \A s : Named(s, ids) <=> \A k \in 1..Len(s) : Ok(s[k])
    BY DEF Named, Ok
  <1> QED
    BY <1>4, <1>5, <1>6 DEF c

\* A longer table names the same.
LEMMA NamedMore ==
  ASSUME NEW rows, NEW ids \in Seq(Idents), NEW more \in Seq(Idents), Named(rows, ids)
  PROVE  Named(rows, ids \o more)
  <1> DEFINE all == ids \o more
  <1>1. Len(ids) \in Nat /\ Len(more) \in Nat /\ Len(all) = Len(ids) + Len(more)
    BY LenProperties, ConcatProperties
  <1>2. \A k \in 1..Len(ids) : all[k] = ids[k] /\ k \in 1..Len(all)
    BY <1>1, ConcatProperties
  <1> HIDE DEF all
  <1>3. Named(rows, all)
    BY <1>2 DEF Named
  <1> QED
    BY <1>3 DEF all

\* A good window's rows are the last of themselves.
LEMMA LastOfSelf ==
  ASSUME NEW w, GoodWindow(w)
  PROVE  LastOf(w, w.credits)
  <1>1. w.credits \in Seq(Rows) /\ Trimmed(w.credits, w.target_work, 0)
    BY GoodParts
  <1>2. 0 \in 0..Len(w.credits) /\ SubSeq(w.credits, 0 + 1, Len(w.credits)) = w.credits
    BY <1>1, LenProperties, SubSeqFull
  <1> QED
    BY <1>1, <1>2 DEF LastOf

\* The window of the rows a ledger keeps is found again in its files.
LEMMA ReplaySame ==
  ASSUME NEW w, GoodWindow(w), NEW cf \in Seq(Rows), NEW idf \in Seq(Idents), NEW m,
         Distinct(idf), Named(cf, idf), w.idents = idf, LastOf(w, cf),
         m.target_work = w.target_work
  PROVE  Replay(cf, idf, m) = w
  <1> DEFINE t == m.target_work
  <1>1. t \in Nat /\ Len(cf) \in Nat
    BY GoodParts, LenProperties
  <1>2. PICK n \in 0..Len(cf) : w.credits = SubSeq(cf, n + 1, Len(cf)) /\ Trimmed(cf, t, n)
    BY DEF LastOf
  <1>3. PICK j \in 0..Len(cf) :
           Trimmed(cf, t, j) /\ Replay(cf, idf, m) = WinOf(idf, SubSeq(cf, j + 1, Len(cf)), t)
    BY <1>1, ReplayIs
  <1>4. n = j
    BY <1>1, <1>2, <1>3, RestNat, TrimmedOnce
  <1>5. w = WinOf(idf, w.credits, t)
    BY GoodParts
  <1> QED
    BY <1>2, <1>3, <1>4, <1>5

All == credits_file \o credits_out

\* Together the files and their buffers hold the identities in order and rows
\* that name their owners, of which the window has the last; the rows file needs
\* no identity that is still buffered.
FilesInv ==
    /\ Distinct(window.idents)
    /\ window.idents = idents_file \o idents_out
    /\ Named(All, window.idents)
    /\ Named(credits_file, idents_file)
    /\ rows_on_disk = Len(All)
    /\ LastOf(window, All)
    /\ meta.target_work = window.target_work

\* Nothing is buffered in a clean ledger, whose rows file is not overgrown.
CleanInv ==
    ~dirty => /\ credits_out = << >> /\ idents_out = << >>
              /\ ~Overgrown(rows_on_disk, window)

\* Opening well-named files.
LEMMA OpenFiles ==
  ASSUME NEW cf \in Seq(Rows), NEW idf \in Seq(Idents), Distinct(idf), Named(cf, idf),
         NEW m \in Metas, Open(cf, idf, m)
  PROVE  /\ FilesInv' /\ CleanInv'
         /\ LastOf(window', cf) /\ window' = Replay(cf, idf, m)
         /\ window'.target_work = m.target_work
  <1> DEFINE t == m.target_work
             w == Replay(cf, idf, m)
  <1>1. t \in Targets \cup {0} /\ t \in Nat
    BY TargetNat DEF Metas
  <1>2. Len(Loaded(cf, idf).credits) = Len(cf)
    BY <1>1, ReplayIs
  <1>3. PICK n \in 0..Len(cf) :
           Trimmed(cf, t, n) /\ w = WinOf(idf, SubSeq(cf, n + 1, Len(cf)), t)
    BY <1>1, ReplayIs
  <1>4. w.idents = idf /\ w.credits = SubSeq(cf, n + 1, Len(cf)) /\ w.target_work = t
    BY <1>3 DEF WinOf
  <1>5. GoodWindow(w)
    BY <1>1, ReplayGood
  <1>6. w.credits \in Seq(Rows) /\ Len(w.credits) \in Nat /\ Len(cf) \in Nat
    BY <1>5, GoodParts, LenProperties
  <1>7. LastOf(w, cf) /\ LastOf(w, w.credits)
    BY <1>3, <1>4, <1>5, LastOfSelf DEF LastOf
  <1>8. Named(w.credits, idf)
    BY <1>4, NamedRest
  <1>9. /\ window' = w /\ credits_out' = << >> /\ idents_out' = << >>
        /\ idents_file' = idf /\ meta' = m
    BY DEF Open
  <1>10. IF Overgrown(Len(cf), w)
         THEN credits_file' = w.credits /\ rows_on_disk' = Len(w.credits)
         ELSE credits_file' = cf /\ rows_on_disk' = Len(cf)
    BY <1>2 DEF Open
  <1> HIDE DEF w, t
  <1>11. All' = credits_file' /\ idents_file' \o idents_out' = idf
    <2>1. cf \o << >> = cf /\ w.credits \o << >> = w.credits /\ idf \o << >> = idf
      BY <1>6, ConcatEmptySeq
    <2> QED
      BY <1>9, <1>10, <2>1 DEF All
  <1>12. /\ Named(credits_file', idf) /\ LastOf(w, credits_file')
         /\ rows_on_disk' = Len(credits_file')
    BY <1>7, <1>8, <1>10
  <1>13. FilesInv'
    BY <1>4, <1>9, <1>11, <1>12 DEF FilesInv, t
  <1>14. ~Overgrown(rows_on_disk', window')
    BY <1>6, <1>9, <1>10, LedgerAssumption DEF Overgrown
  <1>15. CleanInv'
    BY <1>9, <1>14 DEF CleanInv
  <1> QED
    BY <1>4, <1>7, <1>9, <1>13, <1>15 DEF w, t

\* Writing out: nothing is buffered any more, and the rows file holds all the
\* rows, or the window's if they are fewer by too many.
LEMMA WriteFiles ==
  ASSUME LedgerInv, NEW w, GoodWindow(w), Distinct(w.idents),
         w.idents = idents_file \o idents_out, Named(All, w.idents), Named(w.credits, w.idents),
         rows_on_disk = Len(All), NEW compacting,
         ~compacting => LastOf(w, All) /\ ~Overgrown(rows_on_disk, w),
         WriteOut(w, compacting), window' = w
  PROVE  FilesInv' /\ CleanInv'
  <1>1. /\ w.credits \in Seq(Rows) /\ w.idents \in Seq(Idents) /\ All \in Seq(Rows)
        /\ Len(w.credits) \in Nat
    BY GoodParts, LedgerParts, LenProperties DEF All
  <1>2. /\ idents_file' = w.idents /\ idents_out' = << >> /\ credits_out' = << >>
        /\ meta'.target_work = w.target_work
    BY DEF WriteOut, MetaOf
  <1>3. \/ compacting /\ credits_file' = w.credits /\ rows_on_disk' = Len(w.credits)
        \/ ~compacting /\ credits_file' = All /\ rows_on_disk' = Len(All)
    BY DEF WriteOut, All
  <1>4. LastOf(w, w.credits)
    BY LastOfSelf
  <1>5. /\ credits_file' \in Seq(Rows) /\ rows_on_disk' = Len(credits_file')
        /\ Named(credits_file', w.idents) /\ LastOf(w, credits_file')
    BY <1>1, <1>3, <1>4
  <1>6. ~Overgrown(rows_on_disk', w)
    BY <1>1, <1>3, LedgerAssumption DEF Overgrown
  <1>7. All' = credits_file' /\ idents_file' \o idents_out' = w.idents
    <2>1. credits_file' \o << >> = credits_file' /\ w.idents \o << >> = w.idents
      BY <1>1, <1>5, ConcatEmptySeq
    <2> QED
      BY <1>2, <2>1 DEF All
  <1>8. FilesInv'
    BY <1>2, <1>5, <1>7 DEF FilesInv
  <1>9. CleanInv'
    BY <1>2, <1>6 DEF CleanInv
  <1> QED
    BY <1>8, <1>9

\* The rest of a sequence with one more element.
LEMMA RestAppend ==
  ASSUME NEW S, NEW all \in Seq(S), NEW x \in S, NEW n \in 0..Len(all)
  PROVE  Append(SubSeq(all, n + 1, Len(all)), x)
           = SubSeq(Append(all, x), n + 1, Len(Append(all, x)))
  <1> DEFINE more == Append(all, x)
             kept == SubSeq(all, n + 1, Len(all))
             l == Append(kept, x)
             r == SubSeq(more, n + 1, Len(more))
  <1>1. more \in Seq(S) /\ Len(more) = Len(all) + 1 /\ Len(all) \in Nat
    BY AppendProperties, LenProperties
  <1>2. more[Len(all) + 1] = x /\ \A j \in 1..Len(all) : more[j] = all[j]
    BY AppendProperties
  <1>3. /\ kept \in Seq(S) /\ Len(kept) = Len(all) - n
        /\ \A j \in 1..(Len(all) - n) : kept[j] = all[n + j]
    BY RestProperties
  <1> HIDE DEF more, kept
  <1>4. l \in Seq(S) /\ Len(l) = Len(kept) + 1
    BY <1>3, AppendProperties
  <1>5. l[Len(kept) + 1] = x /\ \A j \in 1..Len(kept) : l[j] = kept[j]
    <2>1. kept \in Seq(S)
      BY <1>3
    <2> QED
      BY <2>1, AppendProperties
  <1>6. n \in 0..Len(more)
    BY <1>1
  <1>7. /\ r \in Seq(S) /\ Len(r) = Len(more) - n
        /\ \A j \in 1..(Len(more) - n) : r[j] = more[n + j]
    BY <1>1, <1>6, RestProperties
  <1> HIDE DEF l, r
  <1>8. n \in Nat /\ n <= Len(all) /\ Len(l) = (Len(all) - n) + 1 /\ Len(r) = (Len(all) - n) + 1
    BY <1>1, <1>3, <1>4, <1>7
  <1>9. \A j \in 1..Len(l) : l[j] = r[j]
    <2> TAKE j \in 1..Len(l)
    <2>1. CASE j \in 1..(Len(all) - n)
      <3>1. n + j \in 1..Len(all) /\ j \in 1..(Len(more) - n) /\ j \in 1..Len(kept)
        BY <1>1, <1>3, <1>8, <2>1
      <3> QED
        BY <1>2, <1>3, <1>5, <1>7, <2>1, <3>1
    <2>2. CASE j \notin 1..(Len(all) - n)
      <3>1. j = (Len(all) - n) + 1
        BY <1>1, <1>8, <2>2
      <3>2. j = Len(kept) + 1 /\ n + j = Len(all) + 1 /\ j \in 1..(Len(more) - n)
        BY <1>1, <1>3, <1>8, <3>1
      <3>3. l[j] = x
        BY <1>5, <3>2
      <3>4. r[j] = more[n + j]
        BY <1>7, <3>2
      <3>5. more[n + j] = x
        BY <1>2, <3>2
      <3> QED
        BY <3>3, <3>4, <3>5
    <2> QED
      BY <2>1, <2>2
  <1>10. Len(l) = Len(r)
    BY <1>8
  <1>11. l = r
    BY <1>4, <1>7, <1>9, <1>10, SeqEqual
  <1> QED
    BY <1>11 DEF l, r, kept, more

\* The last of the last rows and a new one are the last of all and the new one.
LEMMA LastOn ==
  ASSUME NEW all \in Seq(Rows), NEW row \in Rows, NEW v, NEW w, LastOf(v, all),
         v.target_work \in Nat, w.target_work = v.target_work,
         LastOf(w, Append(v.credits, row))
  PROVE  LastOf(w, Append(all, row))
  <1> DEFINE more == Append(all, row)
             t == v.target_work
             rows == Append(v.credits, row)
  <1>1. PICK n \in 0..Len(all) : v.credits = SubSeq(all, n + 1, Len(all)) /\ Trimmed(all, t, n)
    BY DEF LastOf
  <1>2. PICK k \in 0..Len(rows) :
           w.credits = SubSeq(rows, k + 1, Len(rows)) /\ Trimmed(rows, t, k)
    BY DEF LastOf
  <1>3. more \in Seq(Rows) /\ Len(more) = Len(all) + 1 /\ Len(all) \in Nat
    BY AppendProperties, LenProperties
  <1>4. v.credits \in Seq(Rows)
    BY <1>1, RestProperties
  <1>5. SumWork(rows) = SumWork(v.credits) + row.work /\ row.work \in Nat
        /\ SumWork(v.credits) \in Nat
    BY <1>4, SumsAppend, RowFields, SumsNat
  <1>6. rows = SubSeq(more, n + 1, Len(more))
    BY <1>1, RestAppend
  <1> HIDE DEF more, rows, t
  <1>7. n \in 0..Len(more)
    BY <1>3
  <1>8. Len(rows) = Len(more) - n
    BY <1>3, <1>6, <1>7, RestProperties
  <1>9. \A j \in 0..Len(rows) :
           SubSeq(rows, j + 1, Len(rows)) = SubSeq(more, (n + j) + 1, Len(more))
    <2> TAKE j \in 0..Len(rows)
    <2>1. j \in 0..(Len(more) - n)
      BY <1>8
    <2> QED
      BY <1>3, <1>6, <1>7, <1>8, <2>1, RestOfRest
  <1>10. n + k \in 0..Len(more)
    BY <1>3, <1>8
  <1>11. ASSUME n + k # 0 PROVE SumWork(SubSeq(more, (n + k) + 1, Len(more))) >= t
    <2>1. CASE k # 0
      <3>1. SumWork(SubSeq(rows, k + 1, Len(rows))) >= t
        BY <1>2, <2>1 DEF Trimmed
      <3>2. SubSeq(rows, k + 1, Len(rows)) = SubSeq(more, (n + k) + 1, Len(more))
        BY <1>9
      <3> QED
        BY <3>1, <3>2
    <2>2. CASE k = 0
      <3>1. n # 0 /\ n + k = n
        BY <1>11, <1>3, <2>2
      <3>2. SumWork(v.credits) >= t
        BY <1>1, <3>1 DEF Trimmed
      <3>3. t \in Nat
        BY DEF t
      <3>4. SumWork(rows) >= t
        BY <1>5, <3>2, <3>3
      <3> QED
        BY <1>6, <3>1, <3>4
    <2> QED
      BY <2>1, <2>2
  <1>12. ASSUME t # 0, NEW j \in ((n + k) + 1)..Len(more)
         PROVE  SumWork(SubSeq(more, j + 1, Len(more))) < t
    <2> DEFINE i == j - n
    <2>1. i \in (k + 1)..Len(rows) /\ i \in 0..Len(rows) /\ n + i = j
      BY <1>3, <1>8
    <2> HIDE DEF i
    <2>2. SumWork(SubSeq(rows, i + 1, Len(rows))) < t
      BY <1>2, <1>12, <2>1 DEF Trimmed
    <2>3. SubSeq(rows, i + 1, Len(rows)) = SubSeq(more, (n + i) + 1, Len(more))
      BY <1>9, <2>1
    <2> QED
      BY <2>1, <2>2, <2>3
  <1>13. t = 0 => n + k = 0
    BY <1>1, <1>2 DEF Trimmed
  <1>14. Trimmed(more, t, n + k)
    BY <1>11, <1>12, <1>13 DEF Trimmed
  <1>15. w.credits = SubSeq(more, (n + k) + 1, Len(more)) /\ w.target_work = t
    BY <1>2, <1>9 DEF t
  <1>16. LastOf(w, more)
    BY <1>10, <1>14, <1>15 DEF LastOf
  <1> QED
    BY <1>16 DEF more

\* A share is credited while no identity waits behind a full buffer of rows.
InTime == made' # made /\ Len(credits_out) = BUF_ROWS => idents_out = << >>

\* Ledger::credit: the row and the new identity are buffered, and a full buffer of
\* rows is written when every identity is.
LEMMA CreditFiles ==
  ASSUME LedgerInv, FilesInv, NEW i \in Idents, NEW x \in Works, Credit(i, x), InTime
  PROVE  FilesInv' /\ CleanInv'
  <1> DEFINE ids == window.idents
             rows == window.credits
             t == window.target_work
             row == CreditedRow(window, i, x)
             new == Intern(ids, i)
             sum == Append(rows, row)
  <1>1. ids \in Seq(Idents) /\ rows \in Seq(Rows) /\ t \in Nat /\ GoodWindow(window)
    BY GoodParts DEF LedgerInv
  <1>2. /\ credits_file \in Seq(Rows) /\ credits_out \in Seq(Rows) /\ All \in Seq(Rows)
        /\ idents_file \in Seq(Idents) /\ idents_out \in Seq(Idents)
    BY LedgerParts DEF All
  <1>3. row \in Rows /\ row.owner = i /\ row.ident \in 1..Len(new) /\ new[row.ident] = i
    BY <1>1, CreditedIs
  <1>4. PICK k \in 0..Len(sum) :
           /\ Trimmed(sum, t, k)
           /\ CreditRow(window, i, x) = WinOf(new, SubSeq(sum, k + 1, Len(sum)), t)
    BY <1>1, CreditIs
  <1>6. /\ window' = CreditRow(window, i, x) /\ idents_file' = idents_file /\ meta' = meta
        /\ rows_on_disk' = rows_on_disk + 1
        /\ idents_out' = IF Contains(ids, i) THEN idents_out ELSE Append(idents_out, i)
    BY DEF Credit
  <1>7. IF Len(credits_out) = BUF_ROWS
        THEN credits_file' = credits_file \o credits_out /\ credits_out' = <<row>>
        ELSE credits_out' = Append(credits_out, row) /\ credits_file' = credits_file
    BY DEF Credit
  <1>8. CleanInv'
    <2>1. dirty' = TRUE
      BY DEF Credit
    <2> QED
      BY <2>1, Zenon DEF CleanInv
  <1> HIDE DEF row
  <1>9. All' = Append(All, row)
    <2>1. \A a, b \in Seq(Rows) : \A z \in Rows : a \o Append(b, z) = Append(a \o b, z)
      BY ConcatAppend
    <2>2. credits_file \o Append(credits_out, row) = Append(credits_file \o credits_out, row)
      BY <1>2, <1>3, <2>1, Zenon
    <2>3. CASE Len(credits_out) = BUF_ROWS
      <3>1. credits_file' = credits_file \o credits_out /\ credits_out' = <<row>>
        BY <1>7, <2>3
      <3>2. \A a \in Seq(Rows) : \A z \in Rows : Append(a, z) = a \o <<z>>
        BY AppendIsConcat
      <3>3. Append(All, row) = All \o <<row>>
        BY <1>2, <1>3, <3>2, Zenon
      <3> QED
        BY <3>1, <3>3, Zenon DEF All
    <2>4. CASE Len(credits_out) # BUF_ROWS
      <3>1. credits_file' = credits_file /\ credits_out' = Append(credits_out, row)
        BY <1>7, <2>4
      <3> QED
        BY <2>2, <3>1, Zenon DEF All
    <2> QED
      BY <2>3, <2>4
  <1>10. idents_file' \o idents_out' = new
    <2>1. CASE Contains(ids, i)
      BY <1>6, <2>1 DEF Intern, FilesInv
    <2>2. CASE ~Contains(ids, i)
      <3>1. Append(idents_out, i) = idents_out \o <<i>> /\ <<i>> \in Seq(Idents)
            /\ Append(ids, i) = ids \o <<i>>
        <4>1. Append(idents_out, i) = idents_out \o <<i>>
          BY <1>2, AppendIsConcat
        <4>2. Append(ids, i) = ids \o <<i>>
          <5>1. ids \in Seq(Idents)
            BY <1>1
          <5> HIDE DEF ids
          <5> QED
            BY <5>1, AppendIsConcat
        <4>3. <<i>> \in Seq(Idents)
          OBVIOUS
        <4> QED
          BY <4>1, <4>2, <4>3
      <3>2. idents_file \o (idents_out \o <<i>>) = (idents_file \o idents_out) \o <<i>>
        BY <1>2, <3>1, ConcatAssociative
      <3>3. ids = idents_file \o idents_out
        BY DEF FilesInv
      <3> QED
        BY <1>6, <2>2, <3>1, <3>2, <3>3 DEF Intern
    <2> QED
      BY <2>1, <2>2
  <1> DEFINE more == Append(All, row)
  <1>11. more \in Seq(Rows) /\ Len(more) = Len(All) + 1
    BY <1>2, <1>3, AppendProperties
  <1>12. window'.idents = new /\ window'.target_work = t
         /\ window'.credits = SubSeq(sum, k + 1, Len(sum))
    <2> DEFINE v == SubSeq(sum, k + 1, Len(sum))
    <2>1. window' = WinOf(new, v, t)
      BY <1>4, <1>6
    <2> HIDE DEF v, new, t
    <2>2. window'.idents = new /\ window'.target_work = t /\ window'.credits = v
      BY <2>1 DEF WinOf
    <2> QED
      BY <2>2 DEF v
  <1>13. LastOf(window', more)
    <2>1. LastOf(window', sum)
      <3> HIDE DEF sum, t
      <3> QED
        BY <1>4, <1>12 DEF LastOf
    <2>2. LastOf(window, All)
      BY DEF FilesInv
    <2>3. window'.target_work = window.target_work /\ window.target_work \in Nat
      BY <1>1, <1>12
    <2> QED
      BY <1>2, <1>3, <2>1, <2>2, <2>3, LastOn
  <1>14. Distinct(new) /\ new \in Seq(Idents)
    BY <1>1, InternKeeps, InternType DEF FilesInv
  <1>15. Named(All, new)
    <2>1. Named(All, ids)
      BY DEF FilesInv
    <2>2. CASE Contains(ids, i)
      BY <2>1, <2>2 DEF Intern
    <2>3. CASE ~Contains(ids, i)
      <3>1. new = Append(ids, i)
        BY <2>3 DEF Intern
      <3>2. <<i>> \in Seq(Idents)
        OBVIOUS
      <3>3. Append(ids, i) = ids \o <<i>>
        BY <1>1, AppendIsConcat, Zenon
      <3> HIDE DEF new, ids
      <3> QED
        BY <1>1, <2>1, <3>1, <3>2, <3>3, NamedMore
    <2> QED
      BY <2>2, <2>3
  <1>16. Named(more, new)
    <2> HIDE DEF new
    <2>1. <<row>> \in Seq(Rows) /\ Len(<<row>>) = 1 /\ <<row>>[1] = row
      BY <1>3
    <2>2. Named(<<row>>, new)
      BY <1>3, <2>1 DEF Named
    <2>3. more = All \o <<row>>
      BY <1>2, <1>3, AppendIsConcat
    <2> HIDE DEF more
    <2> QED
      BY <1>2, <1>15, <2>1, <2>2, <2>3, NamedConcat
  <1>17. Named(credits_file', idents_file)
    <2>1. CASE Len(credits_out) = BUF_ROWS
      <3>1. made' = made + 1 /\ made \in Nat
        BY DEF Credit, LedgerInv, LedgerTypeOK
      <3>2. idents_out = << >>
        BY <2>1, <3>1 DEF InTime
      <3>3. ids = idents_file
        BY <1>2, <3>2, ConcatEmptySeq DEF FilesInv
      <3>4. credits_file' = All
        BY <1>7, <2>1 DEF All
      <3> QED
        BY <3>3, <3>4 DEF FilesInv
    <2>2. CASE Len(credits_out) # BUF_ROWS
      BY <1>7, <2>2 DEF FilesInv
    <2> QED
      BY <2>1, <2>2
  <1>18. rows_on_disk' = Len(more)
    BY <1>6, <1>11 DEF FilesInv
  <1>19. meta'.target_work = window'.target_work
    BY <1>6, <1>12 DEF FilesInv
  <1> HIDE DEF more, new
  <1>20. All' = more
    BY <1>9 DEF more
  <1>21. FilesInv'
    BY <1>6, <1>10, <1>12, <1>13, <1>14, <1>16, <1>17, <1>18, <1>19, <1>20 DEF FilesInv
  <1> QED
    BY <1>8, <1>21

\* A new ledger's files are empty.
LEMMA FilesInit == LedgerInit => FilesInv /\ CleanInv
  <1> SUFFICES ASSUME LedgerInit PROVE FilesInv /\ CleanInv
    OBVIOUS
  <1>1. /\ window = EmptyWindow /\ credits_out = << >> /\ idents_out = << >>
        /\ credits_file = << >> /\ idents_file = << >> /\ rows_on_disk = 0
        /\ meta.target_work = 0
    BY DEF LedgerInit, NoMeta
  <1>2. window.idents = << >> /\ window.credits = << >> /\ window.target_work = 0
    BY <1>1 DEF EmptyWindow
  <1>3. All = << >> /\ idents_file \o idents_out = << >>
    BY <1>1 DEF All
  <1>4. Distinct(<< >>) /\ Named(<< >>, << >>)
    BY DEF Distinct, Named
  <1>5. LastOf(window, window.credits)
    BY <1>1, GoodEmpty, LastOfSelf
  <1>6. FilesInv
    BY <1>1, <1>2, <1>3, <1>4, <1>5 DEF FilesInv
  <1>7. ~Overgrown(rows_on_disk, window)
    BY <1>1, <1>2, LedgerAssumption DEF Overgrown
  <1> QED
    BY <1>1, <1>6, <1>7 DEF CleanInv

\* What a window that is the last of all rows may be told.
LEMMA FilesParts ==
  ASSUME LedgerInv, FilesInv
  PROVE  /\ All \in Seq(Rows) /\ Named(window.credits, window.idents)
         /\ idents_file \in Seq(Idents) /\ Distinct(idents_file)
         /\ Named(credits_file, window.idents)
         /\ LastOf(window, window.credits)
  <1>1. /\ All \in Seq(Rows) /\ credits_file \in Seq(Rows) /\ credits_out \in Seq(Rows)
        /\ idents_file \in Seq(Idents) /\ idents_out \in Seq(Idents)
    BY LedgerParts DEF All
  <1>2. PICK n \in 0..Len(All) : window.credits = SubSeq(All, n + 1, Len(All))
    BY DEF FilesInv, LastOf
  <1>3. Named(window.credits, window.idents)
    BY <1>1, <1>2, NamedRest DEF FilesInv
  <1>4. Distinct(idents_file)
    <2> DEFINE all == idents_file \o idents_out
    <2>1. Distinct(all)
      BY DEF FilesInv
    <2>2. Len(idents_file) \in Nat /\ Len(idents_out) \in Nat
          /\ Len(all) = Len(idents_file) + Len(idents_out)
      BY <1>1, LenProperties, ConcatProperties
    <2>3. \A k \in 1..Len(idents_file) : all[k] = idents_file[k] /\ k \in 1..Len(all)
      BY <1>1, <2>2, ConcatProperties
    <2> HIDE DEF all
    <2> QED
      BY <2>1, <2>3 DEF Distinct
  <1>5. Named(credits_file, window.idents)
    BY <1>1, NamedConcat DEF FilesInv, All
  <1>6. LastOf(window, window.credits)
    BY LastOfSelf DEF LedgerInv
  <1> QED
    BY <1>1, <1>3, <1>4, <1>5, <1>6

\* Resizing the window: what is left still names its owners.
LEMMA RetargetFiles ==
  ASSUME LedgerInv, FilesInv, NEW t \in Targets
  PROVE  LET w == SetWindowTarget(window, t) IN
         /\ GoodWindow(w) /\ w.idents = window.idents /\ Named(w.credits, w.idents)
         /\ Len(w.credits) = Len(All) => LastOf(w, All)
  <1> DEFINE w == SetWindowTarget(window, t)
             rows == window.credits
             ids == window.idents
  <1>1. /\ ids \in Seq(Idents) /\ rows \in Seq(Rows) /\ Len(rows) \in Nat
        /\ window = WinOf(ids, rows, window.target_work)
    BY GoodParts, LenProperties DEF LedgerInv
  <1>2. t \in Nat /\ t \in Targets \cup {0}
    BY TargetNat
  <1>3. PICK n \in 0..Len(rows) :
           Trimmed(rows, t, n) /\ w = WinOf(ids, SubSeq(rows, n + 1, Len(rows)), t)
    BY <1>1, <1>2, RetargetIs
  <1>4. w.idents = ids /\ w.credits = SubSeq(rows, n + 1, Len(rows)) /\ w.target_work = t
    <2> DEFINE v == SubSeq(rows, n + 1, Len(rows))
    <2>1. w = WinOf(ids, v, t)
      BY <1>3
    <2> HIDE DEF v, w, ids
    <2>2. w.idents = ids /\ w.credits = v /\ w.target_work = t
      BY <2>1 DEF WinOf
    <2> QED
      BY <2>2 DEF v
  <1>5. GoodWindow(w)
    BY <1>1, <1>2, <1>3, GoodRest
  <1>6. Named(w.credits, ids)
    BY <1>1, <1>4, FilesParts, NamedRest
  <1>7. ASSUME Len(w.credits) = Len(All) PROVE LastOf(w, All)
    <2>1. All \in Seq(Rows) /\ Len(All) \in Nat
      BY FilesParts, LenProperties
    <2>2. PICK j \in 0..Len(All) : rows = SubSeq(All, j + 1, Len(All))
      BY DEF FilesInv, LastOf
    <2>3. Len(rows) = Len(All) - j
      BY <2>1, <2>2, RestProperties
    <2>4. Len(w.credits) = Len(rows) - n
      BY <1>1, <1>4, RestProperties
    <2>5. j = 0 /\ n = 0
      BY <1>7, <2>1, <2>3, <2>4
    <2>6. rows = All /\ w.credits = All
      BY <1>1, <1>4, <2>1, <2>2, <2>5, SubSeqFull
    <2>7. LastOf(w, w.credits)
      BY <1>5, LastOfSelf
    <2> QED
      BY <2>6, <2>7
  <1> QED
    BY <1>4, <1>5, <1>6, <1>7

\* One step of the ledger.
LEMMA FilesNext ==
  ASSUME LedgerInv, FilesInv, CleanInv, [LedgerNext]_ledgerVars, [InTime]_ledgerVars
  PROVE  FilesInv' /\ CleanInv'
  <1>1. GoodWindow(window) /\ made \in Nat /\ window.target_work \in Targets \cup {0}
    BY DEF LedgerInv, LedgerTypeOK
  <1>2. /\ Distinct(window.idents) /\ window.idents = idents_file \o idents_out
        /\ Named(All, window.idents) /\ Named(credits_file, idents_file)
        /\ rows_on_disk = Len(All) /\ LastOf(window, All)
    BY DEF FilesInv
  <1>3. /\ All \in Seq(Rows) /\ Named(window.credits, window.idents)
        /\ idents_file \in Seq(Idents) /\ Distinct(idents_file)
        /\ Named(credits_file, window.idents) /\ window.idents \in Seq(Idents)
        /\ window.credits \in Seq(Rows) /\ credits_file \in Seq(Rows)
    BY FilesParts, LedgerParts
  <1>4. ASSUME NEW i \in Idents, NEW x \in Works, Credit(i, x) PROVE FilesInv' /\ CleanInv'
    <2>1. made' # made
      BY <1>1, <1>4 DEF Credit
    <2>2. InTime
      BY <2>1 DEF ledgerVars
    <2> QED
      BY <1>4, <2>2, CreditFiles
  <1>5. CASE Flush
    <2> DEFINE c == Overgrown(rows_on_disk, window)
    <2>1. WriteOut(window, c) /\ window' = window
      BY <1>5 DEF Flush
    <2>2. ~c => LastOf(window, All) /\ ~Overgrown(rows_on_disk, window)
      BY <1>2
    <2> HIDE DEF c
    <2> QED
      BY <1>1, <1>2, <1>3, <2>1, <2>2, WriteFiles
  <1>6. CASE PersistWindow
    <2> DEFINE c == rows_on_disk # Len(window.credits)
    <2>1. WriteOut(window, c) /\ window' = window
      BY <1>6 DEF PersistWindow
    <2>2. ~c => LastOf(window, All) /\ ~Overgrown(rows_on_disk, window)
      <3>1. Len(window.credits) \in Nat
        BY <1>3, LenProperties
      <3> QED
        BY <1>2, <3>1, LedgerAssumption DEF Overgrown
    <2> HIDE DEF c
    <2> QED
      BY <1>1, <1>2, <1>3, <2>1, <2>2, WriteFiles
  <1>7. ASSUME NEW t \in Targets, SetTarget(t) PROVE FilesInv' /\ CleanInv'
    <2> DEFINE w == SetWindowTarget(window, t)
               c == rows_on_disk # Len(w.credits)
    <2>1. window' = w /\ WriteOut(w, c)
      BY <1>7 DEF SetTarget
    <2>2. /\ GoodWindow(w) /\ w.idents = window.idents /\ Named(w.credits, w.idents)
          /\ Len(w.credits) = Len(All) => LastOf(w, All)
      BY RetargetFiles
    <2> HIDE DEF w
    <2>3. ~c => LastOf(w, All) /\ ~Overgrown(rows_on_disk, w)
      <3>1. Len(w.credits) \in Nat
        BY <2>2, GoodParts, LenProperties
      <3> QED
        BY <1>2, <2>2, <3>1, LedgerAssumption DEF Overgrown
    <2> HIDE DEF c
    <2> QED
      BY <1>2, <2>1, <2>2, <2>3, WriteFiles
  <1>8. CASE Restart
    <2> DEFINE cf == IF rows_on_disk # Len(window.credits) THEN window.credits
                     ELSE credits_file \o credits_out
               m == MetaOf(window.target_work)
    <2>1. Open(cf, window.idents, m)
      BY <1>2, <1>8 DEF Restart
    <2>2. cf \in Seq(Rows) /\ Named(cf, window.idents) /\ m \in Metas
      BY <1>1, <1>2, <1>3, LedgerParts DEF All
    <2> HIDE DEF cf, m
    <2> QED
      BY <1>2, <1>3, <2>1, <2>2, OpenFiles
  <1>9. ASSUME NEW done \in 0..3, CrashAfter(done) PROVE FilesInv' /\ CleanInv'
    <2> DEFINE cf == IF done >= 2 THEN credits_file \o credits_out ELSE credits_file
               idf == IF done >= 1 THEN idents_file \o idents_out ELSE idents_file
               m == IF done >= 3 THEN MetaOf(window.target_work) ELSE meta
    <2>1. Open(cf, idf, m)
      BY <1>9 DEF CrashAfter
    <2>2. cf \in Seq(Rows) /\ idf \in Seq(Idents) /\ m \in Metas /\ Distinct(idf)
      BY <1>1, <1>2, <1>3, LedgerParts DEF All
    <2>3. Named(cf, idf)
      BY <1>2, <1>3 DEF All
    <2> HIDE DEF cf, idf, m
    <2> QED
      BY <2>1, <2>2, <2>3, OpenFiles
  <1>10. ASSUME NEW t \in Targets, CrashResizing(t) PROVE FilesInv' /\ CleanInv'
    <2> DEFINE m == MetaOf(t)
    <2>1. Open(All, window.idents, m)
      BY <1>2, <1>10 DEF CrashResizing, All
    <2>2. m \in Metas
      BY LedgerParts
    <2> HIDE DEF m
    <2> QED
      BY <1>2, <1>3, <2>1, <2>2, OpenFiles
  <1>11. CASE UNCHANGED ledgerVars
    <2>1. FilesInv'
      BY <1>11 DEF ledgerVars, mem, disk, FilesInv, All
    <2>2. CleanInv'
      BY <1>11 DEF ledgerVars, mem, disk, CleanInv
    <2> QED
      BY <2>1, <2>2
  <1> QED
    BY <1>4, <1>5, <1>6, <1>7, <1>8, <1>9, <1>10, <1>11 DEF LedgerNext

\* Every share is credited in time.
FlushedInTime == [][InTime]_ledgerVars

\* If every share is credited in time, files and window fit together forever.
LEMMA FilesAlways == LedgerSpec /\ FlushedInTime => [](LedgerInv /\ FilesInv /\ CleanInv)
  <1>1. LedgerInit => LedgerInv /\ FilesInv /\ CleanInv
    BY LedgerInvInit, FilesInit
  <1>2. LedgerInv /\ FilesInv /\ CleanInv /\ [LedgerNext]_ledgerVars /\ [InTime]_ledgerVars
           => (LedgerInv /\ FilesInv /\ CleanInv)'
    BY LedgerInvNext, FilesNext
  <1> QED
    BY <1>1, <1>2, PTL DEF LedgerSpec, FlushedInTime

\* Ledger, if every share is credited in time: every row of the window counts for
\* the identity that earned it, although it names it by a position in another file
\* that is written separately and read again after a crash.
THEOREM LedgerOwnersKept == LedgerSpec /\ FlushedInTime => []OwnersKept
  <1>1. LedgerInv /\ FilesInv => OwnersKept
    <2> SUFFICES ASSUME LedgerInv, FilesInv PROVE OwnersKept
      OBVIOUS
    <2>1. DOMAIN window.credits = 1..Len(window.credits)
      BY LedgerParts, LenProperties
    <2>2. Named(window.credits, window.idents)
      BY FilesParts
    <2> QED
      BY <2>1, <2>2 DEF OwnersKept, Named
  <1> QED
    BY <1>1, FilesAlways, PTL

\* Ledger::flush and persist_window, if every share is credited in time: the counter
\* that decides about compaction counts the rows in file and buffer, and a clean
\* ledger's file is within COMPACT_SLACK rows of the window.
THEOREM LedgerFileBounded == LedgerSpec /\ FlushedInTime => []FileBounded
  <1>1. LedgerInv /\ FilesInv /\ CleanInv => FileBounded
    <2> SUFFICES ASSUME LedgerInv, FilesInv, CleanInv PROVE FileBounded
      OBVIOUS
    <2>1. Len(All) = Len(credits_file) + Len(credits_out)
      BY LedgerParts, ConcatProperties DEF All
    <2> QED
      BY <2>1 DEF FileBounded, FilesInv, CleanInv
  <1> QED
    BY <1>1, FilesAlways, PTL

\* Ledger::open, if every share is credited in time: a clean ledger's files replay
\* to the window the process pays from.
THEOREM LedgerReplayExact == LedgerSpec /\ FlushedInTime => []ReplayExact
  <1>1. LedgerInv /\ FilesInv /\ CleanInv => ReplayExact
    <2> SUFFICES ASSUME LedgerInv, FilesInv, CleanInv, ~dirty
                 PROVE  Replay(credits_file, idents_file, meta) = window
      BY DEF ReplayExact
    <2>1. credits_out = << >> /\ idents_out = << >>
      BY DEF CleanInv
    <2>2. credits_file \in Seq(Rows) /\ idents_file \in Seq(Idents)
      BY LedgerParts
    <2>3. All = credits_file /\ window.idents = idents_file
      BY <2>1, <2>2, ConcatEmptySeq DEF All, FilesInv
    <2>4. /\ GoodWindow(window) /\ Distinct(idents_file) /\ Named(credits_file, idents_file)
          /\ LastOf(window, credits_file) /\ meta.target_work = window.target_work
      BY <2>3 DEF LedgerInv, FilesInv
    <2> QED
      BY <2>2, <2>3, <2>4, ReplaySame
  <1> QED
    BY <1>1, FilesAlways, PTL

\* Ledger::persist_window and open, if every share is credited in time: a graceful
\* restart changes neither the window nor the share count.
THEOREM LedgerRestartKeepsWindow == LedgerSpec /\ FlushedInTime => RestartKeepsWindow
  <1>1. LedgerInv /\ FilesInv /\ [LedgerNext]_ledgerVars
           => [Restart => UNCHANGED <<window, lifetime>>]_ledgerVars
    <2> SUFFICES ASSUME LedgerInv, FilesInv, Restart PROVE UNCHANGED <<window, lifetime>>
      OBVIOUS
    <2> DEFINE cf == IF rows_on_disk # Len(window.credits) THEN window.credits
                     ELSE credits_file \o credits_out
               m == MetaOf(window.target_work)
    <2>1. Open(cf, window.idents, m)
      BY DEF Restart, FilesInv
    <2>2. window' = Replay(cf, window.idents, m) /\ lifetime' = m.lifetime
      BY <2>1 DEF Open
    <2>3. m.target_work = window.target_work /\ m.lifetime = lifetime
      BY DEF MetaOf
    <2>4. /\ GoodWindow(window) /\ window.idents \in Seq(Idents) /\ Distinct(window.idents)
          /\ cf \in Seq(Rows) /\ Named(cf, window.idents) /\ LastOf(window, cf)
      BY FilesParts, LedgerParts DEF LedgerInv, FilesInv, All
    <2> HIDE DEF cf, m
    <2>5. Replay(cf, window.idents, m) = window
      BY <2>3, <2>4, ReplaySame
    <2> QED
      BY <2>2, <2>3, <2>5
  <1> QED
    BY <1>1, FilesAlways, PTL DEF LedgerSpec, RestartKeepsWindow

-----------------------------------------------------------------------------
(* What a crash loses *)

\* Reverse, position by position.
LEMMA ReverseProperties ==
  ASSUME NEW S, NEW s \in Seq(S)
  PROVE  /\ Reverse(s) \in Seq(S) /\ Len(Reverse(s)) = Len(s)
         /\ \A i \in 1..Len(s) : Reverse(s)[i] = s[(Len(s) - i) + 1]
  <1>1. Len(s) \in Nat /\ \A i \in 1..Len(s) : s[i] \in S
    BY LenProperties, ElementOfSeq
  <1>2. \A i \in 1..Len(s) : (Len(s) - i) + 1 \in 1..Len(s)
    BY <1>1
  <1>3. \A i \in 1..Len(s) : s[(Len(s) - i) + 1] \in S
    BY <1>1, <1>2
  <1> QED
    BY <1>1, <1>3 DEF Reverse

\* A suffix, position by position.
LEMMA SuffixIs ==
  ASSUME NEW S, NEW s \in Seq(S), NEW t \in Seq(S), Len(s) <= Len(t),
         \A i \in 1..Len(s) : s[i] = t[(Len(t) - Len(s)) + i]
  PROVE  IsSuffix(s, t)
  <1> DEFINE p == Reverse(s)
             q == Reverse(t)
             n == Len(s)
             r == SubSeq(q, 1, n)
  <1>1. n \in Nat /\ Len(t) \in Nat /\ n <= Len(t)
    BY LenProperties
  <1>2. p \in Seq(S) /\ Len(p) = n /\ \A i \in 1..n : p[i] = s[(n - i) + 1]
    BY ReverseProperties
  <1>3. q \in Seq(S) /\ Len(q) = Len(t) /\ \A i \in 1..Len(t) : q[i] = t[(Len(t) - i) + 1]
    BY ReverseProperties
  <1>4. \A i \in 1..n : s[i] = t[(Len(t) - n) + i]
    OBVIOUS
  <1> HIDE DEF p, q, n
  <1>5. r \in Seq(S) /\ Len(r) = n /\ \A i \in 1..n : r[i] = q[i]
    BY <1>1, <1>3
  <1> HIDE DEF r
  <1>6. \A i \in 1..n : p[i] = r[i]
    <2> TAKE i \in 1..n
    <2>1. (n - i) + 1 \in 1..n /\ i \in 1..Len(t)
      BY <1>1
    <2>2. p[i] = t[(Len(t) - n) + ((n - i) + 1)]
      BY <1>2, <1>4, <2>1
    <2>3. r[i] = t[(Len(t) - i) + 1]
      BY <1>3, <1>5, <2>1
    <2>4. (Len(t) - n) + ((n - i) + 1) = (Len(t) - i) + 1
      BY <1>1
    <2> QED
      BY <2>2, <2>3, <2>4
  <1>7. p = r
    BY <1>2, <1>5, <1>6, SeqEqual
  <1>8. SubSeq(p, 1, Len(p)) = p
    BY <1>2, SubSeqFull
  <1>9. IsPrefix(p, q)
    BY <1>1, <1>2, <1>3, <1>7, <1>8 DEF IsPrefix, r
  <1> QED
    BY <1>9 DEF IsSuffix, p, q

\* Two windows over the same rows with the same target hold the same rows.
LEMMA LastSame ==
  ASSUME NEW all \in Seq(Rows), NEW v, NEW w, LastOf(v, all), LastOf(w, all),
         w.target_work \in Nat, v.target_work = w.target_work
  PROVE  v.credits = w.credits
  <1> DEFINE t == w.target_work
  <1>1. PICK n \in 0..Len(all) : v.credits = SubSeq(all, n + 1, Len(all)) /\ Trimmed(all, t, n)
    BY DEF LastOf
  <1>2. PICK j \in 0..Len(all) : w.credits = SubSeq(all, j + 1, Len(all)) /\ Trimmed(all, t, j)
    BY DEF LastOf
  <1>3. n = j
    BY <1>1, <1>2, LenProperties, RestNat, TrimmedOnce
  <1> QED
    BY <1>1, <1>2, <1>3

\* The window over fewer rows reaches back at least as far: less work to cover
\* the target with.
LEMMA KeepsWritten ==
  ASSUME NEW file \in Seq(Rows), NEW out \in Seq(Rows), NEW v, NEW w,
         LastOf(w, file \o out), LastOf(v, file),
         w.target_work \in Nat, v.target_work = w.target_work
  PROVE  IsSuffix(SubSeq(w.credits, 1, Len(w.credits) - Len(out)), v.credits)
  <1> DEFINE all == file \o out
             t == w.target_work
             L == Len(file)
             K == Len(out)
             kept == SubSeq(w.credits, 1, Len(w.credits) - K)
  <1>1. /\ all \in Seq(Rows) /\ L \in Nat /\ K \in Nat /\ Len(all) = L + K
        /\ \A i \in 1..L : all[i] = file[i]
    BY LenProperties, ConcatProperties
  <1>2. PICK n \in 0..Len(all) : w.credits = SubSeq(all, n + 1, Len(all)) /\ Trimmed(all, t, n)
    BY DEF LastOf
  <1>3. PICK j \in 0..L : v.credits = SubSeq(file, j + 1, L) /\ Trimmed(file, t, j)
    BY DEF LastOf
  <1>4. SumWork(all) = SumWork(file) + SumWork(out)
    <2>1. SumBy(Work, all) = SumBy(Work, file) + SumBy(Work, out)
      BY Weights, ByConcat
    <2> QED
      BY <1>1, <2>1, SumsBy
  <1>5. \A i \in 1..L : SubSeq(all, 1, i) = SubSeq(file, 1, i)
    BY <1>1, SubSeqOfConcat1
  <1>6. /\ v.credits \in Seq(Rows) /\ Len(v.credits) = L - j
        /\ \A i \in 1..(L - j) : v.credits[i] = file[j + i]
    BY <1>3, RestProperties
  <1> HIDE DEF all, t
  <1>7. /\ w.credits \in Seq(Rows) /\ Len(w.credits) = Len(all) - n
        /\ \A i \in 1..(Len(all) - n) : w.credits[i] = all[n + i]
    <2>1. n \in 0..Len(all) /\ all \in Seq(Rows)
      BY <1>1, <1>2
    <2>2. /\ SubSeq(all, n + 1, Len(all)) \in Seq(Rows)
          /\ Len(SubSeq(all, n + 1, Len(all))) = Len(all) - n
          /\ \A i \in 1..(Len(all) - n) : SubSeq(all, n + 1, Len(all))[i] = all[n + i]
      BY <2>1, RestProperties
    <2> QED
      BY <1>2, <2>2, Zenon
  <1>8. CASE n >= L
    <2>1. Len(w.credits) - K < 1 /\ Len(w.credits) - K \in Int
      BY <1>1, <1>7, <1>8
    <2>2. kept = << >>
      BY <2>1, SubSeqEmpty
    <2>3. << >> \in Seq(Rows) /\ Len(<< >>) = 0 /\ Len(v.credits) \in Nat
      BY <1>6, EmptySeq, LenProperties
    <2>4. IsSuffix(<< >>, v.credits)
      <3> DEFINE e == << >>
      <3>1. e \in Seq(Rows) /\ Len(e) <= Len(v.credits)
            /\ \A i \in 1..Len(e) : e[i] = v.credits[(Len(v.credits) - Len(e)) + i]
        BY <2>3
      <3> HIDE DEF e
      <3>2. IsSuffix(e, v.credits)
        BY <1>6, <3>1, SuffixIs
      <3> QED
        BY <3>2 DEF e
    <2> QED
      BY <2>2, <2>4
  <1>9. CASE n < L
    <2>1. j <= n
      <3> SUFFICES ASSUME j > n PROVE FALSE
        BY <1>1
      <3>1. j \in 1..L /\ j \in 0..Len(all) /\ j \in (n + 1)..Len(all) /\ j # 0
        BY <1>1
      <3>2. SumWork(SubSeq(file, j + 1, L)) >= t /\ t # 0
        BY <1>3, <3>1 DEF Trimmed
      <3>3. SumWork(SubSeq(all, j + 1, Len(all))) < t
        BY <1>2, <3>1, <3>2 DEF Trimmed
      <3>4. SumWork(all) = SumWork(SubSeq(all, 1, j)) + SumWork(SubSeq(all, j + 1, Len(all)))
        BY <1>1, <3>1, SumsParts
      <3>5. SumWork(file) = SumWork(SubSeq(file, 1, j)) + SumWork(SubSeq(file, j + 1, L))
        BY <3>1, SumsParts
      <3>6. SubSeq(all, 1, j) = SubSeq(file, 1, j)
        BY <1>5, <3>1
      <3>7. /\ SumWork(SubSeq(all, j + 1, Len(all))) \in Nat
            /\ SumWork(SubSeq(file, j + 1, L)) \in Nat /\ SumWork(out) \in Nat
        BY <1>1, <3>1, RestNat, SumsNat
      <3>8. SumWork(SubSeq(file, 1, j)) \in Nat /\ t \in Nat
        <4>1. SubSeq(file, 1, j) \in Seq(Rows)
          BY <3>1
        <4> QED
          BY <4>1, SumsNat DEF t
      <3> DEFINE before == SumWork(SubSeq(file, 1, j))
                 inFile  == SumWork(SubSeq(file, j + 1, L))
                 inAll   == SumWork(SubSeq(all, j + 1, Len(all)))
      <3>9. /\ before \in Nat /\ inFile \in Nat /\ inAll \in Nat /\ SumWork(out) \in Nat
            /\ before + inAll = (before + inFile) + SumWork(out) /\ inFile >= t /\ inAll < t
        BY <1>4, <3>2, <3>3, <3>4, <3>5, <3>6, <3>7, <3>8
      <3> HIDE DEF before, inFile, inAll
      <3> QED
        BY <3>8, <3>9
    <2>2. Len(w.credits) - K = L - n
      BY <1>1, <1>7
    <2>3. kept \in Seq(Rows) /\ Len(kept) = L - n /\ \A i \in 1..(L - n) : kept[i] = w.credits[i]
      <3>1. L - n \in 0..Len(w.credits)
        BY <1>1, <1>7, <1>9
      <3>2. kept = SubSeq(w.credits, 1, L - n)
        BY <2>2
      <3> HIDE DEF kept, L
      <3> QED
        BY <1>7, <3>1, <3>2, FirstProperties, Zenon
    <2> HIDE DEF kept
    <2>4. \A i \in 1..Len(kept) : kept[i] = v.credits[(Len(v.credits) - Len(kept)) + i]
      <3> TAKE i \in 1..Len(kept)
      <3>1. /\ i \in 1..(L - n) /\ i \in 1..(Len(all) - n) /\ n + i \in 1..L
            /\ (n - j) + i \in 1..(L - j) /\ (Len(v.credits) - Len(kept)) + i = (n - j) + i
        <4>1. Len(v.credits) = L - j /\ Len(kept) = L - n /\ Len(all) = L + K
          BY <1>1, <1>6, <2>3
        <4>2. /\ n \in Nat /\ j \in Nat /\ L \in Nat /\ K \in Nat /\ i \in Nat
              /\ 1 <= i /\ i <= L - n /\ j <= n
          BY <1>1, <2>1, <4>1
        <4> HIDE DEF L, K
        <4> QED
          BY <4>1, <4>2
      <3>2. kept[i] = file[n + i]
        <4>1. kept[i] = w.credits[i]
          BY <2>3, <3>1
        <4>2. w.credits[i] = all[n + i]
          BY <1>7, <3>1
        <4>3. all[n + i] = file[n + i]
          BY <1>1, <3>1
        <4> QED
          BY <4>1, <4>2, <4>3
      <3>3. v.credits[(n - j) + i] = file[j + ((n - j) + i)]
        BY <1>6, <3>1
      <3>4. j + ((n - j) + i) = n + i
        <4>1. j \in Int /\ n \in Int /\ i \in Int
          BY <1>1, <3>1
        <4> HIDE DEF L
        <4> QED
          BY <4>1
      <3> QED
        BY <3>1, <3>2, <3>3, <3>4
    <2>5. Len(kept) <= Len(v.credits)
      BY <1>1, <1>6, <2>1, <2>3
    <2>6. IsSuffix(kept, v.credits)
      BY <1>6, <2>3, <2>4, <2>5, SuffixIs
    <2> QED
      BY <2>6 DEF kept
  <1> QED
    BY <1>1, <1>8, <1>9

\* Ledger::flush and open, if every share is credited in time: a crash after any of
\* the writes of a flush loses buffered rows only.
THEOREM LedgerCrashKeepsWritten == LedgerSpec /\ FlushedInTime => CrashKeepsWritten
  <1> DEFINE Kept == stops' # stops /\ window'.target_work = window.target_work
                       => \/ IsSuffix(Written, window'.credits)
                          \/ IsSuffix(window.credits, window'.credits)
  <1>1. ASSUME LedgerInv, FilesInv, [LedgerNext]_ledgerVars,
               stops' # stops, window'.target_work = window.target_work
        PROVE  \/ IsSuffix(Written, window'.credits)
               \/ IsSuffix(window.credits, window'.credits)
    <2>1. (\E done \in 0..3 : CrashAfter(done)) \/ (\E t \in Targets : CrashResizing(t))
      BY <1>1 DEF LedgerNext, ledgerVars, Credit, Flush, PersistWindow, SetTarget, Restart
    <2>2. /\ LastOf(window, All) /\ Distinct(window.idents)
          /\ window.idents = idents_file \o idents_out
          /\ Named(All, window.idents) /\ Named(credits_file, idents_file)
      BY <1>1 DEF FilesInv
    <2>3. /\ All \in Seq(Rows) /\ credits_file \in Seq(Rows) /\ credits_out \in Seq(Rows)
          /\ idents_file \in Seq(Idents) /\ window.idents \in Seq(Idents)
          /\ Distinct(idents_file) /\ Named(credits_file, window.idents)
          /\ window.target_work \in Targets \cup {0} /\ window.target_work \in Nat
          /\ window.credits \in Seq(Rows)
      BY <1>1, FilesParts, LedgerParts, TargetNat
    <2>4. ASSUME NEW done \in 0..3, CrashAfter(done)
          PROVE  \/ IsSuffix(Written, window'.credits)
                 \/ IsSuffix(window.credits, window'.credits)
      <3> DEFINE cf == IF done >= 2 THEN credits_file \o credits_out ELSE credits_file
                 idf == IF done >= 1 THEN idents_file \o idents_out ELSE idents_file
                 m == IF done >= 3 THEN MetaOf(window.target_work) ELSE meta
      <3>1. Open(cf, idf, m)
        BY <2>4 DEF CrashAfter
      <3>2. cf \in Seq(Rows) /\ idf \in Seq(Idents) /\ m \in Metas /\ Distinct(idf)
        BY <1>1, <2>2, <2>3, LedgerParts DEF All
      <3>3. Named(cf, idf)
        BY <2>2, <2>3 DEF All
      <3>4. cf = All \/ cf = credits_file
        BY DEF All
      <3> HIDE DEF cf, idf, m
      <3>5. LastOf(window', cf)
        BY <3>1, <3>2, <3>3, OpenFiles
      <3>6. CASE cf = All
        <4>1. window'.credits = window.credits
          BY <1>1, <2>2, <2>3, <3>5, <3>6, LastSame
        <4>2. Len(window.credits) \in Nat /\ Len(window.credits) <= Len(window.credits)
          BY <2>3, LenProperties
        <4>3. \A i \in 1..Len(window.credits) :
                 (Len(window.credits) - Len(window.credits)) + i = i
          BY <4>2
        <4>4. IsSuffix(window.credits, window.credits)
          BY <2>3, <4>2, <4>3, SuffixIs
        <4> QED
          BY <4>1, <4>4
      <3>7. CASE cf = credits_file
        <4>1. LastOf(window', credits_file) /\ LastOf(window, credits_file \o credits_out)
          BY <2>2, <3>5, <3>7 DEF All
        <4>2. IsSuffix(SubSeq(window.credits, 1, Len(window.credits) - Len(credits_out)),
                       window'.credits)
          BY <1>1, <2>3, <4>1, KeepsWritten
        <4> QED
          BY <4>2 DEF Written
      <3> QED
        BY <3>4, <3>6, <3>7
    <2>5. ASSUME NEW t \in Targets, CrashResizing(t) PROVE FALSE
      <3>1. Open(All, window.idents, MetaOf(t)) /\ t # window.target_work
        BY <2>2, <2>5 DEF CrashResizing, All
      <3>2. MetaOf(t) \in Metas /\ MetaOf(t).target_work = t
        BY <1>1, LedgerParts DEF MetaOf
      <3>3. window'.target_work = MetaOf(t).target_work
        BY <2>2, <2>3, <3>1, <3>2, OpenFiles
      <3> QED
        BY <1>1, <3>1, <3>2, <3>3
    <2> QED
      BY <2>1, <2>4, <2>5
  <1>2. LedgerInv /\ FilesInv /\ [LedgerNext]_ledgerVars => [Kept]_ledgerVars
    BY <1>1
  <1> QED
    BY <1>2, FilesAlways, PTL DEF LedgerSpec, CrashKeepsWritten
=============================================================================
