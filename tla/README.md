# Wavicles Prime in TLA+

Prime is the pool server of a DATUM mining pool. Miners' gateways connect to it, each building its
own block templates. Prime tells them what their coinbase must pay, checks every share they send,
keeps a sliding window of credited work, and splits each block's value over that window. This
directory models the parts of it that hold state, checks them with TLC on small instances, and
proves properties of eleven of them with TLAPS for every instance. `PROJECT.json` lists components, runs, mutants,
findings, hazards, theorems, and the source lines behind every definition.

## Inventory

| Component | State | Operations | Talks to |
|---|---|---|---|
| Share path (`session.rs` `on_pow`, `state.rs` `SeenShares`) | node tip, dedup set per height, its total | receive, staleness test, verify, insert, credit; prune on a timer | every session, poller, housekeeping, ledger |
| Share window and ledger (`tides/lib.rs`) | window rows, per-identity totals, identity table; two append-only files behind BufWriters, a meta file | credit, flush, sync, persist, compact, resize, open | sessions, housekeeping, poller |
| Block records and carry (`state.rs`, `node.rs`, `lib.rs`) | records in memory and `blocks.jsonl`, carry ledger and `carry.json` | record, submit, confirm, orphan, settle into carry | sessions, submission tasks, poller, the node |
| Split (`tides/split.rs`) | none (pure) | fees, dust, budgets, cap, carry | coinbaser requests, block accounting |
| Coinbase classification (`wire/verify.rs`) | none (pure) | Split / Partial / PoolOnly / Foreign | share verification |
| Coinbaser issue and block accounting (`session.rs`) | issued lists per session, one record per block | issue, judge, record, settle | split, classification, carry |
| Job slots (`wire/verify.rs`, `session.rs`) | sections per slot, two caches, byte count, live list | absorb, evict, drop, verify | share path |
| Runtime controls (`controls.rs`, `main.rs`) | controls in force and their mtime | watch, load, apply | the control plane, sessions |
| Connection limits (`state.rs`, `main.rs`) | count in total and per address, clients' rows | ban test, admit, hello, release | accept loop, sessions, controls |
| Session lifecycle (`session.rs`) | input buffer, keys and nonces, timers, token bucket, recent rejects, pending blocks | read, cut, handle, tick, reject, validation replies, sweep | its gateway, share path, split |
| Window snapshots (`snapshot.rs`, `stats.rs`) | one file per issued list, named by its hash | publish, keep, prune | coinbaser requests, block records |
| Wire format (`wire/`) | key and nonce streams | frame headers, messages, lists, nonce carry | session |
| Proof of work and coinbase bytes (`wire/pow.rs`, `coinbase.rs`) | none (pure) | targets, comparison, merkle folding, varints, assembly, parsing, witness | share verification, block assembly |
| Statistics, RPC client, addresses, configuration | – | serialisation and I/O | – |

What is hard here: sessions are concurrent tasks that take several locks one after another; the
poller, the housekeeping timer, submission tasks and the watcher run beside them; state is
spread over files written in separate steps while the process may stop between any two; and
the amounts must balance over several blocks although each gateway may build a different
coinbase from the list it was given. For each component, correctness means:

* share path: a share counts once, and what counts is remembered for as long as it could be sent again;
* ledger: the running sums are the rows, the files replay to the window, rows keep their owners;
* carry: each block's unpaid sats enter the ledger exactly once, across crashes and reorganisations;
* payout: no miner loses a sat, the pool can always return what it owes, lists are exact;
* job slots: memory stays within its bounds and no cache outlives what it was derived from;
* controls: the current file comes into force, and nothing lifts controls but its removal;
* connections: the counts are the sessions alive, and a ban keeps its addresses out;
* session: frames are handled once and in order however the bytes arrive, its watchdogs and cost limits
  hold whatever the peer sends, every block candidate is resolved, from its own job's transactions;
* snapshots: what a block commits to stays on disk, everything else goes;
* bytes: what is written reads back, what is cut short is refused, numbers are the ones the bytes mean.

## Modules

`MC*` modules give model values; `MCWire` also puts `Wire` and `Frames`, which share no state, into one run. Every run's
cfg gives constants and replaces no definition.

**`ShareCredit`** follows a share through `on_pow`. The steps are those between which other tasks
run: `Receive` (with the check that the username resolves to a payable identity, `session.rs:548`), `CheckTip` (one read
of the tip), `VerifyFails` or `Insert` (seen lock), `Credit` (ledger lock and receipt, with the refusal of an unpayable
identity that comes after the insert, `session.rs:647`). That this refusal is never reached rests on the
check before: without it `SeenIsCredited` fails. `NewTip` is the poller, `HouseRead`/`HousePrune` housekeeping's read of
the tip and its later `prune_below`, `Restart` a stop of the process at any point. `seen` is
`by_height` flattened, as a hash commits to its height. `credited`, `high` and `floor` are
history. Two facts are assumptions, not code. `MarginAssumption`: the node falls back at most two
blocks below an earlier tip, and a share's tip check is at most two blocks old when housekeeping
reads the tip (`on_pow` does not await between its check and its insert; blocks are minutes apart). `Prompt` says so where
housekeeping reads; a share let through before the first tip, when nothing is tested, is there assumed to be at a height
the first tip's pruning keeps.
`prune_below(tip - 2)` relies on exactly this: with a fallback of three TLC finds a live share forgotten
(`DedupCoversLive`), with a lag of three a double credit.

**`TidesWindow`** holds the window's operations as pure operators, **`TidesLedger`** the files around
them: `Credit`, `Flush`, `PersistWindow`, `SetTarget`, `Restart`, `CrashAfter(done)` (after `done` of the
three writes of a flush) and `CrashResizing`. Each handler holds the ledger's mutex. A crash loses
the BufWriters and keeps what was written. A row's `owner` is a history field. Its specification is
`LedgerSpec`, so that it and `BlockCarry` can be proved about in one module.

**`BlockCarry`** has one action per step between which a crash or another task matters:
`update_block` is a change under the lock and a later append, so `SubmitAnswered`/`SubmitAppend` and
`ConfirmMain`/`PollerAppend` are pairs, and settling is `ApplyCarry`, `SaveCarry`, `MarkCarried`,
`PollerAppend`. It follows the balance of one identity. The history `stale` says of a block whether the line logged last is
an open copy that took back a settled one, and whether a restart then read it.

**`Split`** and **`CoinbaseCheck`** are `compute_with_carry` and `classify_coinbase` as operators, over **`Sums`** (which `TidesWindow`
uses too). `IsParams` is what `Config::load` and `Controls::load` let through: no fee over 100 %.
**`Payout`** composes them: `IssueCoinbaser`, the gateway's coinbases (external: every prefix of the
list with the rest to the pool, or the list rescaled to another template value), `FindBlock`
(`on_block_candidate`), `Settle`; `Reconnect` and `Reissue` are a session that ends and its ids being
issued again. Template values are positive, so the `max(1)` output for a worthless template does not arise.

**`JobSlots`** is one session's memory: a share is one step, as the task does not await between
absorbing sections and verifying. A header is the record of what H2 commits to (an ideal hash).

**`Controls`** is the watcher against a control plane that writes, breaks and removes the file
between its looks at it. A state of the file is numbered, and the number is its mtime.

**`Admission`** composes `Controls` with the accept loop: `Accept` (ban test, then `Connections::admit`, which
enters the address before it tests the address's limit), `Hello` (the clients' row), `Leave` (the session's
future ends in any way and drops its row) and `GiveBack` (`ConnectionSlot` is dropped). A ban does not cut a
session that is already there, in the code as in the model.

**`SessionLoop`** is one session's task: hello, configuration, then the select loop with its read, block
notification and tick; a read may complete several frames, each handled to the end before the next. A write
waits while the peer does not read, and nothing else of the task runs meanwhile. Time is ages in ticks.

**`Frames`** is the inbound byte stream: `Send` (external), `Read(n)` for every n, `CutHeader`, `CutPayload` with
`handle_frame`'s decryption. `handle_frame` may write a reply, and the select loop a notification or a keepalive (`LoopWrites`);
`Written` ends a write, if the gateway ever reads it, and nothing is read or cut until then. Bytes are places in the stream, keys and nonces their numbers in their
sequences; a header cut anywhere else than at a frame, or under another key, decodes to anything.
**`Fifo`** is what it promises, and `ImplementsFifo` the refinement: `queue` is the frames sent and not handled, `open`
whether the session serves, waits in a write or has ended. Handling is promised if the waits end. Its specification is `StreamSpec`.

**`Candidates`** is `pending_blocks` between gateway and Prime over two FIFO channels: `OnBlockCandidate`,
the gateway's answers (right, refused, short ids, repeated, unasked, never), `OnValidation`, the tick's sweep,
reconnecting. The table says how often a job id's list holds a candidate: nothing depends on the list's order. A handler or the
loop may go on into a write (`busy`), which `Written` ends if the gateway reads; neither frames nor ticks are handled before.
`EarlyReuse` says whether the gateway may put a job id on a new template while candidates of
the old one are unanswered.

**`Coinbasers`** is the ring of issued lists with its one-byte ids, their snapshot files, block records, and
housekeeping, which first reads the records and then goes through the directory file by file. One margin is an
assumption (`MarginAssumption`): when a job is solved its coinbaser is younger than `KEEP_SECS` by more than one pass over the
directory takes. Nothing is assumed of the ids: a record notes how many lists were issued since its own (`lag`), which may be
more than there are ids, and `OwnList` tells the two cases apart. Its specification is `IssueSpec`.

**`Targets`** (share target, nBits, comparison, nonce carry, merkle branches and root), **`Messages`**
(`PowSubmit`, job-validation replies, coinbaser list v2) and **`CoinbaseTx`** (varints, assembly, parsing,
witness) are the wire crate's pure functions, with the byte's base and the fields' widths as constants;
**`Wire`** tries them on one input per step. Hashes are ideal: a node of the merkle tree is the pair below it.

The theorems are in modules of their own: **`ShareCreditProofs`**, **`ConnectionProofs`** (`Controls`, `Admission` and `Frames`: a
gateway's connection from the door to the frames), **`SessionProofs`** (`SessionLoop` and `Coinbasers`), **`CandidatesProofs`**,
**`JobSlotsProofs`**, **`DurableProofs`** (`BlockCarry` and `TidesLedger`, the state that outlives the process) and **`PayoutProofs`**.
**`LoopLemmas`** has the lemmas about loops, sums and sequences that the last two share. Two models proved about in one
module have different names for their specifications, as in `Spec` and `LedgerSpec`.

## Runs that pass

| Run | Bounds | Shows |
|---|---|---|
| `share_credit` | 2 sessions, 3 shares at 2 heights, 2 identities of which one is not payable, tips 0–4, caps 1 and 2, 1 restart | `CreditedOnce`, `DedupCoversLive`, `SeenBounded`, `SeenIsCredited` |
| `ledger` | 2 identities, work 1–2, targets 2 and 4, 5 shares, 2 crashes, slack 1, no spill | sums, replay, owners, file size, what crashes and restarts keep |
| `carry` | 2 blocks, one with a submission task, 3 chain changes, 2 crashes | `AppliedOnce`, `CarriedIsSaved`; `MainIsCarried` while Prime lives |
| `payout` | 4 pools, up to 4 identities, work 0/1/2/5, 2 blocks, every prefix; one pool's gateway reconnects, one rescales, one caps payees | conservation, solvency, list sound, carry deducted is carry paid |
| `job_slots` | 2 slots, 2 jobs, 3 ids, 3 section sizes, 2 share times, every limit reachable | byte count, budget, caches |
| `admission` | 2 valid contents, 3 writes, 1 restart, 4 gateways of 3 addresses, 2 in all and 1 per address | mtime means contents, never fails open, slots are sessions, the last file and its bans take effect |
| `session` | limits of 1 and 2 ticks, burst 2, a refill in 3 ticks, flood 2, reads of up to 2 frames | watchdogs, bounded cost, a silent peer is dropped |
| `coinbasers` | 5 lists, 3 ids, ring of 2, jobs up to 4 lists old, 2 blocks, ages to 3, 1 record kept | own list or none until the id has come round, snapshots of blocks stay, others go |
| `candidates` | 2 blocks, 2 job ids, 2 templates, TTL 2, 2 sessions, 1 unasked reply each | own transactions, held exactly while pending, resolved unless a write waits for ever |
| `wire` | 5 frames of 3 kinds, headers of 2 bytes, payloads of 0, 1 and 3, reads of 1 to 4 bytes; all targets of 4 two-bit bytes, trees of up to 10 leaves, 960 share messages cut at every byte, lists at their limits, coinbases at every limit of 3-bit bytes | `ImplementsFifo` with its liveness, buffer bounded; reference definitions agree |

The bounds let each interesting case happen: two sessions racing on a share, a height whose cap is
reached, a prune between a check and an insert, a window trimmed by one row and by several, a
compaction on flush and on open, a coinbase of every length, both caches full, a write at each of the
watcher's three looks, a gateway refused by each limit and by a ban, a header and a payload split over reads,
a second frame behind a refused one, an id that has come round when its old job is solved, a block
found in the middle of a pass, an answer that arrives after the sweep or for the id's next template, a level
of the merkle tree with an odd number of nodes at every height. Symmetry is used in `job_slots` (slots, jobs, ids) and
`ledger` (identities), where the values are interchangeable and no liveness is checked. Every
property has a mutant of a mapped definition that breaks it.

## The runs that fail, and what they show

Two places where the code does other than a comment says; `PROJECT.json` quotes both sides.

* `ledger_spill`: rows reach `credits.bin` before the identities they name; a crash there lets a later identity take
  the rows over on the next open.
* `payout_default`: with `commit-snapshot` on, as it is by default, a gateway whose session ended goes on mining its old job
  on the next one, where coinbaser ids start over. The coinbase lacks the commitment of the list it is compared with, and
  `classify_coinbase` returns Partial before it looks at any amount (`verify.rs:221`), though Partial is said to mean outputs
  "present, each paid in full" (`verify.rs:150`): `PaidInFull` is violated.

The models contain further divergences, met while they were written. No run is kept for them; the
properties above are stated, and the bounds chosen, so as not to depend on them:

* `update_block` appends outside the lock (`state.rs:363`), so an older copy of a record can be logged last; after
  a crash its block is carried twice, though `apply_carry_for_settled` "runs once per block"
  (`state.rs:294`). `AppliedOnce` excepts a block exactly where a restart read such a copy (`stale[b] = "read"`);
  whether the block has a submission task, and crashes as such, excuse nothing;
* carry is copied into a list and deducted when its block settles (`session.rs:396`), nothing is reserved: two
  blocks found on lists issued from one balance both pay it ("the pool nets exactly its fee", README.md:117);
* a gateway that rescales the list to a newer template's lower value pays less carry than settling deducts
  (`session.rs:744` against `tides/src/lib.rs:510`); `CarryPaidOut` leaves the rescaling pool out;
* with `max-payees`, what was cut is carried although the largest payee was given it (`session.rs:481`
  against `split.rs:94,172`); hence `Plain` in `NothingLost` and `PoolCoversCarry`;
* the cap rates the payees it keeps again, by work alone, and does not look at `min_payout` afterwards (`split.rs:186`): where
  identities have different fees, one with a lower fee gets less than when it was tested and may end below the
  "Smallest output the split will emit" (`split.rs:19`). `ListSound` claims the floor of lists without a cap;
* a peer that stops reading holds its task in a write and with it its slot (`session.rs:271` is not
  reached), with the frames behind the write uncut and the candidates unswept; hence the conditions in `SilentEnds`,
  `ImplementsFifo` and `Resolved`;
* a candidate that is swept or lost with its session stays "pending" on its record for good;
* a reply names a job id only: if the gateway reuses the id earlier than it answers, candidates are assembled
  from another template's transactions (`EarlyReuse = TRUE` violates `OwnTransactions`) and the node refuses them;
* the dedup set does not survive a restart, so "credited once, ever" (`state.rs:90`) is once per run;
* a crash between the settled line and `carry.json` loses a block's unpaid sats, because
  `confirm_blocks` skips settled records; hence the condition in `MainIsCarried`;
* a block settled at one confirmation stays settled when the chain leaves it;
* a pool-only block without a known coinbaser records the payees of a fresh split and not its dust
  (`session.rs:774`); the pool that reconnects therefore has a minimum payout of one sat;
* because of `payout_default`'s case, the pool that reconnects in `payout` has no commitment;
* the list "is complete", so that no fee is burned (`session.rs:445`), but `max_outputs` leaves room for the pool's output
  alone (`main.rs:283`): 511 payees, a commitment and the pool's output are 513, and `encode_v2` drops what comes after 512
  (`coinbaser.rs:34`), the pool's fee. The byte budget stops payees at common addresses at 449; it takes
  scripts of at most 18 bytes on average, which `address.rs:80` accepts (witness programs of version 1 and up of
  at most 16 bytes). `PayeesListed` names this one exception and claims a complete list everywhere else;
* `nbits_to_target_le` gives None for every exponent past 32, also where the mantissa is small enough for the value to fit
  (0x2100ffff), though None is said to be for what "does not fit or is negative" (`pow.rs:277`). No node writes such bits:
  `WorkExact` asks for a target for the bits a node writes, and never a wrong one or one that does not fit;
* a job solved 255 lists or more after its own is judged by another's list, the newest with its id;
* of two outputs to one script, one may be missing from a coinbase judged Split (`verify.rs:271`); usernames are
  canonicalised, so this needs identities that entered by import, and the runs give each its own script;
* dust of an identity without a script is carried (`split.rs:152`), so `NothingLost` is about payable ones;
* the H2 cache ignores the share's time, which the header commits to (`verify.rs:362`), so
  `CachesFollowSections` leaves the time out;
* an evicted slot fills again without returning to the live list (`session.rs:571`);
* a restart while `controls.json` is broken starts without the controls (`main.rs:271`), so
  `NeverFailsOpen` is about one run of the process.

## Fairness

* `BlockCarry`: weak fairness of the poller and of a task holding a copy to append; strong fairness of
  confirming a block, because each pass goes over every unsettled record (up to the 20 newest, which two
  blocks never exceed), so a block that is confirmable again and again is confirmed.
* `Admission`: weak fairness of the watcher's loop, and of dropping the slot of a task that ended. Gateways
  connect and leave as they please.
* `SessionLoop`: weak fairness of the task where it does not wait for its peer; strong fairness of the tick and of
  time, because select! picks among the ready branches at random and so the tick is not passed over for ever.
* `Frames`: TCP delivers what was written while the connection lasts, and the task reads it whenever it comes back to
  select! again and again (strong fairness of the read); a task with bytes in hand and no write under way goes on cutting.
  The gateway owes nothing, not even to read: `Fifo` promises handling only if the waits end.
* `Candidates`: time passes; the tick comes whenever the loop is free again and again (strong fairness, as for
  `SessionLoop`) and a free loop handles the frames that arrived. A write ends only if the gateway reads, which nothing
  promises: `Resolved` is conditional on it. The gateway need not answer either.
* `Coinbasers`: time passes and housekeeping goes round.
* `ShareCredit`, `TidesLedger`, `Payout`, `JobSlots` and `Wire` have no liveness properties and no fairness.

## Proofs

`ShareCreditProofs` assumes only the constants' types, a finite set of shares and `MarginAssumption`.

* `TypeCorrect`, `SeenWithinCaps`: `TypeOK` needs `SeenBounded` (else `total - n` could go below zero), so
  both are proved together (`BaseInv`). Pruning needs that removing a part of a finite set removes its size.
* `NoDoubleCredit`, `PruningIsSafe`: neither is inductive. `CreditInv` adds what ties them to the
  staleness test: the tip is within `MaxReorg` of its highest value and everything pruned is below
  `KeepFrom` of that (`TipInv`); a share past its tip check is above all that was or is about to be pruned
  (`FlightInv`); a share between insert and credit is uncredited and held by one session (`InsertedInv`);
  a credited share is recorded or below the floor (`CreditedInv`). A resend of a credited share
  is then either a duplicate, or below the floor and refused as stale.
* `RecordedIsCredited`: a session past the address check holds a payable identity (`HoldsShare`), so whatever is in
  `seen` is credited or in the hands of a session whose credit is not refused.

`ConnectionProofs`, first part, is about the watcher alone and then composed. Of the watcher it assumes that `Bad`, `Absent` and
`Defaults` are no valid contents. `WatcherStampsWhatItRead` follows from `StampInv`: what is in force, or read and
about to be, is the file's contents at some time not before its mtime. The watcher takes the mtime before the text, so
every step keeps it; if the mtime is the current one, that time can only be now. `WatcherNeverFailsOpen` is inductive
once the types are known: only a load that finds no file clears the controls, and the file's past does not change.
Of the composition it assumes finitely many gateways and limits that are not zero. `SlotsExact`: `SlotsAreSessions` is
inductive with the types; the argument is that an address has an entry exactly when its count is not zero, so
the entry `admit` makes before it refuses was there already, and that `release`'s saturation never bites.
`BansNeverFailOpen`: every step of the composition is a step of `Controls` or leaves it alone, so the watcher's
invariants carry over.

`ConnectionProofs`, second part, is about `Frames` and assumes the constants' types and a header of at least one byte. `FramesInStep` proves `FrameInv`: frames follow
each other without gaps, keys and nonces counting along (`StreamInv`); the receiver stands at the frame after those
handled, under its key and nonce (`StepInv`); what was handled is a prefix of what was sent (`PrefixInv`). A
header is then only ever decoded where one is, and `FramesImplementFifo` follows step by step: a send is
`Enqueue`, a payload accepted is `Handle`, an end is `Close`, everything else stutters. `InBufIsBounded`
needs that a session that waits holds less than one part of a frame (`BufferInv`).

`DurableProofs`, first part, assumes the constants' types only: any blocks, sessions, amounts, reorganisations and crashes.
`CarriedSaved` and `OnceApplied` come from `CarryInv`. A task or poller holds only records of blocks in memory
(`HoldersInv`); each copy that says carried, wherever it is, is of a block that is saved, and what is saved was applied
(`SavedInv`); the line the poller is about to log agrees with its place in the settling (`PollerInv`). `OnceInv` is the
core: once a block's sats are applied its record is no longer open, in memory and, unless an older copy was logged after it
(`stale`), in the log; so neither a later pass nor, unless it read such a copy, a pass after a crash starts it again.

`DurableProofs`, second part, is about `TidesLedger` and assumes the constants' types. `LedgerTyped` and `LedgerWindowExact` hold
of `LedgerSpec` as it is. The other five hold under `FlushedInTime`: a share is credited only while no identity
waits behind a full buffer of rows. Housekeeping flushes every few seconds and the buffer takes some 340 rows, so this is the
normal case, but the code does not enforce it, and `ledger_spill` shows what happens without it. The argument:

* a loop over rows (`SumOf`, `TableOf`, `Loaded`) is a recursive function; that it exists, is unique and takes one step per
  row is proved for any loop (`RunExists`, `RunSame`, `ResultAppend`) by induction on a set of sequences;
* a window is a function of the rows credited and the target: the sums of its rows, cut to the shortest run of newest rows that
  reaches the target (`WinOf`, `Trimmed`, `LastOf`), and there is one such run (`TrimmedOnce`). `LedgerInv` says so of the window
  in memory, which is `WindowExact`;
* `FilesInv` ties the files to it: the identity table is `identities.txt` and what is still buffered, without a name twice;
  each row of the file names a line of it; the window is the end of file and buffer together. Opening the files
  goes through the same rows with the same target, so `TrimmedOnce` gives `LedgerReplayExact` and
  `LedgerRestartKeepsWindow`; a crash loses the newest rows, and with fewer rows a window of the same target
  reaches back at least as far, which is `LedgerCrashKeepsWritten`. `CleanInv` adds that a flush leaves nothing behind.

`SessionProofs`, second part, is about `Coinbasers` and assumes the constants' types and `MarginAssumption`. The ring holds exactly the
`KEPT` newest coinbasers, or all while there are fewer, each under its id (`RingInv`). Of the entries with a job's id the one
found from the newest back is not older than the job's own, and its distance from it is a multiple of `IDS`; less than
`IDS` lists later it is the job's own, if that is still in the ring, and else there is none: `JudgedByOwnList`. What is found
may belong to a newer list, whose file is the younger for it; so `NamedKept` does not need the ids' margin. It needs that a file of the ring is there
or too old for any job (`FilesInv`), and of each record that its file is there and safe from the pass under way,
being on its list or too young to be removed before the pass ends (`RecordsInv`).

`PayoutProofs` assumes finitely many identities, pools with parameters that pass `IsParams`, positive template values and
natural numbers for work and script length: any fees, overrides, budgets, cap, windows, templates and number of blocks.

* `ComputeSound` is about `compute_with_carry` as an operator: its result spends the value to the sat, within `max_outputs`
  and `output_budget_bytes`, pays no carry that is not owed and, without a cap, nothing below `min_payout`. So the comment
  "`paid` cannot exceed `value`" holds, the subtraction `distributable - sum` does not wrap and `saturating_sub` never
  saturates. Each of the three parts has its lemma. `PlaceIs`: after k miners the payees are different, among those k, within the
  budgets, and what is paid so far is at most what the work so far is worth (`Earned`); this must be carried along for the sum of
  many roundings to stay below the value. `CapIs`: sorting permutes the payees (`Ranked` counts what
  comes before; `PlaceExists` shows that the counts are 0 to n - 1), the kept shares sum to at most what is distributed, and the dust
  fills it up. `PayIs`: each entry of the ledger takes at most what the value still covers, and is served once.
* `ListsSound` needs in addition what the phases keep: `PayoutInv` has the types (`PayoutTypes`), a record whose entries are amounts of
  identities (`RecordType`, so that settling leaves a carry ledger of natural numbers), and that the split issued last is
  sound for the carry in force and its outputs sum to its value (`IssuedSound`; `OutputsIs` for the list with the pool's
  output and the commitment).

`CandidatesProofs`: `TableExact` needs only that a candidate's frame is the one of its block and comes before its record
(`FramesInv`). `TransactionsOwn` also assumes `~EarlyReuse`. What makes it inductive is `Covered`: for a candidate in the
table, either the gateway still has a request for its job id, and then the id is on the candidate's template and
nothing else for that id is under way; or the answer is under way, and nothing before it is of another
template. The first answer resolves the candidate, so what comes after it does not matter.

`JobSlotsProofs` assumes limits that are not zero and distinct model values. `Faithful` (every cached entry is derived
from the slot's present job and section) is kept by each operation of a slot on its own: absorbing, dropping,
evicting and verifying are a lemma each, and a share is a sequence of them. `SlotsLimited` is proved along with it.
`HeldCounted` also assumes finitely many slots. `SumFunction` adds up in an order nobody knows; a sum is shown to be any one of its
terms and the sum of the others (`SumWithout`), by induction on the subsets of a finite set (`SetInduct`), so a
count that follows one slot equals a recount. Within the budget: a share that brings no section in adds nothing, and
dropping the section that broke the budget leaves no more than there was, although the job change before it may have
evicted slots. The saturating subtractions of `on_pow` and `drop_coinbase` therefore never saturate.

`SessionProofs`, first part, is about `SessionLoop` and assumes that the limits are numbers, a refill takes time and the keepalive is shorter than the
idle limit. `WatchdogsNeverLate`: the clock the watchdog reads is the peer's silence (`RecvInv`), and between two
ticks the clocks are as the last tick left them or younger (`TickInv`). `CostNeverPassed`: the pruned deque and
the true list of rejects agree within the window, although the deque is pruned only when a reject is noted
(`FloodInv`); and from each split on, the splits since, the tokens left and the time since the last refill are paid for
by a full bucket and the time passed (`BucketInv`). The proof corrected the property: the period under way at the
first split may be all but up, so the bound counts every period begun; an earlier bound, which TLC had not
refuted at a refill of two ticks, fails at three, and the run now has three.

TLC checked these invariants on the small instances first. The prover cannot instantiate the library's induction theorems, which
take an operator; where a proof needs induction over data it takes the least counterexample of a set. Only model-checked:

* all liveness, as the prover has no ENABLED: `MainIsCarried`, `CatchesUp`, `BanTakesEffect`, `SilentEnds`,
  `OthersGo`, `Resolved` and the fairness half of `ImplementsFifo`;
* the other properties of `Payout`, which follow amounts over several blocks through `classify_coinbase`: `NothingLost` and
  `PoolCoversCarry`, whose rounding slack is counted for the pools of the run, and `CarryPaidOut`, which needs
  scripts that differ per identity;
* the recursive byte algorithms under `Wire`.

## Not modelled

Power loss (fsync, torn rows), failing writes, `import_json_credits`, saturation at 2^64, the
coalescing `Window::credit` (Prime credits through `credit_row`), `carry-forward = false`, the poller's
limits (20 records, 2000 and 100 blocks) and the 10 000-record cap of `BlockCarry`, the BufWriter of the identities
spilling by itself, a block share resent after a restart, identity bans in `on_pow` (a refusal like any other in
`ShareCredit`), the contents of snapshots, heights pushed by OP_1 to OP_16. Cryptographic primitives and
hash functions are ideal, the hello's layout is not looked into. HTTP, RPC, addresses and configuration
hold no state that a model could check better than the unit tests do.

## Plan

1. Done: the modules above and the proofs of `ShareCredit`, `Controls`, `Admission`, `Frames`, `BlockCarry`, `TidesLedger`, `Coinbasers`,
   `Candidates`, `JobSlots`, `SessionLoop` and of the list `Payout` issues.
2. Theorems next: `CarryPaidOut` for scripts that differ; the dust floor under a cap for equal fees; the
   refinement of the abstract share ledger below.
3. Abstract specifications: a share ledger that credits each share at most once, implemented by
   `ShareCredit`; a durable window that only loses a suffix on a crash, implemented by `TidesLedger`.
4. `BlockCarry` with the poller's limits and with failing writes; `TidesLedger` with torn rows.
