---------------------------- MODULE TidesLedger ----------------------------
(***************************************************************************)
(* The durable share window (struct Ledger): the window in memory, the two *)
(* append-only files behind BufWriters, and the meta file.  Sessions credit*)
(* shares, housekeeping flushes, the node poller resizes the window; each  *)
(* holds the ledger's mutex, so the handlers exclude each other, but the   *)
(* process can stop between any two writes of a handler.                   *)
(*                                                                         *)
(* A process crash loses the BufWriters and keeps what was written to the  *)
(* files.  Power loss (fsync, torn rows) and failing writes are left out.  *)
(***************************************************************************)
EXTENDS TidesWindow

CONSTANTS
    Idents,         \* miners' payout identities
    Works,          \* work a share may carry
    Targets,        \* window targets the node's difficulty may ask for
    COMPACT_SLACK,  \* rows beyond the window before a flush compacts (8192)
    BUF_ROWS,       \* rows the credits BufWriter holds (8 KiB / 24)
    MaxShares,      \* bound: shares credited over all runs
    MaxStops        \* bound: crashes

ASSUME LedgerAssumption ==
    /\ Works \subseteq Nat \ {0}
    /\ Targets \subseteq Nat \ {0}
    /\ COMPACT_SLACK \in Nat
    /\ BUF_ROWS \in Nat \ {0}
    /\ MaxShares \in Nat
    /\ MaxStops \in Nat

VARIABLES
    window,        \* Ledger::window
    lifetime,      \* Window::lifetime_shares
    credits_out,   \* rows still in the credits BufWriter
    idents_out,    \* identities still in the identities BufWriter
    rows_on_disk,
    dirty,
    credits_file,  \* credits.bin
    idents_file,   \* identities.txt
    meta,          \* window.json
    made,          \* history: shares credited over all runs
    stops          \* crashes so far

mem  == <<window, lifetime, credits_out, idents_out, rows_on_disk, dirty>>
disk == <<credits_file, idents_file, meta>>
ledgerVars == <<mem, disk, made, stops>>

NoMeta == [target_work |-> 0, lifetime |-> 0]

Rows == [ident : Nat \ {0}, work : Works, owner : Idents]

\* Types: rows in memory and on disk name identities of the table, and the meta
\* file holds a target and a share count, in their fields.
LedgerTypeOK ==
    /\ window.idents \in Seq(Idents)
    /\ window.credits \in Seq(Rows)
    /\ window.total_work \in Nat
    /\ window.target_work \in Targets \cup {0}
    /\ lifetime \in 0..MaxShares
    /\ credits_out \in Seq(Rows) /\ Len(credits_out) <= BUF_ROWS
    /\ idents_out \in Seq(Idents)
    /\ rows_on_disk \in Nat
    /\ dirty \in BOOLEAN
    /\ credits_file \in Seq(Rows)
    /\ idents_file \in Seq(Idents)
    /\ meta \in [target_work : Targets \cup {0}, lifetime : 0..MaxShares]
    /\ made \in 0..MaxShares
    /\ stops \in 0..MaxStops

-----------------------------------------------------------------------------
(* Ledger::open as a function of the files *)

\* The identity table: lines in order, each interned once.
TableOf(idf) ==
    LET read[k \in 0..Len(idf)] ==
          IF k = 0 THEN << >> ELSE Intern(read[k - 1], idf[k])
    IN  read[Len(idf)]

\* Mutant of Readable: positions taken to count from zero.
ReadableFromZero(row, idents) == row.ident < Len(idents)

\* A row whose identity is not in the table is skipped, and not counted.
Readable(row, idents) == row.ident <= Len(idents)

\* The rows file over the identity table, before anything is trimmed.
Loaded(cf, idf) ==
    LET read[k \in 0..Len(cf)] ==
          IF k = 0 THEN [EmptyWindow EXCEPT !.idents = TableOf(idf)]
          ELSE LET w == read[k - 1]
               IN  IF Readable(cf[k], w.idents) THEN PushRaw(w, cf[k]) ELSE w
    IN  read[Len(cf)]

Replay(cf, idf, m) == SetWindowTarget(Loaded(cf, idf), m.target_work)

Overgrown(rows, w) == rows > Len(w.credits) + COMPACT_SLACK

\* Ledger::open: replay the files cf, idf and m, compact if overgrown. The
\* files are not rewritten otherwise.
Open(cf, idf, m) ==
    LET w    == Replay(cf, idf, m)
        rows == Len(Loaded(cf, idf).credits)
    IN  /\ window' = w
        /\ lifetime' = m.lifetime
        /\ credits_out' = << >>
        /\ idents_out' = << >>
        /\ dirty' = FALSE
        /\ idents_file' = idf
        /\ meta' = m
        /\ IF Overgrown(rows, w)
           THEN credits_file' = w.credits /\ rows_on_disk' = Len(w.credits)
           ELSE credits_file' = cf /\ rows_on_disk' = rows

-----------------------------------------------------------------------------
(* Writing out *)

MetaOf(target) == [target_work |-> target, lifetime |-> lifetime]

\* Ledger::flush for the window w, then Ledger::compact if asked: identities,
\* rows and meta are written in this order. A clean ledger has nothing
\* buffered and its meta is written already.
WriteOut(w, compacting) ==
    /\ idents_file' = idents_file \o idents_out
    /\ idents_out' = << >>
    /\ credits_file' = IF compacting THEN w.credits
                       ELSE credits_file \o credits_out
    /\ credits_out' = << >>
    /\ rows_on_disk' = IF compacting THEN Len(w.credits) ELSE rows_on_disk
    /\ meta' = MetaOf(w.target_work)
    /\ dirty' = FALSE

-----------------------------------------------------------------------------
LedgerInit ==
    /\ window = EmptyWindow
    /\ lifetime = 0
    /\ credits_out = << >>
    /\ idents_out = << >>
    /\ rows_on_disk = 0
    /\ dirty = FALSE
    /\ credits_file = << >>
    /\ idents_file = << >>
    /\ meta = NoMeta
    /\ made = 0
    /\ stops = 0

\* Ledger::credit. A full BufWriter first writes what it holds: the rows file
\* can then be ahead of the identities it refers to.
Credit(identity, work) ==
    /\ made < MaxShares
    /\ made' = made + 1
    /\ lifetime' = lifetime + 1
    /\ window' = CreditRow(window, identity, work)
    /\ idents_out' = IF Contains(window.idents, identity) THEN idents_out
                     ELSE Append(idents_out, identity)
    /\ LET row == CreditedRow(window, identity, work) IN
       IF Len(credits_out) = BUF_ROWS
       THEN credits_file' = credits_file \o credits_out /\ credits_out' = <<row>>
       ELSE credits_out' = Append(credits_out, row) /\ UNCHANGED credits_file
    /\ rows_on_disk' = rows_on_disk + 1
    /\ dirty' = TRUE
    /\ UNCHANGED <<idents_file, meta, stops>>

\* Mutant of Flush: never compacts.
FlushOnly ==
    /\ dirty
    /\ WriteOut(window, FALSE)
    /\ UNCHANGED <<window, lifetime, made, stops>>

\* housekeeping, every 5 s: Ledger::flush (sync adds an fsync).
Flush ==
    /\ dirty
    /\ WriteOut(window, Overgrown(rows_on_disk, window))
    /\ UNCHANGED <<window, lifetime, made, stops>>

\* housekeeping, every 5 min: Ledger::persist_window.
PersistWindow ==
    /\ WriteOut(window, rows_on_disk # Len(window.credits))
    /\ UNCHANGED <<window, lifetime, made, stops>>

\* Mutant of SetTarget: flushes instead of persisting the window.
SetTargetFlushes(target) ==
    /\ target # window.target_work
    /\ window' = SetWindowTarget(window, target)
    /\ WriteOut(window', Overgrown(rows_on_disk, window'))
    /\ UNCHANGED <<lifetime, made, stops>>

\* The node poller sees another difficulty: Ledger::set_target, and
\* persist_window under the same lock.
SetTarget(target) ==
    /\ target # window.target_work
    /\ window' = SetWindowTarget(window, target)
    /\ WriteOut(window', rows_on_disk # Len(window'.credits))
    /\ UNCHANGED <<lifetime, made, stops>>

\* Mutant of Restart: stops without persisting.
RestartUnflushed ==
    /\ Open(credits_file, idents_file, meta)
    /\ UNCHANGED <<made, stops>>

\* A graceful stop (persist_window) and the next start.
Restart ==
    /\ Open(IF rows_on_disk # Len(window.credits) THEN window.credits
            ELSE credits_file \o credits_out,
            idents_file \o idents_out,
            MetaOf(window.target_work))
    /\ UNCHANGED <<made, stops>>

\* Mutant of CrashAfter: the flush it falls into writes rows before identities.
CrashRowsFirst(done) ==
    /\ stops < MaxStops
    /\ stops' = stops + 1
    /\ Open(IF done >= 1 THEN credits_file \o credits_out ELSE credits_file,
            IF done >= 2 THEN idents_file \o idents_out ELSE idents_file,
            IF done >= 3 THEN MetaOf(window.target_work) ELSE meta)
    /\ UNCHANGED made

\* The process dies after `done` of the three writes of a flush (0: outside
\* any flush) and starts again.
CrashAfter(done) ==
    /\ stops < MaxStops
    /\ stops' = stops + 1
    /\ Open(IF done >= 2 THEN credits_file \o credits_out ELSE credits_file,
            IF done >= 1 THEN idents_file \o idents_out ELSE idents_file,
            IF done >= 3 THEN MetaOf(window.target_work) ELSE meta)
    /\ UNCHANGED made

\* The process dies in SetTarget, after the meta file and before compact.
CrashResizing(target) ==
    /\ stops < MaxStops
    /\ stops' = stops + 1
    /\ target # window.target_work
    /\ Open(credits_file \o credits_out, idents_file \o idents_out,
            MetaOf(target))
    /\ UNCHANGED made

LedgerNext ==
    \/ \E i \in Idents, w \in Works : Credit(i, w)
    \/ Flush
    \/ PersistWindow
    \/ \E t \in Targets : SetTarget(t)
    \/ Restart
    \/ \E done \in 0..3 : CrashAfter(done)
    \/ \E t \in Targets : CrashResizing(t)

LedgerSpec == LedgerInit /\ [][LedgerNext]_ledgerVars

-----------------------------------------------------------------------------
(* Properties *)

\* After any mix of credits, resizes, restarts and crashes the running sums
\* equal the rows, and the window holds its target with nothing to spare:
\* splits are computed from the sums and never from the rows.
WindowExact == TotalsExact(window) /\ Minimal(window)

\* Whenever everything is written out, opening the files gives the window
\* the process is paying from ("a replay reproduces the window exactly").
ReplayExact ==
    ~dirty => Replay(credits_file, idents_file, meta) = window

\* Every row in the window counts for the identity that earned it, although
\* rows name identities by their position in another file.
OwnersKept ==
    \A k \in DOMAIN window.credits :
        window.idents[window.credits[k].ident] = window.credits[k].owner

\* The rows file stays within COMPACT_SLACK rows of the window, and the
\* counter that decides about compaction counts the file's rows.
FileBounded ==
    /\ rows_on_disk = Len(credits_file) + Len(credits_out)
    /\ ~dirty => ~Overgrown(rows_on_disk, window)

\* The window's rows that had left the BufWriter.
Written == SubSeq(window.credits, 1, Len(window.credits) - Len(credits_out))

\* A crash that does not fall into a resize loses only rows still buffered:
\* the rows written are in the reopened window, in order and at its end,
\* unless the whole window is.
CrashKeepsWritten ==
    [][stops' # stops /\ window'.target_work = window.target_work
         => \/ IsSuffix(Written, window'.credits)
            \/ IsSuffix(window.credits, window'.credits)]_ledgerVars

\* A graceful restart changes nothing a miner could see.
RestartKeepsWindow == [][Restart => UNCHANGED <<window, lifetime>>]_ledgerVars
=============================================================================
