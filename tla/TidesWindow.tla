---------------------------- MODULE TidesWindow ----------------------------
(***************************************************************************)
(* The sliding share window of the tides crate (struct Window), as pure    *)
(* operators on a record:                                                  *)
(*   idents       identities in the order they were interned; a row names  *)
(*                its identity by its position here                        *)
(*   credits      the rows, oldest first                                   *)
(*   totals       per position with rows in the window, their work and how *)
(*                many there are, kept up to date row by row               *)
(*   total_work   the window's work, kept up to date row by row            *)
(*   target_work  how much work the window is meant to hold (0: unknown)   *)
(* A row's timestamp, height and source tag are left out.  Its owner field *)
(* is not in the code: it is who earned the row, for the properties only.  *)
(***************************************************************************)
EXTENDS Sums, SequencesExt

Row(ident, work, owner) == [ident |-> ident, work |-> work, owner |-> owner]

EmptyWindow ==
    [idents |-> << >>, credits |-> << >>, totals |-> << >>,
     total_work |-> 0, target_work |-> 0]

SumWork(rows) == SumOf([k \in DOMAIN rows |-> rows[k].work])

\* The work of the rows that name position i, and how many they are.
WorkOf(rows, i) ==
    SumOf([k \in DOMAIN rows |-> IF rows[k].ident = i THEN rows[k].work ELSE 0])

CountOf(rows, i) ==
    SumOf([k \in DOMAIN rows |-> IF rows[k].ident = i THEN 1 ELSE 0])

IndexOf(idents, identity) ==
    CHOOSE i \in DOMAIN idents : idents[i] = identity

\* Window::intern: an identity keeps the position it was first given.
Intern(idents, identity) ==
    IF Contains(idents, identity) THEN idents ELSE Append(idents, identity)

\* How many rows the loop in Window::trim drops: while the rest still holds
\* the target. Work is never negative, so the rest only shrinks.
TrimCount(w) ==
    Max({k \in 0..Len(w.credits) :
           k = 0 \/ w.total_work - SumWork(SubSeq(w.credits, 1, k)) >= w.target_work})

\* The totals once `gone` rows are taken off; an identity left without rows
\* is removed.
TotalsWithout(totals, gone) ==
    LET left(i) == [work |-> totals[i].work - WorkOf(gone, i),
                    rows |-> totals[i].rows - CountOf(gone, i)]
    IN  [i \in {j \in DOMAIN totals : left(j).rows > 0} |-> left(i)]

\* Window::trim
Trim(w) ==
    LET n    == TrimCount(w)
        gone == SubSeq(w.credits, 1, n)
    IN  IF w.target_work = 0 THEN w
        ELSE [w EXCEPT !.credits = SubSeq(@, n + 1, Len(@)),
                       !.total_work = @ - SumWork(gone),
                       !.totals = TotalsWithout(@, gone)]

\* Mutant of PushRaw: the row count of an identity is not raised.
PushRawUncounted(w, row) ==
    LET old == IF row.ident \in DOMAIN w.totals THEN w.totals[row.ident]
               ELSE [work |-> 0, rows |-> 1]
        new == [work |-> old.work + row.work, rows |-> old.rows]
    IN  [w EXCEPT !.credits = Append(@, row),
                  !.total_work = @ + row.work,
                  !.totals = [i \in DOMAIN @ \cup {row.ident} |->
                                IF i = row.ident THEN new ELSE @[i]]]

\* Window::push_raw: one more row, no trimming.
PushRaw(w, row) ==
    LET old == IF row.ident \in DOMAIN w.totals THEN w.totals[row.ident]
               ELSE [work |-> 0, rows |-> 0]
        new == [work |-> old.work + row.work, rows |-> old.rows + 1]
    IN  [w EXCEPT !.credits = Append(@, row),
                  !.total_work = @ + row.work,
                  !.totals = [i \in DOMAIN @ \cup {row.ident} |->
                                IF i = row.ident THEN new ELSE @[i]]]

\* Window::credit_row: the row the ledger appends, and the window after it.
CreditedRow(w, identity, work) ==
    Row(IndexOf(Intern(w.idents, identity), identity), work, identity)

CreditRow(w, identity, work) ==
    Trim(PushRaw([w EXCEPT !.idents = Intern(@, identity)],
                 CreditedRow(w, identity, work)))

\* Window::set_target
SetWindowTarget(w, target) == Trim([w EXCEPT !.target_work = target])

-----------------------------------------------------------------------------
(* What a window must satisfy *)

\* The running totals are the sums over the rows they stand for.
TotalsExact(w) ==
    /\ w.total_work = SumWork(w.credits)
    /\ DOMAIN w.totals = {r.ident : r \in ToSet(w.credits)}
    /\ \A i \in DOMAIN w.totals :
          w.totals[i] = [work |-> WorkOf(w.credits, i), rows |-> CountOf(w.credits, i)]

\* No row could leave without taking the window below its target.
Minimal(w) ==
    w.target_work > 0 /\ w.credits # << >>
        => w.total_work - Head(w.credits).work < w.target_work
=============================================================================
