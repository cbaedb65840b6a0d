----------------------------- MODULE MCPayout -----------------------------
(* Four pools: one commits to its window and has four miners, one without a
   script; one does not commit, has two miners, and its gateway reconnects;
   one's gateway rescales the list to its newest template; and one caps the
   number of its payees. A fifth, for a run of its own, commits (as pools do
   by default) and its gateway reconnects. Scripts are strings, "none" is no
   script. *)
EXTENDS Payout

Distinct == <<"A", "B", "C", "none">>

\* 10 % fee, 20 % through the house; two outputs fit, three do not.
Classic ==
    [fee_bps |-> 1000, stratum_fee_bps |-> 2000, min_payout |-> 4,
     max_outputs |-> 3, output_budget_bytes |-> 65, max_payees |-> 0,
     fee_overrides |-> << >>]

\* Room for everyone and no dust floor to speak of.
Roomy == [Classic EXCEPT !.min_payout = 1, !.output_budget_bytes = 1000]

Committed ==
    [params |-> Classic, tolerance |-> 0, commits |-> {"commit1", "commit2"},
     works |-> [Idents -> {0, 1, 5}], values |-> {30},
     rescales |-> FALSE, reconnects |-> FALSE]

Rejoined ==
    [params |-> Roomy, tolerance |-> 1, commits |-> {},
     works |-> {w \in [Idents -> {0, 1, 2, 5}] : w[3] = 0 /\ w[4] = 0},
     values |-> {30}, rescales |-> FALSE, reconnects |-> TRUE]

Rescaling ==
    [Committed EXCEPT !.works = {w \in @ : w[3] = 0 /\ w[4] = 0},
                      !.values = {20, 30}, !.rescales = TRUE]

\* Only the largest payee is paid.
Capped ==
    [Committed EXCEPT !.works = {w \in @ : w[2] = 0 /\ w[4] = 0},
                      !.params = [Roomy EXCEPT !.max_payees = 1]]

\* commit-snapshot is on unless the configuration says otherwise.
Default == [Rejoined EXCEPT !.commits = Committed.commits]

DefaultSetups == {Default}

MCSetups == {Committed, Rejoined, Rescaling, Capped}
=============================================================================
