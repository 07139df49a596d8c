----------------------------- MODULE MCReconcile -----------------------------
(***************************************************************************)
(* The batches TLC goes through: five settlements and three credits.       *)
(* The limits of the engine are scaled down with their order kept: pools   *)
(* of up to 3 candidates are searched exhaustively, 4 by amount, 5 not.    *)
(***************************************************************************)
EXTENDS Reconcile

MCNets == {1, 2, 4}

\* The report lists the settlements by id, against it, or mixed.
Listings == {[s \in Settlements |-> s],
             [s \in Settlements |-> 6 - s],
             [s \in Settlements |-> (3 * s) % 7]}

\* A credit attributed to another rail: it takes no part.
Elsewhere == [amount |-> 2, tie |-> NoSettlement, window |-> {}, rail |-> "other",
              abstained |-> FALSE, signals |-> {}]

MakeBatch(net, pos, credits) ==
    [net       |-> net,
     pos       |-> pos,
     amount    |-> [l \in Lines |-> credits[l].amount],
     tie       |-> [l \in Lines |-> credits[l].tie],
     window    |-> [l \in Lines |-> credits[l].window],
     rail      |-> [l \in Lines |-> credits[l].rail],
     abstained |-> [l \in Lines |-> credits[l].abstained],
     signals   |-> [l \in Lines |-> credits[l].signals]]

\* One untied credit against every report: what the searches return.
SearchBatches ==
    {MakeBatch(net, pos, <<[Elsewhere EXCEPT !.amount = a, !.window = w,
                                             !.rail = "razorpay_settlement"],
                           Elsewhere, Elsewhere>>) :
        net \in [Settlements -> MCNets], pos \in Listings, a \in 3 .. 6,
        w \in {Settlements, Settlements \ {1}}}

\* Three credits that compete for three settlements by UTR and by amount.
ClaimBatches ==
    LET Credits == {[Elsewhere EXCEPT !.amount = a, !.tie = t, !.window = {1, 2, 3},
                                      !.rail = "razorpay_settlement"] :
                       a \in 2 .. 4, t \in {NoSettlement, 1, 2}}
    IN  {MakeBatch([s \in Settlements |-> IF s \in 1 .. 3 THEN net[s] ELSE -1],
                   [s \in Settlements |-> s], <<c1, c2, c3>>) :
            net \in [1 .. 3 -> MCNets], c1 \in Credits, c2 \in Credits,
            c3 \in Credits \cup {Elsewhere}}

\* One credit with every attribution and every evidence, one that may take its settlement.
VerdictBatches ==
    {MakeBatch([s \in Settlements |-> s], [s \in Settlements |-> s],
               <<[amount |-> 4, tie |-> NoSettlement, window |-> {4}, rail |-> r,
                  abstained |-> b, signals |-> e],
                 [Elsewhere EXCEPT !.amount = 4, !.tie = t, !.window = {4},
                                   !.rail = "razorpay_settlement"],
                 Elsewhere>>) :
        r \in Rails, b \in BOOLEAN, e \in SUBSET Signals, t \in {NoSettlement, 4}}

MCBatches == SearchBatches \cup ClaimBatches \cup VerdictBatches
=============================================================================
