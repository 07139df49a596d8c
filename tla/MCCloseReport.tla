--------------------------- MODULE MCCloseReport ----------------------------
(* Two settlements in four settlement reports, and three bank lines of     *)
(* kinds that reach every part of a close.  Amounts are real paise: a      *)
(* payment of 10000 with the standard fee of 236, of which 36 are tax.     *)
EXTENDS CloseReport

Pay(e, s) ==
    [type |-> "payment", entity |-> e, amount |-> 10000, fee |-> 236, tax |-> 36, debit |-> 0,
     credit |-> 9764, sid |-> s, settled |-> 10, created |-> 8, on_hold |-> FALSE, dispute |-> 0,
     order |-> e, note |-> "none", authorized |-> -1, captured |-> -1]

Less(e, s, type, debit) ==
    [Pay(e, s) EXCEPT !.type = type, !.amount = debit, !.fee = 0, !.tax = 0, !.debit = debit,
                      !.credit = 0, !.order = 1]

(* The tax on top of the fee.                                              *)
Separate(e, s) == [Pay(e, s) EXCEPT !.fee = 200]

Reports ==
    << \* a key repeated with other figures, and a settlement of the other convention
       <<Pay(1, 1), [Pay(1, 1) EXCEPT !.amount = 20000, !.fee = 472, !.tax = 72, !.credit = 19528],
         Separate(2, 2)>>,
       \* rows that are true duplicates and a dispute; a refund from an earlier cycle
       <<Pay(2, 2), Pay(2, 2), [Less(4, 2, "adjustment", 2500) EXCEPT !.dispute = 9],
         Pay(1, 1), Less(3, 1, "refund", 3000)>>,
       \* a payment on hold; a partial capture
       <<Pay(1, 1), [Pay(5, 1) EXCEPT !.amount = 4000, !.fee = 94, !.tax = 14, !.credit = 3906,
                                      !.on_hold = TRUE],
         [Pay(2, 2) EXCEPT !.authorized = 10000, !.captured = 8500]>>,
       \* a reserve; capture evidence on one side only, and no settlement date
       <<Pay(1, 1), Less(6, 1, "reserve", 1200), Separate(7, 1),
         [Pay(2, 2) EXCEPT !.authorized = 10000, !.fee = 1000, !.tax = 300, !.credit = 9000,
                          !.settled = 0]>> >>

Net(r, s) == MapThenSumSet(LAMBDA i : net_paise(Reports[r][i]),
                           {i \in DOMAIN Reports[r] : Reports[r][i].sid = s})

(* A bank line: the part Reconcile sees and the part of this module.       *)
Line(amount) ==
    [amount |-> amount, tie |-> 0, window |-> {1, 2}, rail |-> "unknown", abstained |-> TRUE,
     signals |-> {}, is_credit |-> TRUE, date |-> 10, utrs |-> {}, suffixes |-> {},
     weak_suffix |-> FALSE, brand |-> FALSE, ref |-> 0, ties |-> {}, margin |-> 0]

Proven(amount, ties) ==
    [Line(amount) EXCEPT !.rail = "razorpay_settlement", !.abstained = FALSE, !.ties = ties,
                         !.signals = {"utr"}, !.margin = 3000]

Exact(r, s, variance) ==
    [Proven(Net(r, s) + variance, {"utr_exact"}) EXCEPT !.tie = s, !.utrs = {s}]

(* What each cause explains, in both directions, and what none does.       *)
Variances == {0, 60, -36, -3000, -4000, 4000, -2500, 2500, -1500, -1180, 777}

MoneyLines(r) ==
    {Exact(r, s, v) : s \in {1, 2}, v \in Variances}
    \cup {[Exact(r, 1, 0) EXCEPT !.margin = 0],
          [Exact(r, 1, -1200) EXCEPT !.utrs = {1, 2}],
          Proven(Net(r, 1), {"amount_corr"}),
          Proven(Net(r, 1) + Net(r, 2), {"setsum"}),
          [Proven(Net(r, 1) + 2 * Net(r, 2), {"setsum"}) EXCEPT !.suffixes = {1}],
          [Proven(Net(r, 2) - 777, {"split_reconstruction"}) EXCEPT
              !.signals = {"split_reconstruction"}, !.suffixes = {2}, !.date = 14]}

OpenLines ==
    <<[Line(500) EXCEPT !.rail = "razorpay_settlement", !.abstained = FALSE],     \* by a rule
      [Line(600) EXCEPT !.signals = {"utr"}, !.brand = TRUE, !.date = 1],
      [Line(700) EXCEPT !.signals = {"utr"}, !.date = 11],
      [Line(700) EXCEPT !.brand = TRUE, !.date = 22],
      [Line(800) EXCEPT !.signals = {"utr"}, !.weak_suffix = TRUE],
      [Line(900) EXCEPT !.signals = {"multiple_satisfying_subsets"}],
      [Line(900) EXCEPT !.signals = {"rule_conflict"}, !.ref = 1],
      [Line(900) EXCEPT !.ref = 1],
      [Line(900) EXCEPT !.is_credit = FALSE]>>

Elsewhere == [Line(900) EXCEPT !.rail = "other", !.abstained = FALSE]

Ledgers ==
    << <<>>,
       <<[order |-> 1, amount |-> 10000, status |-> "paid"], [order |-> 2, amount |-> 9000, status |-> "other"]>>,
       <<[order |-> 2, amount |-> 10000, status |-> "paid"], [order |-> 2, amount |-> 10000, status |-> "paid"],
         [order |-> 1, amount |-> 10050, status |-> "refunded"]>> >>

BatchFields == {"amount", "tie", "window", "rail", "abstained", "signals"}

MakeClose(r, ledger, lines) ==
    [batch |-> [f \in BatchFields \cup {"net", "pos"} |->
                  IF f = "net" THEN [s \in Settlements |-> Net(r, s)]
                  ELSE IF f = "pos" THEN [s \in Settlements |-> Min({i \in DOMAIN Reports[r] : Reports[r][i].sid = s})]
                  ELSE [l \in Lines |-> lines[l][f]]],
     books |-> [rows |-> Reports[r], ledger |-> ledger,
                line |-> [l \in Lines |-> [f \in DOMAIN lines[l] \ BatchFields |-> lines[l][f]]]]]

(* Pairs of lines with money in question, against every ledger; and any    *)
(* three lines that stay open.                                             *)
MoneyCloses ==
    UNION {{MakeClose(r, ledger, <<a, b, Elsewhere>>) :
              ledger \in Range(Ledgers), a \in MoneyLines(r),
              b \in {Exact(r, 2, 0), Exact(r, 1, 60), Proven(Net(r, 2), {"amount_corr"})}}
            : r \in DOMAIN Reports}

OpenCloses ==
    {MakeClose(1, <<>>, [l \in Lines |-> OpenLines[f[l]]]) :
        f \in {f \in [Lines -> DOMAIN OpenLines] : f[1] <= f[2] /\ f[2] <= f[3]}}

MCCloses == MoneyCloses \cup OpenCloses
MCBatches == {c.batch : c \in MCCloses}
=============================================================================
