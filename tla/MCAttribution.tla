--------------------------- MODULE MCAttribution ----------------------------
(* Three bank lines drawn from kinds that meet every branch of the engine, *)
(* against three settlements: two with the same net, and one that the      *)
(* other two, or two bank credits, add up to.                              *)
EXTENDS Attribution, Sequences

Plain(amount) ==
    [is_credit |-> TRUE, amount |-> amount, date |-> 2, utr |-> 0, suffix |-> 0, token |-> FALSE,
     keyword |-> FALSE, brand |-> "none", ifsc |-> FALSE, decoy |-> FALSE, words |-> {}]

Kinds ==
    << [Plain(3) EXCEPT !.utr = 1],                                       \* exact UTR
       [Plain(3) EXCEPT !.utr = 2],
       [Plain(3) EXCEPT !.utr = 1, !.keyword = TRUE],                     \* challenged by a keyword
       [Plain(3) EXCEPT !.suffix = 1, !.ifsc = TRUE],                     \* corroborated suffix
       [Plain(4) EXCEPT !.suffix = 3, !.date = 9],                        \* weak suffix
       [Plain(3) EXCEPT !.brand = "context", !.ifsc = TRUE],              \* leaning legs
       [Plain(4) EXCEPT !.brand = "word", !.token = TRUE, !.words = {"a"}],
       [Plain(4) EXCEPT !.ifsc = TRUE, !.words = {"a", "b"}],
       [Plain(7) EXCEPT !.brand = "context"],                             \* the third net
       [Plain(7) EXCEPT !.decoy = TRUE, !.brand = "context"],
       [Plain(6) EXCEPT !.ifsc = TRUE, !.words = {"b"}],                  \* two settlements at once
       [Plain(5) EXCEPT !.keyword = TRUE],                                \* another rail
       [Plain(3) EXCEPT !.is_credit = FALSE, !.words = {"a"}],            \* debits
       [Plain(3) EXCEPT !.is_credit = FALSE, !.keyword = TRUE] >>

(* The lines are numbered in the order of their kinds: which of two lines  *)
(* comes first matters to no verdict but by a tie.                         *)
KindOf == {f \in [Lines -> 1 .. Len(Kinds)] : \A l \in Lines : l > 1 => f[l - 1] <= f[l]}

MCStatements ==
    {[line |-> [l \in Lines |-> Kinds[f[l]]], net |-> nets, date |-> <<2, 3, d>>] :
        f \in KindOf,
        nets \in {<<3, 3, 7>>, <<3, 7, 7>>},
        d \in {NoDate, 2}}

Rule(word, target) == [word |-> word, target |-> target, approved |-> TRUE]

MCRuleSets ==
    {{}, {Rule("a", "other"), Rule("b", "razorpay_settlement"),
          [Rule("a", "razorpay_settlement") EXCEPT !.approved = FALSE]}}
=============================================================================
