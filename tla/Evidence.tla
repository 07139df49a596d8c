------------------------------ MODULE Evidence ------------------------------
(***************************************************************************)
(* The evidence the engine gathers for a bank line (engine/evidence.py,    *)
(* engine/packs.py) and how it is scored (engine/attribute.py _combine,    *)
(* engine/challenger.py).                                                  *)
(*                                                                         *)
(* A narration is abstracted to what the signals find in it.  Weights are  *)
(* in thousandths and scores in billionths: three channels of evidence     *)
(* then multiply exactly.                                                  *)
(***************************************************************************)
EXTENDS Integers, FiniteSets, FiniteSetsExt, BoundedSubsets

CONSTANTS
    NumLines,             \* bank lines of the statement
    Settlements,          \* settlement ids, positive integers
    DATE_WINDOW_DAYS,     \* evidence.py: value date against settlement date
    MAX_CHALLENGES        \* challenger.py

VARIABLE statement        \* the bank lines and the settlement report

Lines == 1 .. NumLines
NoSettlement == 0
NoDate == 0               \* a settlement without settled_at

ASSUME EvidenceAssumption ==
    /\ NumLines \in Nat
    /\ Settlements \subseteq Nat \ {NoSettlement} /\ IsFiniteSet(Settlements)
    /\ DATE_WINDOW_DAYS \in Nat /\ MAX_CHALLENGES \in Nat

(* A bank line: credit or debit, amount and value date; the settlement its *)
(* UTR names exactly, or the one it is the unique suffix of; whether it    *)
(* carries another UTR-shaped token, a keyword of another rail, a brand    *)
(* word (alone or with settlement context), Razorpay's IFSC, a decoy; and  *)
(* the rule patterns it matches.                                           *)
BankCreditLine ==
    [is_credit : BOOLEAN, amount : Nat, date : Nat,
     utr : Settlements \cup {NoSettlement}, suffix : Settlements \cup {NoSettlement},
     token : BOOLEAN, keyword : BOOLEAN, brand : {"none", "word", "context"},
     ifsc : BOOLEAN, decoy : BOOLEAN, words : SUBSET STRING]

(* What the engine is given: the lines, and of the settlement report the   *)
(* net and the date of each settlement.                                    *)
Statement ==
    [line : [Lines -> BankCreditLine], net : [Settlements -> Int], date : [Settlements -> Nat]]

ln(l) == statement.line[l]

(* ReconIndex: settlement nets and dates.                                  *)
settlement_net(s) == statement.net[s]
settlement_date(s) == statement.date[s]
net_to_settlements(amount) == {s \in Settlements : settlement_net(s) = amount}

Abs(n) == IF n < 0 THEN -n ELSE n

Near(l, s, days) ==
    settlement_date(s) # NoDate /\ Abs(ln(l).date - settlement_date(s)) <= days

-----------------------------------------------------------------------------
(* Signals, each with its weight.                                          *)

Item(signal, weight) == [signal |-> signal, weight |-> weight]

When(b, items) == IF b THEN items ELSE {}

(* Report-backed identifier ties: the exact UTR, or a unique suffix, which *)
(* decides only when its settlement's date or amount corroborates it.      *)
IdentifierSignals(l) ==
    LET s == ln(l).suffix
        corroborated == \/ Near(l, s, DATE_WINDOW_DAYS)
                        \/ ln(l).is_credit /\ ln(l).amount = settlement_net(s)
    IN  IF ln(l).utr # NoSettlement THEN {Item("utr_exact", 950)}
        ELSE IF s = NoSettlement THEN {}
        ELSE IF corroborated THEN {Item("utr_suffix", 500)} ELSE {Item("utr_suffix_weak", 200)}

(* The amount of a credit equals a settlement net; a tie only when it is   *)
(* the net of one settlement.                                              *)
AmountSignals(l) ==
    LET sids == net_to_settlements(ln(l).amount)
        near == \E s \in sids : Near(l, s, DATE_WINDOW_DAYS)
    IN  When(ln(l).is_credit /\ sids # {},
             {Item(IF Cardinality(sids) = 1 THEN "amount_corr" ELSE "amount_corr_multi",
                   IF near THEN 500 ELSE 300)}
             \cup When(near, {Item("value_date_proximity", 200)}))

(* Resemblance in the narration, voided by a decoy marker.                 *)
evaluate_rzp_narration_signals(l) ==
    LET line == ln(l)
    IN  When(~line.decoy,
             When(line.brand = "context", {Item("narration_brand_rzp", 300)})
             \cup When(line.brand = "word", {Item("narration_brand_rzp", 150)})
             \cup When(line.ifsc, {Item("ifsc_ratn", 250)})
             \cup When((line.brand # "none" \/ line.ifsc) /\ line.token /\ line.utr = NoSettlement,
                       {Item("settlement_ref", 500)}))

razorpay_signals(l) ==
    IdentifierSignals(l) \cup AmountSignals(l) \cup evaluate_rzp_narration_signals(l)

narration_rail_signals(l) == When(ln(l).keyword, {Item("narration_pattern", 950)})

SignalNames(items) == {e.signal : e \in items}
HasSignal(items, names) == SignalNames(items) \cap names # {}

-----------------------------------------------------------------------------
(* Scores.                                                                 *)

Scale == 1000000000

Smaller(a, b) == IF a <= b THEN a ELSE b

SignalChannel(signal) ==
    CASE signal \in {"utr_exact", "utr_suffix", "utr_suffix_weak", "settlement_ref"} -> "identifier"
      [] signal \in {"narration_brand_rzp", "ifsc_ratn", "narration_pattern"} -> "narration"
      [] signal \in {"amount_corr", "amount_corr_multi", "value_date_proximity", "setsum"} -> "amount_time"
      [] OTHER -> signal

(* Within a channel the strongest signal, raised by a tenth of each weaker *)
(* one and capped; across channels a noisy or.                             *)
ChannelWeight(items) ==
    LET top == Max({e.weight : e \in items})
    IN  IF Cardinality(items) = 1 THEN top
        ELSE Smaller(980, top + Total([e \in items |-> e.weight \div 10],
                                      {e \in items : e.weight # top}))

Doubt(weight, channels) ==
    FoldSet(LAMBDA c, acc : (acc \div 1000) * (1000 - weight[c]), Scale, channels)

_combine(items) ==
    LET channels == {SignalChannel(e.signal) : e \in items}
        weight == [c \in channels |-> ChannelWeight({e \in items : SignalChannel(e.signal) = c})]
    IN  IF items = {} THEN 0 ELSE Smaller(990000000, Scale - Doubt(weight, channels))

(* challenger.py: the groups of signals whose loss the verdict must stand. *)
UTR_SIGNALS == {"utr_exact", "utr_suffix", "utr_suffix_weak"}
AMOUNT_SIGNALS == {"amount_corr", "amount_corr_multi"}
SETSUM_SIGNALS == {"setsum", "split_reconstruction"}

Ablations(items) ==
    {UTR_SIGNALS, AMOUNT_SIGNALS, SETSUM_SIGNALS, {"value_date_proximity"},
     UTR_SIGNALS \cup AMOUNT_SIGNALS \cup SETSUM_SIGNALS}
    \cup When(~HasSignal(items, {"utr_exact"}), {{"utr_suffix", "utr_suffix_weak"}})

(* The proof margin: the score less the best score of a competing rail or  *)
(* of the same evidence with one group of ties taken away.                 *)
challenge_razorpay(items, non_rzp, score) ==
    LET removals == {drop \in Ablations(items) : HasSignal(items, drop)}
        residuals == {_combine({e \in items : e.signal \notin drop}) : drop \in removals}
        scores == residuals \cup When(non_rzp # {}, {_combine(non_rzp)})
        count == Cardinality(removals) + Cardinality(non_rzp)
    IN  [proof_margin |-> score - (IF scores = {} THEN 0 ELSE Max(scores)),
         truncated |-> count > MAX_CHALLENGES]
=============================================================================
