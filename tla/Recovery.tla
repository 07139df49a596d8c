------------------------------ MODULE Recovery ------------------------------
(***************************************************************************)
(* What the engine proposes for the credits it could not close: the cause  *)
(* of a variance and a corrective voucher (engine/investigate.py), and a   *)
(* ranked plan of the evidence to fetch (engine/recovery.py).              *)
(***************************************************************************)
EXTENDS Books, SequencesExt

CONSTANTS
    SUFFIX_WINDOW,      \* evidence.py _DATE_WINDOW_DAYS
    EXPORT_WINDOW,      \* attribute.py _SPLIT_DATE_WINDOW
    MAX_ACTIONS         \* build_recovery_plan max_actions

ASSUME RecoveryAssumption ==
    SUFFIX_WINDOW \in Nat /\ EXPORT_WINDOW \in Nat /\ MAX_ACTIONS \in Nat

(* The members of S, each once, in the order of a relation on S.           *)
Sorted(S, before) ==
    CHOOSE f \in [1 .. Cardinality(S) -> S] :
        /\ Range(f) = S
        /\ \A i, j \in DOMAIN f : i < j => <<f[i], f[j]>> \in before

-----------------------------------------------------------------------------
(* Investigation of one line that was not reconciled.                      *)

INVESTIGATED ==
    {"unbalanced_residual", "partial_or_duplicate_settlement", "reconstructed_split_leg",
     "razorpay_coverage_not_found"}

(* ReconIndex: the date of a settlement is that of its last dated row.     *)
settlement_day(s) ==
    LET dated == {i \in RowsOf(s) : row(i).settled # None}
    IN  IF dated = {} THEN None ELSE row(Max(dated)).settled

(* The settlements the text of a line implicates: by a whole UTR, or by a  *)
(* unique suffix that the date or the amount corroborates.                 *)
candidate_sids(l) ==
    LET line == books.line[l]
        Corroborated(s) ==
            \/ /\ settlement_day(s) # None
               /\ AbsPaise(line.date - settlement_day(s)) <= SUFFIX_WINDOW
            \/ line.is_credit /\ amount_paise(l) = batch.net[s]
    IN  line.utrs \cup {s \in line.suffixes : Corroborated(s)}

Within(a, b) == AbsPaise(a - b) <= DriftTolerance

Signed(v, magnitude) == IF v < 0 THEN -magnitude ELSE magnitude

When(b, deltas) == IF b THEN deltas ELSE {}

(* The classifiers, each with the deltas it would book for the variance v  *)
(* of the rows S: none when it does not match.                             *)
MdrFeeDrift(v, S) ==
    LET tax == Taxes(S)
        fee == Fees(S)
        gross == Amounts({i \in S : row(i).type = "payment"})
        drift == fee - (gross * 236 + 5000) \div 10000
    IN  IF tax > 0 /\ Within(AbsPaise(v), tax) THEN {Signed(v, tax)}
        ELSE When(fee > 0 /\ gross > 0 /\ Within(v, -drift), {-drift})

(* The first refund of the settlement that was created in an earlier cycle.*)
CrossCycleRefundLag(v, S) ==
    LET Paid(i) == IF row(i).amount # 0 THEN row(i).amount ELSE row(i).debit
        lagging == {i \in S :
            /\ row(i).type = "refund" \/ (row(i).type = "adjustment" /\ row(i).note = "refund")
            /\ row(i).created # None /\ row(i).settled > row(i).created
            /\ Paid(i) > 0 /\ Within(v, -Paid(i))}
    IN  When(lagging # {}, {-Paid(Min(lagging))})

(* Held or released: either direction.                                     *)
EitherWay(v, sum) == When(sum > 0 /\ Within(AbsPaise(v), sum), {Signed(v, sum)})

OnHoldRelease(v, S) == EitherWay(v, Amounts({i \in S : row(i).on_hold}))

(* Fault for sensitivity: a dispute explains an overage as well.           *)
FaultUnsignedDispute(v, S) ==
    LET sum == Amounts({i \in S : row(i).dispute # None})
    IN  When(sum > 0 /\ Within(AbsPaise(v), sum), {-sum})

(* A deduction explains a shortfall only.                                  *)
DisputeDeduction(v, S) ==
    LET sum == Amounts({i \in S : row(i).dispute # None})
    IN  When(sum > 0 /\ Within(v, -sum), {-sum})

(* Amounts authorized and captured, -1 for None: one without the other, or *)
(* more captured than authorized, disqualifies the settlement.             *)
PartialCapture(v, S) ==
    LET both == {i \in S : row(i).authorized >= 0 /\ row(i).captured >= 0}
        valid == /\ \A i \in S : (row(i).authorized < 0) = (row(i).captured < 0)
                 /\ \A i \in both : row(i).authorized >= row(i).captured
                 /\ \E i \in both : row(i).authorized > row(i).captured
        gap == SumOver(both, LAMBDA r : r.authorized - r.captured)
    IN  When(valid /\ Within(v, -gap), {-gap})

BankChargeOrRounding(v) == When(Within(v, 0), {v})

RollingReserve(v, S) ==
    EitherWay(v, Amounts({i \in S : row(i).type = "reserve" \/ row(i).note = "reserve"}))

(* In the order they are tried.                                            *)
Classifiers(v, S) ==
    << <<"mdr_fee_drift", MdrFeeDrift(v, S)>>,
       <<"cross_cycle_refund_lag", CrossCycleRefundLag(v, S)>>,
       <<"on_hold_release", OnHoldRelease(v, S)>>,
       <<"dispute_deduction", DisputeDeduction(v, S)>>,
       <<"partial_capture", PartialCapture(v, S)>>,
       <<"bank_charge_or_rounding", BankChargeOrRounding(v)>>,
       <<"rolling_reserve", RollingReserve(v, S)>> >>

(* The proposed voucher's effect on the clearing account, credit positive: *)
(* the pure deductions are always drafted as credits to it.                *)
_make_corrective_entry(cause, delta) ==
    IF cause \in {"dispute_deduction", "partial_capture"} THEN AbsPaise(delta) ELSE -delta

Finding(cause, variance, delta, drafted, clearing) ==
    [cause |-> cause, variance |-> variance, delta |-> delta, drafted |-> drafted,
     clearing |-> clearing]

(* No settlement, or more than one, and nothing is computed.               *)
investigate(l) ==
    LET s == CHOOSE s \in candidate_sids(l) : TRUE
        v == amount_paise(l) - batch.net[s]
        tried == Classifiers(v, RowsOf(s))
        matching == {k \in DOMAIN tried : tried[k][2] # {}}
        cause == tried[Min(matching)][1]
        delta == CHOOSE d \in tried[Min(matching)][2] : TRUE
    IN  IF Cardinality(candidate_sids(l)) # 1 THEN Finding("unexplained", 0, 0, FALSE, 0)
        ELSE IF v = 0 THEN Finding("balanced", 0, 0, FALSE, 0)
        ELSE IF matching = {} THEN Finding("unexplained", v, 0, FALSE, 0)
        ELSE Finding(cause, v, delta, TRUE, _make_corrective_entry(cause, delta))

build_investigations == [l \in {l \in Lines : exception[l] \in INVESTIGATED} |-> investigate(l)]

-----------------------------------------------------------------------------
(* Recovery plan.                                                          *)

(* Why a line is not proven.                                               *)
_derive_blocking_reason(l) ==
    LET line == books.line[l]
        Has(reason) == exception[l] = reason \/ reason \in batch.signals[l]
    IN  IF Has("rule_conflict") THEN "rule_conflict"
        ELSE IF Has("multiple_satisfying_subsets") THEN "ambiguous_setsum"
        ELSE IF exception[l] \in INVESTIGATED THEN "recon_failure"
        ELSE IF line.weak_suffix THEN "weak_utr_suffix"
        ELSE IF line.brand \/ exception[l] = "razorpay_uncertain" \/ "utr" \in batch.signals[l]
             THEN "brand_no_tie"
        ELSE "unknown_sender"

ActionFor(reason) ==
    CASE reason \in {"brand_no_tie", "recon_failure"} -> "export_settlement_report"
      [] reason = "weak_utr_suffix" -> "confirm_utr_with_bank"
      [] reason = "ambiguous_setsum" -> "provide_settlement_ids"
      [] OTHER -> "classify_counterparty"

(* Costs in halves, and what a paisa gains per cost in twelfths of it.     *)
ACTION_COSTS ==
    [export_settlement_report |-> 2, confirm_utr_with_bank |-> 4,
     provide_settlement_ids |-> 3, classify_counterparty |-> 1]

Unresolved == {l \in Lines : exception[l] # NoReason \/ Abstains(l)}

(* The action for one line and its parameters: a window of dates for an    *)
(* export; date, amount and, to classify a sender, the bank's reference.   *)
_map_blocking_to_action(l) ==
    LET type == ActionFor(_derive_blocking_reason(l))
        line == books.line[l]
    IN  IF type = "export_settlement_report"
        THEN [type |-> type, from |-> line.date - EXPORT_WINDOW, to |-> line.date + EXPORT_WINDOW,
              amount |-> 0, ref |-> None]
        ELSE [type |-> type, from |-> line.date, to |-> line.date, amount |-> amount_paise(l),
              ref |-> IF type = "classify_counterparty" THEN line.ref ELSE None]

Exports == {l \in Unresolved : _map_blocking_to_action(l).type = "export_settlement_report"}

SumPositive(S) ==
    Total([l \in S |-> IF amount_paise(l) > 0 THEN amount_paise(l) ELSE 0], S)
SumNegative(S) ==
    Total([l \in S |-> IF amount_paise(l) < 0 THEN -amount_paise(l) ELSE 0], S)

RecoveryAction(params, resolves) ==
    [params |-> params, resolves |-> resolves, recoverable |-> SumPositive(resolves),
     exposure |-> SumNegative(resolves),
     gain |-> SumPositive(resolves) * (12 \div ACTION_COSTS[params.type])]

(* Fault for sensitivity: merging keeps the end of the first window.       *)
FaultKeepsEnd(last, item) ==
    [last EXCEPT !.resolves = @ \cup item.resolves]

(* A window that overlaps the last one extends it.                         *)
Merged(last, item) ==
    [last EXCEPT !.params.to = IF item.params.to > @ THEN item.params.to ELSE @,
                 !.resolves = @ \cup item.resolves]

AddWindow(acc, item) ==
    IF acc # <<>> /\ acc[Len(acc)].params.to >= item.params.from
    THEN [acc EXCEPT ![Len(acc)] = Merged(@, item)]
    ELSE Append(acc, item)

MergeWindows(windows) ==
    LET merged[k \in 0 .. Len(windows)] ==
            IF k = 0 THEN <<>> ELSE AddWindow(merged[k - 1], windows[k])
    IN  merged[Len(windows)]

Window(l) == [params |-> _map_blocking_to_action(l), resolves |-> {l}]

StartsBefore(l, m) ==
    \/ Window(l).params.from < Window(m).params.from
    \/ Window(l).params.from = Window(m).params.from /\ l < m

(* The export windows in order of their start, merged left to right.       *)
MergedExports ==
    LET order == Sorted(Exports, {p \in Exports \X Exports : StartsBefore(p[1], p[2])})
    IN  MergeWindows([k \in 1 .. Cardinality(Exports) |-> Window(order[k])])

(* Lines that need the same other action with the same parameters share it.*)
OtherGroups ==
    {[params |-> p, resolves |-> {l \in Unresolved \ Exports : _map_blocking_to_action(l) = p}] :
        p \in {_map_blocking_to_action(l) : l \in Unresolved \ Exports}}

ActionTypes ==
    <<"classify_counterparty", "confirm_utr_with_bank", "export_settlement_report",
      "provide_settlement_ids">>

TypeRank(type) == CHOOSE k \in DOMAIN ActionTypes : ActionTypes[k] = type

(* Gain per cost, recoverable amount, type, lines.                         *)
RanksAbove(a, b) ==
    LET ka == <<-a.gain, -a.recoverable, TypeRank(a.params.type), Min(a.resolves)>>
        kb == <<-b.gain, -b.recoverable, TypeRank(b.params.type), Min(b.resolves)>>
    IN  \E i \in 1 .. 4 : ka[i] < kb[i] /\ \A j \in 1 .. i - 1 : ka[j] = kb[j]

AllActions == {RecoveryAction(g.params, g.resolves) : g \in Range(MergedExports) \cup OtherGroups}

build_recovery_plan ==
    LET ranked == Sorted(AllActions, {p \in AllActions \X AllActions : RanksAbove(p[1], p[2])})
        kept == SubSeq(ranked, 1, IF Len(ranked) > MAX_ACTIONS THEN MAX_ACTIONS ELSE Len(ranked))
        actioned == UNION {a.resolves : a \in Range(kept)}
    IN  [actions |-> kept, capped |-> Len(ranked) > MAX_ACTIONS,
         unresolved |-> Unresolved, unresolved_credit |-> SumPositive(Unresolved),
         unresolved_debit |-> SumNegative(Unresolved),
         recoverable_if_actioned |-> SumPositive(actioned)]
=============================================================================
