------------------------------- MODULE Books --------------------------------
(***************************************************************************)
(* What the accountant receives of a reconciled batch: the recoverable GST *)
(* (engine/feegst.py), the journal vouchers (engine/journal.py), the proof *)
(* packets (engine/proof.py) and the comparison with the merchant's order  *)
(* ledger (engine/ledger.py), all driven from the exact rows a             *)
(* reconciliation covers (engine/covered.py).                              *)
(*                                                                         *)
(* Amounts are paise, dates are day numbers, and 0 stands for None.        *)
(***************************************************************************)
EXTENDS Reconcile, Sequences

VARIABLE books   \* the settlement rows, the order ledger and the bank lines' details

None == 0

(* ReconRow.                                                               *)
ReconRow ==
    [type : {"payment", "refund", "adjustment", "reserve"}, entity : Nat, amount : Nat,
     fee : Nat, tax : Nat, debit : Nat, credit : Nat, sid : Settlements, settled : Nat,
     created : Nat, on_hold : BOOLEAN, dispute : Nat, order : Nat,
     note : {"none", "refund", "reserve"}, authorized : Int, captured : Int]

(* What else is known of a bank line: which settlements its text implicates*)
(* and, for a proven one, the ties and the challenger's margin.            *)
BankCreditLine ==
    [is_credit : BOOLEAN, date : Int, utrs : SUBSET Settlements, suffixes : SUBSET Settlements,
     weak_suffix : BOOLEAN, brand : BOOLEAN, ref : Nat, ties : SUBSET STRING, margin : Int]

OrderLedgerEntry == [order : Nat, amount : Int, status : STRING]

BooksType ==
    [rows : Seq(ReconRow), ledger : Seq(OrderLedgerEntry), line : [Lines -> BankCreditLine]]

Rows == DOMAIN books.rows
row(i) == books.rows[i]
net_paise(r) == r.credit - r.debit

RowsOf(s) == {i \in Rows : row(i).sid = s}

SumOver(S, Value(_)) == Total([i \in S |-> Value(row(i))], S)

Fees(S) == SumOver(S, LAMBDA r : r.fee)
Taxes(S) == SumOver(S, LAMBDA r : r.tax)
Amounts(S) == SumOver(S, LAMBDA r : r.amount)
Nets(S) == SumOver(S, net_paise)

AbsPaise(n) == IF n < 0 THEN -n ELSE n

(* A line's signed movement: Reconcile keeps magnitudes, debits are here.  *)
amount_paise(l) == IF books.line[l].is_credit THEN batch.amount[l] ELSE -batch.amount[l]

-----------------------------------------------------------------------------
(* Row identity.                                                           *)

(* _row_signature leaves out the capture evidence and the report's own id. *)
_row_signature(r) == [f \in DOMAIN r \ {"authorized", "captured"} |-> r[f]]

(* The id is the content and an occurrence count among equal contents.     *)
canonical_row_id(i) ==
    LET sig == _row_signature(row(i))
    IN  <<sig, Cardinality({j \in Rows : j < i /\ _row_signature(row(j)) = sig})>>

Key(i) == <<row(i).type, row(i).entity>>

(* _make_result: the rows of the settlements a credit covers, as the ids   *)
(* and, position by position, the (type, entity_id) keys it records.       *)
CoveredRows(l) == UNION {RowsOf(s) : s \in Members(covered[l])}
covered_row_ids(l) == {canonical_row_id(i) : i \in CoveredRows(l)}
covered_keys(l) == {Key(i) : i \in CoveredRows(l)}

(* A settlement covered twice repeats its row ids.                         *)
HasDuplicateIds(l) == \E s \in Settlements : covered[l][s] > 1 /\ RowsOf(s) # {}

(* Fault for sensitivity: rows looked up by (type, entity_id), the last one*)
(* with the key standing for all.                                          *)
FaultByKey(l) == {Max({j \in Rows : Key(j) = Key(i)}) : i \in CoveredRows(l)}

resolve_covered_rows_by_id(l) == {i \in Rows : canonical_row_id(i) \in covered_row_ids(l)}

(* Raising is failing closed: no report is built.                          *)
Resolvable(l) ==
    ~HasDuplicateIds(l) /\ {Key(i) : i \in resolve_covered_rows_by_id(l)} = covered_keys(l)

Reconciled == {l \in Lines : Resolved(l)}

-----------------------------------------------------------------------------
(* Recoverable GST, per reconciled line and in total.                      *)

fee_gst ==
    Total([l \in Reconciled |-> Taxes(resolve_covered_rows_by_id(l))], Reconciled)

-----------------------------------------------------------------------------
(* Journal vouchers.                                                       *)

(* Whether the fee includes its GST: the formula closer to the credits the *)
(* report states.                                                          *)
_tax_inside_fee(S) ==
    LET pays == {i \in S : row(i).type = "payment" /\ (row(i).fee # 0 \/ row(i).tax # 0)}
        credit == SumOver(pays, LAMBDA r : r.credit)
        gross == Amounts(pays) - Fees(pays)
    IN  pays = {} \/ AbsPaise(credit - gross) <= AbsPaise(credit - (gross - Taxes(pays)))

(* The earliest settlement date, or else the earliest capture date.        *)
VoucherDate(S) ==
    LET settled == {row(i).settled : i \in S} \ {None}
        created == {row(i).created : i \in S} \ {None}
    IN  IF settled # {} THEN Min(settled) ELSE IF created # {} THEN Min(created) ELSE None

(* One voucher: bank, charges and input tax are debits, rounding is a      *)
(* debit when positive, and clearing is the credit.                        *)
JournalEntry(l) ==
    LET S == resolve_covered_rows_by_id(l)
        itc == Taxes(S)
        mdr == IF _tax_inside_fee(S) THEN Fees(S) - itc ELSE Fees(S)
        covered_net == CoveredNet(covered[l])
    IN  [bank |-> amount_paise(l), rounding |-> covered_net - amount_paise(l), mdr |-> mdr,
         cgst |-> itc \div 2, sgst |-> itc - itc \div 2, clearing |-> covered_net + mdr + itc,
         refs |-> {row(i).sid : i \in S}, date |-> VoucherDate(S)]

build_journal_entries == [l \in Reconciled |-> JournalEntry(l)]

-----------------------------------------------------------------------------
(* Proof packets.                                                          *)

(* Rupees and paise, as printed with two decimals, and their reading back. *)
_inr(p) == [minus |-> p < 0, rupees |-> AbsPaise(p) \div 100, paise |-> AbsPaise(p) % 100]
_parse_inr_to_paise(x) == (IF x.minus THEN -1 ELSE 1) * (100 * x.rupees + x.paise)

NoSettlementPart == [net |-> _inr(0), residual |-> 0, keys |-> {}]
NoMargin == [present |-> FALSE, value |-> 0]

(* A packet for a proven line that rests on a tie to the report: a verdict *)
(* from a rule has none.  The challenger's margin is there only on the     *)
(* path that ran it.                                                       *)
ProofPacket(l, audit) ==
    LET rec == Resolved(l)
        S == resolve_covered_rows_by_id(l)
    IN  [line |-> l, amount |-> _inr(amount_paise(l)), reconciled |-> rec,
         settlement |-> IF rec THEN [net |-> _inr(CoveredNet(covered[l])),
                                     residual |-> amount_paise(l) - CoveredNet(covered[l]),
                                     keys |-> covered_keys(l)]
                        ELSE NoSettlementPart,
         gst |-> IF rec THEN _inr(Taxes(S)) ELSE _inr(0), gst_pending |-> ~rec,
         ties |-> books.line[l].ties,
         margin |-> IF audit THEN [present |-> TRUE, value |-> books.line[l].margin] ELSE NoMargin]

build_proof_packets(audit) ==
    {ProofPacket(l, audit) : l \in {l \in Lines : Razorpay(l) /\ books.line[l].ties # {}}}

-----------------------------------------------------------------------------
(* The order ledger.                                                       *)

(* Rows whose key no other row shares, of the settlements covered.         *)
LedgerRows ==
    {i \in UNION {CoveredRows(l) : l \in Reconciled} : \A j \in Rows : Key(j) = Key(i) => j = i}

Payments(S, o) == {i \in S : row(i).order = o /\ row(i).type = "payment"}

Bookings(o) == {b \in DOMAIN books.ledger : books.ledger[b].order = o}

(* The orders each finding names, over the slice the bank proves.          *)
reconcile_ledger ==
    LET orders == {row(i).order : i \in Rows} \ {None}
        settled == {o \in orders : Payments(LedgerRows, o) # {}}
        refunded == {o \in settled : \E i \in LedgerRows :
                        row(i).order = o /\ (row(i).type = "refund" \/ row(i).dispute # None)}
        single == {o \in settled : Cardinality(Bookings(o)) = 1}
        Booked(o) == books.ledger[CHOOSE b \in Bookings(o) : TRUE]
    IN  [missing    |-> {o \in settled : Bookings(o) = {}},
         status     |-> {o \in single : /\ Booked(o).status # "paid"
                                        /\ ~(Booked(o).status = "refunded" /\ o \in refunded)},
         amount     |-> {o \in single : AbsPaise(Booked(o).amount - Amounts(Payments(LedgerRows, o)))
                                          > DriftTolerance},
         duplicate  |-> {o \in settled : Cardinality(Bookings(o)) > 1},
         unrefunded |-> {o \in refunded \cap single : Booked(o).status = "paid"}]

NoFindings == [missing |-> {}, status |-> {}, amount |-> {}, duplicate |-> {}, unrefunded |-> {}]

LedgerFindings == IF Len(books.ledger) = 0 THEN NoFindings ELSE reconcile_ledger

(* One exception for each class of finding that names an order.            *)
LedgerClasses == <<"ledger_mismatch", "duplicate_order_booking", "refund_not_reflected">>

LedgerExceptions(found) ==
    {c \in {LedgerClasses[k] : k \in DOMAIN LedgerClasses} :
        CASE c = "ledger_mismatch" -> found.missing \cup found.status \cup found.amount # {}
          [] c = "duplicate_order_booking" -> found.duplicate # {}
          [] c = "refund_not_reflected" -> found.unrefunded # {}}
=============================================================================
