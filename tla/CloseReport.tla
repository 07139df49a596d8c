---------------------------- MODULE CloseReport -----------------------------
(***************************************************************************)
(* The close of a period: build_report (engine/cli.py) over a reconciled   *)
(* batch, the certificate that is issued for the report, and its check by  *)
(* somebody who received it (engine/certificate.py, engine/verifier.py),   *)
(* with the audit chain (engine/audit.py).                                 *)
(*                                                                         *)
(* The same batch is closed on two paths: by the web service, which runs   *)
(* the challenger as an audit, and by the command line, which does not.    *)
(* A digest is modelled by what it is taken of, so that two digests are    *)
(* equal when the contents are.                                            *)
(***************************************************************************)
EXTENDS Recovery

CONSTANT Closes          \* the inputs explored: [batch, books] pairs

VARIABLES
    stage,         \* progress of build_report and of the certificate
    report,        \* the parts of the report built so far
    signing_key,   \* whether $UNTANGLE_SIGNING_KEY is configured
    issued,        \* envelopes issued, by whether the challenger was run
    presented,     \* the envelope a recipient has checked
    audit_file     \* the audit chain as somebody reads it from disk

tail == <<stage, report, issued, presented, audit_file>>
allVars == <<vars, books, signing_key, tail>>

(* Every settlement's net is that of its rows, and the attribution is that *)
(* of the deterministic tiers: an abstention has no rail, and a debit is   *)
(* never Razorpay's.                                                       *)
CloseInput(c) ==
    /\ c.books \in BooksType
    /\ \A l \in Lines : c.batch.rail[l] = "razorpay_settlement" =>
                          ~c.batch.abstained[l] /\ c.books.line[l].is_credit
    /\ \A s \in Settlements :
         c.batch.net[s] = Total([i \in DOMAIN c.books.rows |-> net_paise(c.books.rows[i])],
                                {i \in DOMAIN c.books.rows : c.books.rows[i].sid = s})

ASSUME ClosesAssumption == \A c \in Closes : c.batch \in Batches /\ CloseInput(c)

EmptyReport ==
    [fee_gst |-> 0, ledger |-> NoFindings, plan |-> <<>>, packets |-> [a \in BOOLEAN |-> {}],
     journal |-> <<>>, investigations |-> <<>>]

NoEnvelope == [issued |-> FALSE]

InitClose ==
    /\ \E c \in Closes : batch = c.batch /\ books = c.books
    /\ Init
    /\ stage = "reconcile" /\ report = EmptyReport
    /\ signing_key \in BOOLEAN
    /\ issued = [a \in BOOLEAN |-> NoEnvelope] /\ presented = NoEnvelope /\ audit_file = <<>>

-----------------------------------------------------------------------------
(* build_report.                                                           *)

Reconciling ==
    /\ stage = "reconcile"
    /\ ResolveTies \/ PassOver \/ ClaimByAmount \/ LeaveUnresolved \/ Classify
    /\ UNCHANGED <<books, signing_key, tail>>

Advance(from, to) == stage = from /\ stage' = to

(* A covered row that cannot be resolved raises: there is no report.       *)
PriceFees ==
    /\ phase = "exceptions" /\ Advance("reconcile", "exceptions")
    /\ \A l \in Reconciled : Resolvable(l)
    /\ report' = [report EXCEPT !.fee_gst = fee_gst]
    /\ UNCHANGED <<vars, books, signing_key, issued, presented, audit_file>>

FailClosed ==
    /\ phase = "exceptions" /\ Advance("reconcile", "failed")
    /\ \E l \in Reconciled : ~Resolvable(l)
    /\ UNCHANGED <<vars, books, signing_key, report, issued, presented, audit_file>>

ListExceptions ==
    /\ Advance("exceptions", "plan")
    /\ BuildExceptions
    /\ report' = [report EXCEPT !.ledger = LedgerFindings]
    /\ UNCHANGED <<books, signing_key, issued, presented, audit_file>>

PlanRecovery ==
    /\ Advance("plan", "packets")
    /\ report' = [report EXCEPT !.plan = build_recovery_plan]
    /\ UNCHANGED <<vars, books, signing_key, issued, presented, audit_file>>

ProvePackets ==
    /\ Advance("packets", "journal")
    /\ report' = [report EXCEPT !.packets = [a \in BOOLEAN |-> build_proof_packets(a)],
                                !.journal = build_journal_entries]
    /\ UNCHANGED <<vars, books, signing_key, issued, presented, audit_file>>

Investigate ==
    /\ Advance("journal", "report")
    /\ report' = [report EXCEPT !.investigations = build_investigations]
    /\ UNCHANGED <<vars, books, signing_key, issued, presented, audit_file>>

-----------------------------------------------------------------------------
(* The audit chain.  A hash covers its predecessor and its entry.          *)

GENESIS == <<>>
Hash(prev, body) == Append(prev, body)

Ascending(S) == Sorted(S, {p \in S \X S : p[1] < p[2]})

(* One event for each member of S, in order.                               *)
Each(S, event) ==
    [k \in 1 .. Cardinality(S) |-> [event |-> event[Ascending(S)[k]], on |-> Ascending(S)[k]]]

(* The events of build_report, in order.                                   *)
AuditEvents ==
    LET found == LedgerExceptions(report.ledger)
    IN  <<[event |-> "run_start", on |-> NumLines]>>
        \o Each(Lines, batch.rail)
        \o Each(Reconciled, [l \in Lines |-> "reconciliation"])
        \o Each({l \in Lines : exception[l] # NoReason}, exception)
        \o Each({k \in DOMAIN LedgerClasses : LedgerClasses[k] \in found}, LedgerClasses)
        \o <<[event |-> "run_end", on |-> Cardinality(Reconciled)]>>

(* AuditLedger.append, entry by entry.                                     *)
Chain(events) ==
    LET head[k \in 0 .. Len(events)] == IF k = 0 THEN GENESIS ELSE Hash(head[k - 1], events[k])
    IN  [k \in 1 .. Len(events) |->
            [body |-> events[k], prev |-> head[k - 1], hash |-> head[k]]]

AuditEntries == Chain(AuditEvents)

root(entries) == IF entries = <<>> THEN GENESIS ELSE entries[Len(entries)].hash

(* AuditLedger.verify.                                                     *)
VerifyChain(file) ==
    \A k \in DOMAIN file :
        /\ file[k].prev = (IF k = 1 THEN GENESIS ELSE file[k - 1].hash)
        /\ file[k].hash = Hash(file[k].prev, file[k].body)

(* The chain is written to disk, and read with an entry lost or two in the *)
(* wrong order.                                                            *)
ReadAudit ==
    /\ stage = "report" /\ \A a \in BOOLEAN : ~issued[a].issued
    /\ LET n == Len(AuditEntries)
       IN  audit_file' \in {AuditEntries}
                \cup {RemoveAt(AuditEntries, k) : k \in 1 .. n}
                \cup {SubSeq(AuditEntries, 1, k - 1) \o <<AuditEntries[k + 1], AuditEntries[k]>>
                        \o SubSeq(AuditEntries, k + 2, n) : k \in 1 .. n - 1}
    /\ stage' = "audited"
    /\ UNCHANGED <<vars, books, signing_key, report, issued, presented>>

-----------------------------------------------------------------------------
(* Certificates.                                                           *)

ALLOWED_TIE_SIGNALS == {"utr_exact", "utr_suffix", "setsum", "amount_corr", "split_reconstruction"}

(* A packet is checked from its own text: ties, arithmetic and, if the     *)
(* challenger was run, its margin.                                         *)
verify_proof_packet(p) ==
    LET expected == _parse_inr_to_paise(p.amount) - _parse_inr_to_paise(p.settlement.net)
    IN  /\ p.ties # {} /\ p.ties \subseteq ALLOWED_TIE_SIGNALS
        /\ p.reconciled => /\ AbsPaise(expected) <= DriftTolerance
                           /\ p.settlement.residual = expected
        /\ p.margin.present => p.margin.value > 0

Passed(packets) == {p \in packets : verify_proof_packet(p)}

RunReport(audit) ==
    [fee_gst |-> report.fee_gst, ledger |-> report.ledger, plan |-> report.plan,
     journal |-> report.journal, investigations |-> report.investigations,
     packets |-> report.packets[audit], covered |-> covered, exceptions |-> exception,
     audit_root |-> root(AuditEntries)]

Paise(S) == Total([l \in S |-> amount_paise(l)], S)
ProvenPaise == Paise({l \in Lines : batch.rail[l] = "razorpay_settlement"})
ReconciledPaise == Paise(Reconciled)

(* The figures of the certificate, as printed.                             *)
build_close_certificate(audit) ==
    LET open == ProvenPaise - ReconciledPaise
        Count(reason) == Cardinality({l \in Lines : exception[l] = reason})
    IN  [proven |-> _inr(ProvenPaise), reconciled_count |-> Cardinality(Reconciled),
         reconciled |-> _inr(ReconciledPaise), unresolved |-> _inr(IF open > 0 THEN open ELSE 0),
         unresolved_count |-> Cardinality({l \in Lines : Razorpay(l) /\ ~Resolved(l)}),
         fee_gst |-> _inr(report.fee_gst), exceptions_by_reason |-> [r \in Reasons |-> Count(r)],
         ledger_exceptions |-> LedgerExceptions(report.ledger),
         packets_verified |-> Cardinality(report.packets[audit]),
         packets_passed |-> Cardinality(Passed(report.packets[audit])),
         audit_root |-> root(AuditEntries), report_sha256 |-> RunReport(audit)]

(* The envelope: body, content hash and, with a key, a signature.          *)
issue_certificate(audit) ==
    LET cert == build_close_certificate(audit)
    IN  [issued |-> TRUE, certificate |-> cert, content_sha256 |-> cert, signed |-> signing_key,
         signature |-> IF signing_key THEN {cert} ELSE {}, report |-> {}]

Issue(audit) ==
    /\ stage = "report" /\ ~issued[audit].issued
    /\ issued' = [issued EXCEPT ![audit] = issue_certificate(audit)]
    /\ UNCHANGED <<vars, books, signing_key, stage, report, presented, audit_file>>

(* Fault for sensitivity: the attached report is not bound.                *)
FaultUnbound(env) == TRUE

(* An attached report must be the one hashed into the body, and all of its *)
(* packets must pass.                                                      *)
ReportBinds(env) ==
    \A r \in env.report : /\ r = env.certificate.report_sha256
                          /\ \A p \in r.packets : verify_proof_packet(p)

(* A signature counts only against the deployment's own key.               *)
verify_certificate(env) ==
    /\ env.content_sha256 = env.certificate
    /\ env.signed = (env.signature # {})
    /\ env.signature # {} => signing_key /\ env.signature = {env.certificate}
    /\ ReportBinds(env)

(* A recipient checks an envelope put together from what was stored: the   *)
(* parts may come from two closes, and any may be missing.                 *)
Present ==
    /\ ~presented.issued
    /\ \E body, hash \in {a \in BOOLEAN : issued[a].issued},
          sig, rep \in {{}} \cup {{a} : a \in {a \in BOOLEAN : issued[a].issued}},
          signed \in BOOLEAN :
          presented' = [issued |-> TRUE, certificate |-> issued[body].certificate,
                        content_sha256 |-> issued[hash].content_sha256, signed |-> signed,
                        signature |-> UNION {issued[a].signature : a \in sig},
                        report |-> {RunReport(a) : a \in rep}]
    /\ UNCHANGED <<vars, books, signing_key, stage, report, issued, audit_file>>

NextClose ==
    \/ Reconciling
    \/ PriceFees \/ FailClosed \/ ListExceptions \/ PlanRecovery \/ ProvePackets \/ Investigate
    \/ ReadAudit
    \/ \E audit \in BOOLEAN : Issue(audit)
    \/ Present

CloseSpec == InitClose /\ [][NextClose]_allVars

-----------------------------------------------------------------------------
(* Properties.                                                             *)

Built == stage \in {"report", "audited"}

AllCovered == UNION {RowsOf(s) : s \in UNION {Members(covered[l]) : l \in Reconciled}}

(* One convention of fee and tax in the rows of a voucher: the tax is in   *)
(* the fee, or it is on top of it and only payments have any.              *)
OneConvention(S) ==
    \/ \A i \in S : row(i).type = "payment" => row(i).credit = row(i).amount - row(i).fee
    \/ \A i \in S : IF row(i).type = "payment"
                     THEN row(i).credit = row(i).amount - row(i).fee - row(i).tax
                     ELSE row(i).tax = 0

(* The GST claimed, the input tax in the vouchers and the tax of the rows  *)
(* settled are one figure, every row counted once, although rows repeat    *)
(* their keys; a voucher relieves clearing of the gross of its payments    *)
(* less what was deducted; and the ledger is told of a wrong amount only   *)
(* if the order's settled payments, all of them, add up to another one.    *)
BooksAgree ==
    Built =>
        /\ report.fee_gst = Taxes(AllCovered)
        /\ report.fee_gst =
             Total([l \in Reconciled |-> report.journal[l].cgst + report.journal[l].sgst], Reconciled)
        /\ \A l \in Reconciled :
             LET e == report.journal[l]
                 S == UNION {RowsOf(s) : s \in Members(covered[l])}
             IN  /\ e.bank + e.rounding + e.mdr + e.cgst + e.sgst = e.clearing
                 /\ OneConvention(S) => e.clearing =
                      SumOver(S, LAMBDA r : IF r.type = "payment" THEN r.amount - r.debit
                                            ELSE net_paise(r) + r.fee)
        /\ \A o \in report.ledger.amount :
             LET all == Payments(AllCovered, o)
             IN  (\A i \in all, j \in Rows : Key(i) = Key(j) => i = j)
                 => \E b \in Bookings(o) : AbsPaise(books.ledger[b].amount - Amounts(all)) > DriftTolerance

(* A drafted correction closes the variance it is drafted for, up to the   *)
(* tolerance, against one settlement the line's text names, and moves the  *)
(* clearing account by what it explains and in that direction.             *)
CorrectionsCloseVariance ==
    Built => \A l \in DOMAIN report.investigations :
        LET f == report.investigations[l]
        IN  f.drafted =>
              /\ \E s \in books.line[l].utrs \cup books.line[l].suffixes :
                    f.variance = amount_paise(l) - batch.net[s]
              /\ AbsPaise(f.variance - f.delta) <= DriftTolerance
              /\ f.clearing = -f.delta

(* The plan promises no paisa twice: every unresolved line is in one       *)
(* action, or in none when the plan is capped, and the total is that of    *)
(* the credits in the actions kept.  What is cut ranks below all that is   *)
(* kept, and an export covers the days around each line it is meant for.   *)
PlanCountsOnce ==
    Built =>
        LET acts == Range(report.plan.actions)
            in_plan == UNION {a.resolves : a \in acts}
        IN  /\ \A a, b \in acts : a # b => a.resolves \cap b.resolves = {}
            /\ report.plan.capped \/ in_plan = Unresolved
            /\ report.plan.recoverable_if_actioned = Total([a \in acts |-> a.recoverable], acts)
            /\ report.plan.recoverable_if_actioned <= report.plan.unresolved_credit
            /\ \A a \in acts, b \in AllActions \ acts : a.gain >= b.gain
            /\ \A a \in acts : a.params.type = "export_settlement_report" =>
                 \A l \in a.resolves : /\ a.params.from <= books.line[l].date - EXPORT_WINDOW
                                       /\ a.params.to >= books.line[l].date + EXPORT_WINDOW

(* A certificate that verifies is one that was issued: body, hash and      *)
(* signature of the same close, the report it was issued for, no packet    *)
(* the challenger broke, and the figures of the books.  An audit file that *)
(* verifies and ends in the certified root is the whole chain.             *)
CertificateStands ==
    /\ presented.issued /\ verify_certificate(presented) =>
         \E a \in BOOLEAN :
            /\ issued[a].issued
            /\ presented.certificate = issued[a].certificate
            /\ presented.content_sha256 = issued[a].content_sha256
            /\ presented.signature \subseteq issued[a].signature
            /\ presented.report \subseteq {RunReport(a)}
            /\ presented.report # {} =>
                 \A l \in Lines : (a /\ \E p \in report.packets[a] : p.line = l)
                                  => books.line[l].margin > 0
            /\ _parse_inr_to_paise(presented.certificate.reconciled)
                 + _parse_inr_to_paise(presented.certificate.unresolved)
               = Paise({l \in Lines : Razorpay(l)})
    /\ stage = "audited" /\ VerifyChain(audit_file) /\ root(audit_file) = root(AuditEntries)
         => audit_file = AuditEntries
=============================================================================
