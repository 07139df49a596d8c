------------------------------ MODULE Reconcile ------------------------------
(***************************************************************************)
(* reconcile (engine/reconcile.py) and build_exceptions                    *)
(* (engine/exceptions.py): which bank credit covers which settlements of   *)
(* the recon report, and which credits go to a human instead.              *)
(*                                                                         *)
(* A batch is one input: the settlements with their nets, their dates'     *)
(* window and their place in the report, and the bank credits with their   *)
(* amounts, the settlement whose UTR their narration names, and their      *)
(* attribution.  Credits are numbered in the order of the attributions.    *)
(* Pass 1 (UTR ties) is one step, pass 2 (amounts) one step per credit.    *)
(***************************************************************************)
EXTENDS BoundedSubsets

CONSTANTS Settlements,              \* settlement ids, ordered as their strings
          NumLines,                 \* how many bank credits a batch has
          Batches,                  \* the inputs considered
          DriftTolerance,           \* _DRIFT_TOLERANCE_PAISE
          SetsumMaxTerms,           \* _SETSUM_MAX_TERMS
          SetsumMaxCandidates,      \* _SETSUM_MAX_CANDIDATES
          ExpansionMaxCandidates,   \* _SETSUM_EXPANSION_MAX_CANDIDATES
          SetsumMaxCombinations     \* _SETSUM_MAX_COMBINATIONS

Lines == 1 .. NumLines

NoSettlement == 0

Rails == {"razorpay_settlement", "other", "unknown"}

\* The evidence signals build_exceptions looks for; "utr" stands for those that lean to
\* Razorpay.
Signals == {"rule_conflict", "multiple_satisfying_subsets", "utr", "split_reconstruction"}

Batch == [net       : [Settlements -> Int],
          pos       : [Settlements -> Nat],
          amount    : [Lines -> Nat \ {0}],
          tie       : [Lines -> Settlements \cup {NoSettlement}],
          window    : [Lines -> SUBSET Settlements],
          rail      : [Lines -> Rails],
          abstained : [Lines -> BOOLEAN],
          signals   : [Lines -> SUBSET Signals]]

ASSUME SettlementsAssumption == Settlements \subseteq Nat \ {0} /\ IsFiniteSet(Settlements)

ASSUME LinesAssumption == NumLines \in Nat

ASSUME BatchesAssumption == Batches \subseteq Batch

\* The report has a settlement at one place.
ASSUME PositionsAssumption ==
    \A b \in Batches : \A s, t \in Settlements : s # t => b.pos[s] # b.pos[t]

ASSUME LimitsAssumption ==
    /\ DriftTolerance \in Nat
    /\ SetsumMaxTerms \in Nat
    /\ SetsumMaxCandidates \in Nat
    /\ ExpansionMaxCandidates \in Nat
    /\ SetsumMaxCombinations \in Nat

Reasons == {"rule_conflict", "multiple_satisfying_subsets", "razorpay_uncertain",
            "unattributed_ambiguous", "partial_or_duplicate_settlement",
            "unbalanced_residual", "reconstructed_split_leg",
            "razorpay_coverage_not_found"}

NoReason == "none"

VARIABLES
    batch,           \* the input
    phase,           \* "utr", "amount", "exceptions" or "done"
    turn,            \* the credit pass 2 looks at next
    covered,         \* covered[l][s]: how often credit l's result covers s's rows
    used_sids,       \* settlements some result covers
    ambiguous_lines,
    un_enumerable_lines,
    duplicate_or_split_lines,
    unbalanced_lines,
    uncredited_sids,
    exception        \* exception[l]: its reason code, or NoReason

lineSets == <<ambiguous_lines, un_enumerable_lines, duplicate_or_split_lines, unbalanced_lines>>
vars == <<batch, phase, turn, covered, used_sids, lineSets, uncredited_sids, exception>>

Uncovered == [s \in Settlements |-> 0]

\* Type correctness.
TypeOK ==
    /\ batch \in Batch
    /\ phase \in {"utr", "amount", "exceptions", "done"}
    /\ turn \in 1 .. NumLines + 1
    /\ covered \in [Lines -> [Settlements -> 0 .. 3]]
    /\ used_sids \subseteq Settlements
    /\ ambiguous_lines \subseteq Lines
    /\ un_enumerable_lines \subseteq Lines
    /\ duplicate_or_split_lines \subseteq Lines
    /\ unbalanced_lines \subseteq Lines
    /\ uncredited_sids \subseteq Settlements
    /\ exception \in [Lines -> Reasons \cup {NoReason}]

Init ==
    /\ batch \in Batches
    /\ phase = "utr"
    /\ turn = 1
    /\ covered = [l \in Lines |-> Uncovered]
    /\ used_sids = {}
    /\ ambiguous_lines = {}
    /\ un_enumerable_lines = {}
    /\ duplicate_or_split_lines = {}
    /\ unbalanced_lines = {}
    /\ uncredited_sids = {}
    /\ exception = [l \in Lines |-> NoReason]

\* The slice reconcile works on: proven Razorpay, never an abstained credit.
Razorpay(l) == batch.rail[l] = "razorpay_settlement" /\ ~batch.abstained[l]

Resolved(l) == covered[l] # Uncovered

\* _make_result: a result is built when the residual is within tolerance.
Balances(l, net) == LET residual == batch.amount[l] - net
                    IN  residual <= DriftTolerance /\ -residual <= DriftTolerance

(***************************************************************************)
(* Pass 1: UTR ties.                                                       *)
(***************************************************************************)
\* utr_sid: the settlement whose UTR the credit names.
Tied(l) == Razorpay(l) /\ batch.tie[l] # NoSettlement

Claimants(s) == {l \in Lines : Tied(l) /\ batch.tie[l] = s}

\* A credit that is the only claimant of its settlement, and balances against it.
Proves(l) == Tied(l) /\ Claimants(batch.tie[l]) = {l} /\ Balances(l, batch.net[batch.tie[l]])

ResolveTies ==
    /\ phase = "utr"
    /\ covered' = [l \in Lines |-> IF Proves(l) THEN Once(Settlements, {batch.tie[l]})
                                                ELSE Uncovered]
    /\ used_sids' = {batch.tie[l] : l \in {m \in Lines : Proves(m)}}
    /\ duplicate_or_split_lines' = {l \in Lines : Tied(l) /\ Claimants(batch.tie[l]) # {l}}
    /\ phase' = "amount"
    /\ UNCHANGED <<batch, turn, ambiguous_lines, un_enumerable_lines, unbalanced_lines,
                   uncredited_sids, exception>>

(***************************************************************************)
(* Pass 2: a single net or a bounded set-sum, for what is left.            *)
(***************************************************************************)
\* Settlements the search for l may use: not used, and dated within the window of l.
Available(l) == batch.window[l] \ used_sids

SingleNets(l) == {s \in Available(l) : batch.net[s] = batch.amount[l]}

Candidates(l) == {s \in Available(l) : 0 < batch.net[s] /\ batch.net[s] < batch.amount[l]}

SetsumSearch(l) ==
    LET cands == Candidates(l)
    IN  IF cands = {} \/ Cardinality(cands) > SetsumMaxCandidates
        THEN [subsets |-> {}, exhausted |-> FALSE]
        ELSE IF Cardinality(cands) <= ExpansionMaxCandidates
        THEN find_bounded_subsets(cands, batch.net, batch.pos, batch.amount[l],
                 SetsumMaxTerms, ExpansionMaxCandidates, SetsumMaxCombinations)
        ELSE find_legacy_subsets(cands, batch.net, batch.pos, batch.amount[l])

\* What a result covers when it is built from the tuple m.
Coverage(m) == [s \in Settlements |-> IF s \in DOMAIN m THEN m[s] ELSE 0]

SatisfyingSubsets(l) ==
    {Once(Settlements, {s}) : s \in SingleNets(l)}
        \cup {Coverage(m) : m \in SetsumSearch(l).subsets}

CoveredNet(c) == Total([s \in Settlements |-> c[s] * batch.net[s]], Settlements)

\* amount_or_setsum_sids: the only satisfying subset, if the search was complete.
Claims(l) == {c \in SatisfyingSubsets(l) :
                 /\ ~SetsumSearch(l).exhausted
                 /\ SatisfyingSubsets(l) = {c}
                 /\ Balances(l, CoveredNet(c))}

\* Credits pass 2 still has to look at.
Open(l) == Razorpay(l) /\ ~Resolved(l) /\ l \notin duplicate_or_split_lines

\* The loop over the slice goes on to the next credit.
NextLine == phase = "amount" /\ turn <= NumLines /\ turn' = turn + 1

PassOver ==
    /\ NextLine
    /\ ~Open(turn)
    /\ UNCHANGED <<batch, phase, covered, used_sids, lineSets, uncredited_sids, exception>>

\* Fault for sensitivity: the settlements of a set-sum stay available.
FaultClaimKeepsSids ==
    /\ NextLine
    /\ Open(turn)
    /\ \E c \in Claims(turn) : covered' = [covered EXCEPT ![turn] = c]
    /\ UNCHANGED <<batch, phase, used_sids, lineSets, uncredited_sids, exception>>

ClaimByAmount ==
    /\ NextLine
    /\ Open(turn)
    /\ \E c \in Claims(turn) :
          /\ covered' = [covered EXCEPT ![turn] = c]
          /\ used_sids' = used_sids \cup Members(c)
    /\ UNCHANGED <<batch, phase, lineSets, uncredited_sids, exception>>

\* No subset, more than one, or a search that ran out of budget.
LeaveUnresolved ==
    /\ NextLine
    /\ Open(turn)
    /\ Claims(turn) = {}
    /\ IF SetsumSearch(turn).exhausted
       THEN /\ un_enumerable_lines' = un_enumerable_lines \cup {turn}
            /\ UNCHANGED ambiguous_lines
       ELSE /\ ambiguous_lines' = IF Cardinality(SatisfyingSubsets(turn)) > 1
                                  THEN ambiguous_lines \cup {turn} ELSE ambiguous_lines
            /\ UNCHANGED un_enumerable_lines
    /\ UNCHANGED <<batch, phase, covered, used_sids, duplicate_or_split_lines,
                   unbalanced_lines, uncredited_sids, exception>>

(***************************************************************************)
(* After the passes.                                                       *)
(***************************************************************************)
\* A tied credit no pass has resolved: a leg of its settlement, or too much for it.
Unsettled == {l \in Lines : Tied(l) /\ ~Resolved(l)}

\* Fault for sensitivity: every tied credit is classified afresh.
FaultClassifyAll ==
    /\ phase = "amount"
    /\ turn = NumLines + 1
    /\ LET Leg == {l \in Lines : Tied(l) /\ batch.amount[l] < batch.net[batch.tie[l]]}
           All == {l \in Lines : Tied(l)}
       IN  /\ duplicate_or_split_lines' = Leg
           /\ unbalanced_lines' = All \ Leg
    /\ uncredited_sids' = Settlements \ used_sids
    /\ phase' = "exceptions"
    /\ UNCHANGED <<batch, turn, covered, used_sids, ambiguous_lines, un_enumerable_lines,
                   exception>>

Classify ==
    /\ phase = "amount"
    /\ turn = NumLines + 1
    /\ LET Leg == {l \in Unsettled : batch.amount[l] < batch.net[batch.tie[l]]}
       IN  /\ duplicate_or_split_lines' = duplicate_or_split_lines \cup Leg
           /\ unbalanced_lines' = Unsettled \ Leg
    /\ uncredited_sids' = Settlements \ used_sids
    /\ phase' = "exceptions"
    /\ UNCHANGED <<batch, turn, covered, used_sids, ambiguous_lines, un_enumerable_lines,
                   exception>>

\* The reason code for a credit that was not attributed.
AbstentionReason(l) ==
    IF "rule_conflict" \in batch.signals[l] THEN "rule_conflict"
    ELSE IF "multiple_satisfying_subsets" \in batch.signals[l] THEN "multiple_satisfying_subsets"
    ELSE IF "utr" \in batch.signals[l] THEN "razorpay_uncertain"
    ELSE "unattributed_ambiguous"

\* The reason code for a Razorpay credit that was not reconciled.
UnresolvedReason(l) ==
    IF l \in ambiguous_lines THEN "multiple_satisfying_subsets"
    ELSE IF l \in duplicate_or_split_lines THEN "partial_or_duplicate_settlement"
    ELSE IF l \in unbalanced_lines THEN "unbalanced_residual"
    ELSE IF "split_reconstruction" \in batch.signals[l] THEN "reconstructed_split_leg"
    ELSE "razorpay_coverage_not_found"

Abstains(l) == batch.abstained[l] \/ batch.rail[l] = "unknown"

Reason(l) ==
    IF Abstains(l) THEN AbstentionReason(l)
    ELSE IF Razorpay(l) /\ ~Resolved(l) THEN UnresolvedReason(l)
    ELSE NoReason

BuildExceptions ==
    /\ phase = "exceptions"
    /\ exception' = [l \in Lines |-> Reason(l)]
    /\ phase' = "done"
    /\ UNCHANGED <<batch, turn, covered, used_sids, lineSets, uncredited_sids>>

Next ==
    \/ ResolveTies
    \/ PassOver
    \/ ClaimByAmount
    \/ LeaveUnresolved
    \/ Classify
    \/ BuildExceptions

Spec == Init /\ [][Next]_vars

(***************************************************************************)
(* Properties.                                                             *)
(***************************************************************************)
\* No settlement is covered by the results of two credits, whichever pass found them: the
\* used_sids that both passes of reconcile maintain are what keeps the credits apart.
OneCreditPerSettlement ==
    \A l, m \in Lines : l # m => Members(covered[l]) \cap Members(covered[m]) = {}

\* A credit that proves by its UTR that a settlement is its own has exactly that settlement
\* from pass 1 to the report: no credit matched by amount takes it, and pass 2 does not
\* replace it.
UtrTieKept ==
    phase # "utr" =>
        \A l \in Lines : Proves(l) => covered[l] = Once(Settlements, {batch.tie[l]})

\* How many settlements of a pool the search goes through, by the size of the pool.
SearchedTerms(l) ==
    LET n == Cardinality(Candidates(l))
    IN  IF n > SetsumMaxCandidates THEN 1
        ELSE IF n <= ExpansionMaxCandidates THEN SetsumMaxTerms ELSE 3

\* Reference: every set of available settlements of that size that makes up the amount.
ExactSubsets(l) ==
    {S \in SUBSET (SingleNets(l) \cup Candidates(l)) :
        /\ Cardinality(S) \in 1 .. SearchedTerms(l)
        /\ Total(batch.net, S) = batch.amount[l]}

\* Abstain unless unique: when amount_or_setsum_sids settles on a covering set, no other set
\* of the settlements still available makes up the amount, whatever their order in the
\* report and their identities are.
UniqueWhenClaimed ==
    [][\A l \in Lines :
          phase = "amount" /\ covered'[l] # covered[l]
              => \A S \in ExactSubsets(l) : S = Members(covered'[l])]_vars

\* An exception that reports an unbalanced residual has one: what the bank paid exceeds the
\* settlement of the credit's UTR by more than the drift tolerance.  (Of the credits that
\* claim one settlement together, none is reported so.)
ResidualIsReal ==
    \A l \in Lines : exception[l] = "unbalanced_residual" =>
        batch.amount[l] - batch.net[batch.tie[l]] > DriftTolerance

\* At the end every credit is accounted for once: reconciled, listed as an exception, or
\* attributed to another rail.
AccountedOnce ==
    phase = "done" =>
        \A l \in Lines :
            /\ (exception[l] = NoReason) <=> (Resolved(l) \/ ~(Abstains(l) \/ Razorpay(l)))
            /\ Resolved(l) => Razorpay(l)
            /\ Resolved(l) => l \notin ambiguous_lines \cup duplicate_or_split_lines
                                                    \cup unbalanced_lines
=============================================================================
