---------------------------- MODULE Attribution -----------------------------
(***************************************************************************)
(* Attribution of bank lines to rails (engine/attribute.py, engine/rules.py*)
(* and engine/solver.py through the module Solver): every line on its own, *)
(* then the reconstruction of split settlements or the global solver, then *)
(* the rules a human approved.                                             *)
(*                                                                         *)
(* The pipeline runs once for each margin in Margins on the same statement,*)
(* so that what the adversarial gate changes can be compared.              *)
(***************************************************************************)
EXTENDS Solver

CONSTANTS
    Statements,                  \* the inputs explored
    RuleSets,                    \* sets of rules explored
    Margins,                     \* margin_threshold, in ten-thousandths; 0 is the ungated engine
    Budgets,                     \* max_steps of the solver's search
    SETSUM_MAX_TERMS,
    SETSUM_MAX_CANDIDATES,
    SETSUM_EXPANSION_MAX_CANDIDATES,
    SETSUM_MAX_COMBINATIONS

VARIABLES
    rules,          \* the rules passed to attribute_all
    global_solver,  \* the flag
    max_steps,      \* the solver's step budget
    phase, turn,    \* progress of attribute_all
    graph, todo,    \* the solver's candidates and the components not yet solved
    verdict,        \* RailAttribution of each line, for each margin
    solution        \* SolverResult, for each margin

vars == <<statement, rules, global_solver, max_steps, phase, turn, graph, todo, verdict, solution>>

ASSUME AttributionAssumption ==
    /\ Statements \subseteq Statement
    /\ 0 \in Margins /\ Margins \subseteq Nat
    /\ SETSUM_MAX_TERMS \in Nat /\ SETSUM_MAX_CANDIDATES \in Nat
    /\ SETSUM_EXPANSION_MAX_CANDIDATES \in Nat /\ SETSUM_MAX_COMBINATIONS \in Nat

-----------------------------------------------------------------------------
(* One line.                                                               *)

Verdict(rail, conf, tier, items) ==
    [rail |-> rail, confidence |-> conf, tier |-> tier, evidence |-> items, abstained |-> FALSE]

Abstained(conf, items) ==
    [rail |-> "unknown", confidence |-> conf, tier |-> "none", evidence |-> items, abstained |-> TRUE]

SETSUM_WINDOW == 5

(* Settlements that could be summed, and how the search over them ends.    *)
_setsum_evidence(l) ==
    LET target == ln(l).amount
        cands == {s \in Settlements : /\ 0 < settlement_net(s) /\ settlement_net(s) < target
                                      /\ Near(l, s, SETSUM_WINDOW)}
        singles == {s \in net_to_settlements(target) : Near(l, s, SETSUM_WINDOW)}
        order == [s \in Settlements |-> s]
        sums == IF Cardinality(cands) <= SETSUM_EXPANSION_MAX_CANDIDATES
                THEN find_bounded_subsets(cands, statement.net, order, target, SETSUM_MAX_TERMS,
                                          SETSUM_EXPANSION_MAX_CANDIDATES, SETSUM_MAX_COMBINATIONS)
                ELSE find_legacy_subsets(cands, statement.net, order, target)
        found == Cardinality(singles) + Cardinality(sums.subsets)
    IN  IF cands = {} \/ Cardinality(cands) > SETSUM_MAX_CANDIDATES THEN {}
        ELSE IF sums.exhausted THEN {Item("setsum_unenumerable", 0)}
        ELSE IF found > 1 THEN {Item("multiple_satisfying_subsets", 0)}
        ELSE When(found = 1 /\ singles = {}, {Item("setsum", 550)})

(* A machine verdict for Razorpay is accepted only if it withstands the    *)
(* challenger by the margin; with no margin the challenger is not run.     *)
_finalize_razorpay(l, items, score, tier, margin) ==
    LET result == challenge_razorpay(items, narration_rail_signals(l), score)
    IN  IF margin > 0 /\ (result.truncated \/ result.proof_margin < margin * 100000)
        THEN Abstained(score, items \cup {Item("proof_margin_low", 0)})
        ELSE Verdict("razorpay_settlement", score, tier, items)

HARD_RZP_SIGNALS == {"utr_exact", "utr_suffix", "setsum"}

(* A debit is never a settlement credit.                                   *)
AttributeDebit(l) ==
    LET non_rzp == narration_rail_signals(l)
        score == _combine(non_rzp)
    IN  IF non_rzp # {} /\ score >= THRESHOLD THEN Verdict("other", score, "B", non_rzp)
        ELSE Abstained(score, non_rzp)

(* Fault for sensitivity: resemblance to Razorpay is enough to compete.     *)
FaultResemblance(items, non_rzp) == items # {} /\ non_rzp = {}

(* The Razorpay score competes only with a tie to the report, and against  *)
(* another rail's keyword only with a hard one.                            *)
ProofGatePasses(items, non_rzp) ==
    /\ HasSignal(items, RZP_TIE_SIGNALS)
    /\ non_rzp # {} => HasSignal(items, HARD_RZP_SIGNALS)

ScoreLine(l, items, tier, margin) ==
    LET non_rzp == narration_rail_signals(l)
        rzp == IF ProofGatePasses(items, non_rzp) THEN _combine(items) ELSE 0
        other == _combine(non_rzp)
    IN  IF rzp = 0 /\ other = 0 THEN Abstained(0, items)
        ELSE IF rzp >= other
             THEN IF rzp < THRESHOLD THEN Abstained(rzp, items)
                  ELSE _finalize_razorpay(l, items, rzp, tier, margin)
        ELSE IF other < THRESHOLD THEN Abstained(other, non_rzp)
             ELSE Verdict("other", other, "B", non_rzp)

attribute_line(l, margin) ==
    LET items == razorpay_signals(l)
        non_rzp == narration_rail_signals(l)
        setsum == IF HasSignal(items, HARD_RZP_SIGNALS) THEN {} ELSE _setsum_evidence(l)
        undecided == {"setsum_unenumerable", "multiple_satisfying_subsets"}
    IN  IF ~ln(l).is_credit THEN AttributeDebit(l)
        ELSE IF HasSignal(items, {"utr_exact"})
             THEN _finalize_razorpay(l, items, _combine(items), "A", margin)
        ELSE IF HasSignal(setsum, undecided) /\ non_rzp = {} THEN Abstained(0, items \cup setsum)
        ELSE IF HasSignal(setsum, {"setsum"}) /\ items # {} /\ non_rzp = {}
             THEN ScoreLine(l, items \cup setsum, "C", margin)
        ELSE ScoreLine(l, items, "B", margin)

-----------------------------------------------------------------------------
(* Split settlements: abstained legs that together make up one net.        *)

(* The pool: abstained credits without another rail's keyword that lean to *)
(* Razorpay.                                                               *)
SplitPool(base) ==
    {l \in Lines : /\ base[l].abstained /\ ln(l).is_credit /\ ln(l).amount > 0
                   /\ narration_rail_signals(l) = {}
                   /\ HasSignal(razorpay_signals(l), RZP_LEANING_SIGNALS)}

EligibleLegs(pool, s) ==
    {l \in pool : ln(l).amount < settlement_net(s) /\ Near(l, s, SPLIT_DATE_WINDOW)}

(* Every match of a settlement with a set of legs, and the legs poisoned   *)
(* by a pool too large to enumerate.                                       *)
SplitMatches(pool) ==
    UNION {{<<s, legs>> : legs \in _all_sum_subsets(EligibleLegs(pool, s), s)} :
             s \in {s \in Settlements : Cardinality(EligibleLegs(pool, s)) \in 2 .. SPLIT_MAX_CANDIDATES}}

Poisoned(pool) ==
    UNION {EligibleLegs(pool, s) :
             s \in {s \in Settlements : Cardinality(EligibleLegs(pool, s)) > SPLIT_MAX_CANDIDATES}}

(* Fault for sensitivity: a settlement's only match is taken although a    *)
(* leg of it also matches another settlement.                              *)
FaultSharedLegs(matches, m) == \A n \in matches : n[1] = m[1] => n = m

(* The only match of its settlement, none of whose legs is in another one. *)
Unambiguous(matches, m) == \A n \in matches : n[1] = m[1] \/ n[2] \cap m[2] # {} => n = m

AcceptedSplits(base) ==
    LET pool == SplitPool(base)
        matches == SplitMatches(pool)
    IN  {m \in matches : /\ Unambiguous(matches, m)
                         /\ m[2] \cap Poisoned(pool) = {}
                         /\ \E l \in m[2] : HasSignal(razorpay_signals(l), STRONG_RZP_SIGNALS)}

reconstruct_splits(base, margin) ==
    LET legs == IF SPLIT_CONFIDENCE < THRESHOLD \/ Cardinality(SplitPool(base)) < 2 THEN {}
                ELSE UNION {m[2] : m \in AcceptedSplits(base)}
    IN  [l \in Lines |->
           IF l \in legs
           THEN _finalize_razorpay(l, {Item("split_reconstruction", 900)}, SPLIT_CONFIDENCE, "C", margin)
           ELSE base[l]]

-----------------------------------------------------------------------------
(* The solver's verdicts as attributions.                                  *)

run_global_solver(base, result) ==
    LET Adjusted(l) ==
            LET c == CHOOSE c \in result.chosen : l \in c.credits
            IN  IF l \in result.contested THEN [base[l] EXCEPT !.rail = "unknown", !.abstained = TRUE]
                ELSE IF c.target = ABSTAIN THEN [Abstained(0, base[l].evidence) EXCEPT !.tier = "B"]
                ELSE IF c.target = RAIL THEN Verdict("other", c.confidence * 100000, "B", c.evidence)
                ELSE Verdict("razorpay_settlement", c.confidence * 100000,
                             IF c.is_split THEN "C"
                             ELSE IF HasSignal(c.evidence, {"utr_exact"}) THEN "A" ELSE "B", c.evidence)
    IN  [l \in Lines |-> IF l \in Credits THEN Adjusted(l) ELSE base[l]]

-----------------------------------------------------------------------------
(* Human-approved rules: [word, target, approved].                         *)

match_rule(l, r) == r.approved /\ r.word \in ln(l).words

MatchedRails(l) == {r.target : r \in {r \in rules : match_rule(l, r)}}

RuleVerdict(l) ==
    IF Cardinality(MatchedRails(l)) > 1 THEN Abstained(0, {Item("rule_conflict", 0)})
    ELSE Verdict(CHOOSE rail \in MatchedRails(l) : TRUE, 950000000, "rule_derived",
                 {Item("human_approved_rule", 950)})

(* A conflict of approved rules overrides all but an exact UTR; a rule     *)
(* otherwise fills an abstention only.  Debits are never touched.          *)
apply_approved_rules(l, v) ==
    IF ~ln(l).is_credit \/ MatchedRails(l) = {} THEN v
    ELSE IF Cardinality(MatchedRails(l)) > 1 THEN IF v.tier = "A" THEN v ELSE RuleVerdict(l)
    ELSE IF v.abstained THEN RuleVerdict(l) ELSE v

-----------------------------------------------------------------------------
NoVerdict == Abstained(0, {})
NoSolution ==
    [chosen |-> {}, consumed |-> {}, contested |-> {}, cut |-> {}, alt_cut |-> {}, is_optimal |-> TRUE]

Init ==
    /\ statement \in Statements
    /\ rules \in RuleSets
    /\ global_solver \in BOOLEAN
    /\ max_steps \in Budgets
    /\ global_solver \/ max_steps = Max(Budgets)   \* the budget is the solver's alone
    /\ phase = "lines" /\ turn = 1
    /\ graph = {} /\ todo = {}
    /\ verdict = [m \in Margins |-> [l \in Lines |-> NoVerdict]]
    /\ solution = [m \in Margins |-> NoSolution]

AttributeLine ==
    /\ phase = "lines" /\ turn <= NumLines
    /\ verdict' = [m \in Margins |-> [verdict[m] EXCEPT ![turn] = attribute_line(turn, m)]]
    /\ turn' = turn + 1
    /\ UNCHANGED <<statement, rules, global_solver, max_steps, phase, graph, todo, solution>>

ReconstructSplits ==
    /\ phase = "lines" /\ turn > NumLines /\ ~global_solver
    /\ verdict' = [m \in Margins |-> reconstruct_splits(verdict[m], m)]
    /\ phase' = "rules"
    /\ UNCHANGED <<statement, rules, global_solver, max_steps, turn, graph, todo, solution>>

BuildGraph ==
    /\ phase = "lines" /\ turn > NumLines /\ global_solver
    /\ graph' = build_candidate_graph
    /\ todo' = Components(graph')
    /\ solution' = [m \in Margins |-> [NoSolution EXCEPT !.is_optimal = un_enumerable_credits = {}]]
    /\ phase' = "solve"
    /\ UNCHANGED <<statement, rules, global_solver, max_steps, turn, verdict>>

(* solve_assignment: one turn of its loop over the components.             *)
SolveComponent ==
    /\ phase = "solve"
    /\ \E comp \in todo :
          /\ \A other \in todo \ {comp} : SolvedBefore(comp, other)
          /\ solution' = [m \in Margins |-> SolveOne(graph, comp, solution[m], m, max_steps)]
          /\ todo' = todo \ {comp}
    /\ UNCHANGED <<statement, rules, global_solver, max_steps, phase, turn, graph, verdict>>

ApplySolution ==
    /\ phase = "solve" /\ todo = {}
    /\ verdict' = [m \in Margins |-> run_global_solver(verdict[m], solution[m])]
    /\ phase' = "rules"
    /\ UNCHANGED <<statement, rules, global_solver, max_steps, turn, graph, todo, solution>>

ApplyRules ==
    /\ phase = "rules"
    /\ verdict' = [m \in Margins |-> [l \in Lines |-> apply_approved_rules(l, verdict[m][l])]]
    /\ phase' = "done"
    /\ UNCHANGED <<statement, rules, global_solver, max_steps, turn, graph, todo, solution>>

Next ==
    \/ AttributeLine \/ ReconstructSplits
    \/ BuildGraph \/ SolveComponent \/ ApplySolution
    \/ ApplyRules

Spec == Init /\ [][Next]_vars

-----------------------------------------------------------------------------
(* Properties.                                                             *)

Sums(S) == Total(statement.net, S)

(* A tie of a credit to the settlement report, stated on the report itself *)
(* and not through signals or scores.                                      *)
TiedAlone(l) ==
    \/ ln(l).utr # NoSettlement
    \/ /\ ln(l).suffix # NoSettlement
       /\ \/ Near(l, ln(l).suffix, DATE_WINDOW_DAYS)
          \/ settlement_net(ln(l).suffix) = ln(l).amount
    \/ Cardinality(net_to_settlements(ln(l).amount)) = 1
    \/ \E S \in SUBSET Settlements : S # {} /\ Sums(S) = ln(l).amount

TiedAsLeg(l) ==
    \E s \in Settlements, legs \in SUBSET Lines :
        /\ l \in legs /\ Cardinality(legs) \in 2 .. SPLIT_MAX_LEGS
        /\ \A k \in legs : ln(k).is_credit /\ Near(k, s, SPLIT_DATE_WINDOW)
        /\ Abs(Residual(legs, s)) <= SPLIT_DRIFT_PAISE
        /\ \E k \in legs : ln(k).suffix # NoSettlement \/ (ln(k).ifsc /\ ~ln(k).decoy)

(* Whatever path a line takes, the engine calls it a Razorpay settlement   *)
(* only if it is a credit the settlement report accounts for: by its UTR,  *)
(* by its amount, or as one of several legs.  A brand word, an IFSC or a   *)
(* UTR-shaped token alone never does, and no rule verdict is exempt but    *)
(* the rule's own.                                                         *)
ProofGate ==
    \A m \in Margins, l \in Lines :
        LET v == verdict[m][l]
        IN  v.rail = "razorpay_settlement" /\ v.tier # "rule_derived"
            => ln(l).is_credit /\ (TiedAlone(l) \/ TiedAsLeg(l))

(* Every way to assign all the credits with each settlement used once.     *)
ValidAssignments ==
    {A \in SUBSET graph :
        /\ UNION {c.credits : c \in A} = Credits
        /\ \A c, d \in A : c # d => c.credits \cap d.credits = {}
        /\ \A c, d \in A : c # d /\ c.target = d.target => c.target < 1}

Solved(m) == global_solver /\ phase = "rules" /\ solution[m].cut = {}

(* Splitting the problem into components and pruning the search loses      *)
(* nothing: an uncut search finds a valid assignment no valid one beats.   *)
SolverOptimal ==
    \A m \in Margins : Solved(m) =>
        LET valid == ValidAssignments
        IN  /\ solution[m].chosen \in valid
            /\ \A A \in valid : ~LexLess(TotalCost(A), TotalCost(solution[m].chosen), 5)

(* With a margin, a credit keeps its assignment only if no valid assignment*)
(* of all credits that gives it up ties on money and comes within the      *)
(* margin on evidence, unless the search for one was cut.                  *)
NearTiesAbstain ==
    \A m \in Margins : Solved(m) /\ m > 0 =>
        LET valid == ValidAssignments
            cost == TotalCost(solution[m].chosen)
        IN  \A c \in solution[m].chosen :
               (c.target # ABSTAIN /\ c.credits \cap (solution[m].contested \cup solution[m].alt_cut) = {})
               => \A A \in valid :
                    (c \notin A /\ \A i \in 1 .. 3 : TotalCost(A)[i] = cost[i])
                    => TotalCost(A)[4] - cost[4] > m

(* A component whose search ran out of steps abstains for all its credits. *)
CutAbstains ==
    phase = "rules" =>
        \A m \in Margins : \A l \in solution[m].cut : verdict[m][l].abstained

(* A leg lifted by split reconstruction has one explanation as a leg: no   *)
(* two groups of the credits that were open contain it, for any settlement *)
(* dated near them.                                                        *)
SplitsUnambiguous ==
    \A m \in Margins : phase = "rules" /\ ~global_solver =>
        LET Lifted(l) == "split_reconstruction" \in SignalNames(verdict[m][l].evidence)
            open == {l \in Credits : /\ verdict[m][l].abstained \/ Lifted(l)
                                     /\ narration_rail_signals(l) = {}
                                     /\ HasSignal(razorpay_signals(l), RZP_LEANING_SIGNALS)}
            Explains(s, legs) ==
                /\ Cardinality(legs) \in 2 .. SPLIT_MAX_LEGS
                /\ \A k \in legs : ln(k).amount < settlement_net(s) /\ Near(k, s, SPLIT_DATE_WINDOW)
                /\ Abs(Residual(legs, s)) <= SPLIT_DRIFT_PAISE
            Groups(l) == {g \in Settlements \X SUBSET open : l \in g[2] /\ Explains(g[1], g[2])}
        IN  \A l \in Lines : Lifted(l) => Cardinality(Groups(l)) = 1
=============================================================================
