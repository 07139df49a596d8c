------------------------------- MODULE Solver -------------------------------
(***************************************************************************)
(* The global solver of the engine (engine/solver.py): candidate           *)
(* assignments of bank credits to settlements, rails or abstention, the    *)
(* connected components they fall into, and the branch and bound search    *)
(* with its step budget.                                                   *)
(***************************************************************************)
EXTENDS Evidence

CONSTANTS
    SPLIT_DRIFT_PAISE,
    SPLIT_DATE_WINDOW,
    SPLIT_MAX_CANDIDATES,   \* eligible legs enumerated for one settlement
    SPLIT_MAX_LEGS,
    MAX_SPLIT_COMBINATIONS

ASSUME SolverAssumption ==
    /\ SPLIT_DRIFT_PAISE \in Nat /\ SPLIT_DATE_WINDOW \in Nat
    /\ SPLIT_MAX_CANDIDATES \in Nat /\ SPLIT_MAX_LEGS \in Nat
    /\ MAX_SPLIT_COMBINATIONS \in Nat

THRESHOLD == 550000000
SPLIT_CONFIDENCE == 900000000

RZP_TIE_SIGNALS == {"utr_exact", "utr_suffix", "setsum", "amount_corr"}
RZP_LEANING_SIGNALS ==
    {"narration_brand_rzp", "ifsc_ratn", "settlement_ref", "utr_suffix", "utr_suffix_weak"}
STRONG_RZP_SIGNALS == {"ifsc_ratn", "utr_suffix"}

(* Targets, in the order of their names: abstention, a rail, settlements.  *)
ABSTAIN == -1
RAIL == 0

Round4(score) == (score + 50000) \div 100000

(* What the legs come to beyond the settlement net.                        *)
Residual(legs, s) == Total([l \in Lines |-> ln(l).amount], legs) - settlement_net(s)

(* Sets of two to SPLIT_MAX_LEGS credits that add up to a settlement net.  *)
_all_sum_subsets(legs, s) ==
    {c \in SUBSET legs : /\ Cardinality(c) \in 2 .. SPLIT_MAX_LEGS
                         /\ Abs(Residual(c, s)) <= SPLIT_DRIFT_PAISE}

-----------------------------------------------------------------------------
(* Candidate assignments.  A cost is (invalid picks, unexplained paise,    *)
(* residual paise, minus the evidence, operations), compared in that order.*)

Candidate(credits, target, conf, items, cost, is_split) ==
    [credits |-> credits, target |-> target, confidence |-> conf, evidence |-> items,
     cost |-> cost, is_split |-> is_split]

Credits == {l \in Lines : ln(l).is_credit /\ ln(l).amount > 0}

AbstainEdges(l) == {Candidate({l}, ABSTAIN, 0, {}, <<0, ln(l).amount, 0, 0, 20>>, FALSE)}

RailEdges(l) ==
    LET items == narration_rail_signals(l)
        score == _combine(items)
    IN  When(items # {} /\ score >= THRESHOLD,
             {Candidate({l}, RAIL, Round4(score), items, <<0, 0, 0, -Round4(score), 5>>, FALSE)})

(* Only a tie to the report makes an edge to a settlement.                 *)
TiedSettlements(l) ==
    LET names == SignalNames(razorpay_signals(l))
    IN  When("utr_exact" \in names, {ln(l).utr})
        \cup When("utr_suffix" \in names, {ln(l).suffix})
        \cup When("amount_corr" \in names,
                  {s \in net_to_settlements(ln(l).amount) : Near(l, s, SPLIT_DATE_WINDOW)})

EdgeTo(l, s) ==
    LET items == razorpay_signals(l)
        is_exact == HasSignal(items, {"utr_exact"})
        conf == Round4(IF is_exact THEN 950000000 ELSE _combine(items))
    IN  Candidate({l}, s, conf, items,
          <<0, 0, Abs(ln(l).amount - settlement_net(s)), -conf, IF is_exact THEN 0 ELSE 10>>, FALSE)

SettlementEdges(l) == {EdgeTo(l, s) : s \in TiedSettlements(l)}

(* Legs of a split: credits that lean to Razorpay, without an exact UTR,   *)
(* another rail's keyword, or a suffix of another settlement.              *)
SplitEligible(s) ==
    {l \in Credits :
        LET names == SignalNames(razorpay_signals(l))
        IN  /\ narration_rail_signals(l) = {}
            /\ "utr_exact" \notin names /\ names \cap RZP_LEANING_SIGNALS # {}
            /\ ln(l).amount < settlement_net(s) /\ Near(l, s, SPLIT_DATE_WINDOW)
            /\ "utr_suffix" \in names => ln(l).suffix = s}

Oversized(s) ==
    LET n == Cardinality(SplitEligible(s))
    IN  \/ n > SPLIT_MAX_CANDIDATES
        \/ (n * (n - 1)) \div 2 + (n * (n - 1) * (n - 2)) \div 6 > MAX_SPLIT_COMBINATIONS

(* A credit in a pool too large to enumerate takes part in no split at all.*)
un_enumerable_credits ==
    UNION {SplitEligible(s) : s \in {s \in Settlements : Oversized(s)}}

SplitLegs(s) ==
    {legs \in _all_sum_subsets(SplitEligible(s), s) :
        /\ \E l \in legs : HasSignal(razorpay_signals(l), STRONG_RZP_SIGNALS)
        /\ legs \cap un_enumerable_credits = {}}

SplitTo(legs, s) ==
    Candidate(legs, s, 9000, {Item("split_reconstruction", 900)},
      <<0, 0, Abs(Residual(legs, s)), -9000, 15>>, TRUE)

SplitEdges == UNION {{SplitTo(legs, s) : legs \in SplitLegs(s)} : s \in Settlements}

build_candidate_graph ==
    (UNION {AbstainEdges(l) \cup RailEdges(l) \cup SettlementEdges(l) : l \in Credits}) \cup SplitEdges

-----------------------------------------------------------------------------
(* Connected components: credits that have a candidate for the same        *)
(* settlement are linked.  A component is a smallest set of credits that   *)
(* no link leaves.                                                         *)

Linked(cands, S) ==
    UNION {c.credits : c \in {c \in cands : c.target >= 1 /\
             \E d \in cands : d.target = c.target /\ d.credits \cap S # {}}}

Closed(cands, S) == Linked(cands, S) \subseteq S

Components(cands) ==
    {S \in SUBSET Credits :
        /\ S # {} /\ Closed(cands, S)
        /\ \A T \in SUBSET S : T # {} /\ Closed(cands, T) => T = S}

-----------------------------------------------------------------------------
(* Branch and bound over one component.                                    *)

_add_costs(a, b) == [i \in 1 .. 5 |-> a[i] + b[i]]

TotalCost(assignment) == [i \in 1 .. 5 |-> Total([c \in assignment |-> c.cost[i]], assignment)]

(* Tuples compared by their first n parts.                                 *)
LexLess(a, b, n) ==
    \E i \in 1 .. n : a[i] < b[i] /\ \A j \in 1 .. i - 1 : a[j] = b[j]

(* The order candidates are tried in: cost, credits, target.  Of two tuples*)
(* of credits the one comes first that has the smaller key where they      *)
(* first differ, or that ends there.                                       *)
CreditsBefore(S, T) ==
    \E i \in S \cup T :
        /\ \A j \in S \cup T : j < i => (j \in S <=> j \in T)
        /\ \/ i \notin T /\ \E j \in T : j > i
           \/ i \notin S /\ \A j \in S : j < i

TriedBefore(c, d) ==
    \/ LexLess(c.cost, d.cost, 5)
    \/ /\ c.cost = d.cost
       /\ \/ CreditsBefore(c.credits, d.credits)
          \/ c.credits = d.credits /\ c.target < d.target

LastTried(cands) == CHOOSE c \in cands : \A d \in cands : ~TriedBefore(c, d)

(* Fault for sensitivity: a settlement may be taken by two assignments.    *)
FaultTakenTwice(cands, unassigned, taken) ==
    {c \in cands : Min(unassigned) \in c.credits /\ c.credits \subseteq unassigned}

(* The candidates for the first unassigned credit.                         *)
ValidCands(cands, unassigned, taken) ==
    {c \in cands : /\ Min(unassigned) \in c.credits
                   /\ c.credits \subseteq unassigned
                   /\ c.target \notin taken}

(* Costs never fall in their first two parts, so a branch that is worse in *)
(* those cannot win.                                                       *)
Pruned(cost, best) == LexLess(best, cost, 2)

Cost == [1 .. 5 -> Int]

(* The variables that the calls of search share, and one call of it with   *)
(* the values it finds there.                                              *)
Progress(cands) == [steps : Nat, exceeded : BOOLEAN, cost : Cost, best : SUBSET cands]

Call(cands) ==
    [unassigned : SUBSET Credits, taken : SUBSET Int, chosen : SUBSET cands, cost : Cost,
     progress : Progress(cands)]

(* One turn of the loop over the candidates: next is the search one level  *)
(* down, p what the earlier turns leave.                                   *)
Try(next, call, c, p) ==
    LET cost == _add_costs(call.cost, c.cost)
    IN  IF p.exceeded \/ Pruned(cost, p.cost) THEN p
        ELSE next[[unassigned |-> call.unassigned \ c.credits,
                   taken |-> call.taken \cup ({c.target} \ {ABSTAIN, RAIL}),
                   chosen |-> call.chosen \cup {c}, cost |-> cost, progress |-> p]]

(* The turns for a set of candidates, in the order they are tried in.      *)
TryAll(next, call, valid, p) ==
    LET tried[T \in SUBSET valid] ==
            IF T = {} THEN p
            ELSE LET c == LastTried(T) IN Try(next, call, c, tried[T \ {c}])
    IN  tried[valid]

(* The body of search.                                                     *)
Visit(cands, limit, next, call) ==
    LET p == [call.progress EXCEPT !.steps = @ + 1]
    IN  IF p.steps > limit THEN [p EXCEPT !.exceeded = TRUE]
        ELSE IF call.unassigned # {}
             THEN TryAll(next, call, ValidCands(cands, call.unassigned, call.taken), p)
        ELSE IF LexLess(call.cost, p.cost, 5) THEN [p EXCEPT !.cost = call.cost, !.best = call.chosen]
        ELSE p

(* search for the calls with fewer than depth credits unassigned: every    *)
(* call below one has fewer.                                               *)
search(cands, limit, depth) ==
    LET level[k \in 0 .. depth] ==
            IF k = 0 THEN << >>
            ELSE [call \in Call(cands) |-> Visit(cands, limit, level[k - 1], call)]
    IN  level[depth]

(* The default, abstention for every credit of the component, is both the  *)
(* first bound and the answer of a search cut by its budget.  No abstention*)
(* is ever excluded, so that there always is one.                          *)
DefaultChosen(cands, comp) == {c \in cands : c.target = ABSTAIN /\ c.credits \subseteq comp}

(* Fault for sensitivity: a cut search answers with its best so far.       *)
FaultBestSoFar(cands, comp, r) == [best |-> r.best, cost |-> r.cost, timed_out |-> TRUE]

FailClosed(cands, comp, r) ==
    [best |-> DefaultChosen(cands, comp), cost |-> TotalCost(DefaultChosen(cands, comp)), timed_out |-> TRUE]

_solve_component(cands, comp, consumed, excluded, limit) ==
    LET default == DefaultChosen(cands, comp)
        usable == {c \in cands \ excluded : c.credits \cap comp # {}}
        r == search(usable, limit, Cardinality(comp) + 1)[
               [unassigned |-> comp, taken |-> consumed, chosen |-> {}, cost |-> TotalCost({}),
                progress |-> [steps |-> 0, exceeded |-> FALSE, cost |-> TotalCost(default),
                              best |-> default]]]
    IN  IF r.exceeded THEN FailClosed(cands, comp, r)
        ELSE [best |-> r.best, cost |-> r.cost, timed_out |-> FALSE]

-----------------------------------------------------------------------------
(* The margin: a chosen candidate is contested if the best assignment      *)
(* without it ties on the first three parts of the cost and its evidence   *)
(* is weaker by no more than the margin.  The code does not look at        *)
(* whether the search for that alternative was cut.                        *)

(* Fault for sensitivity: only an alternative equal in every part contests.*)
FaultExactTie(best, alt, margin) == alt.cost = best.cost

Contests(best, alt, margin) ==
    /\ \A i \in 1 .. 3 : alt.cost[i] = best.cost[i]
    /\ alt.cost[4] - best.cost[4] <= margin

(* One component, added to the solution so far: what is chosen, which      *)
(* credits are contested, which settlements are consumed, and which        *)
(* searches were cut.                                                      *)
SolveOne(cands, comp, sol, margin, limit) ==
    LET best == _solve_component(cands, comp, sol.consumed, {}, limit)
        rivals == IF margin = 0 THEN {} ELSE {c \in best.best : c.target # ABSTAIN}
        Alt(c) == _solve_component(cands, comp, sol.consumed, {c}, limit)
        contested == {c \in rivals : Contests(best, Alt(c), margin)}
    IN  [chosen |-> sol.chosen \cup best.best,
         contested |-> sol.contested \cup UNION {c.credits : c \in contested},
         consumed |-> sol.consumed \cup ({c.target : c \in best.best \ contested} \ {ABSTAIN, RAIL}),
         cut |-> sol.cut \cup When(best.timed_out, comp),
         alt_cut |-> sol.alt_cut \cup UNION {c.credits : c \in {c \in rivals : Alt(c).timed_out}},
         is_optimal |-> sol.is_optimal /\ ~best.timed_out]

(* Components share no settlement; they are solved smallest first.         *)
SolvedBefore(a, b) == LexLess(<<Cardinality(a), Min(a)>>, <<Cardinality(b), Min(b)>>, 2)
=============================================================================
