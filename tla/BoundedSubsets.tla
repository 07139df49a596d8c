--------------------------- MODULE BoundedSubsets ---------------------------
(***************************************************************************)
(* The two subset-sum searches of engine/bounded_subsets.py: sets of       *)
(* settlements whose nets add up to a bank credit.                         *)
(*                                                                         *)
(* Identities are numbers, in the order Python gives the strings;          *)
(* net[i] is the positive amount of item i and pos[i] its place in the     *)
(* sequence the caller passes.  A match is a function on the items that    *)
(* says how often each of them is in the tuple the code returns: the       *)
(* caller adds up the tuple, and what it covers, with repetitions.  The    *)
(* order within a tuple has no effect and is left out.                     *)
(***************************************************************************)
EXTENDS Integers, FiniteSets, FiniteSetsExt

\* The sum of f[i] over the members i of S.
Total(f, S) == MapThenSumSet(LAMBDA i : f[i], S)

Mult(b) == IF b THEN 1 ELSE 0

\* The tuple that has every member of S once.
Once(items, S) == [i \in items |-> Mult(i \in S)]

Members(match) == {i \in DOMAIN match : match[i] > 0}

(***************************************************************************)
(* find_bounded_subsets with the tolerance and min_terms of its callers:   *)
(* combinations by size, then in the lexicographic order of               *)
(* itertools.combinations, until max_results = 2 of them match or the      *)
(* budget of combinations is spent.                                        *)
(***************************************************************************)
Combinations(items, max_terms) ==
    {c \in SUBSET items : Cardinality(c) \in 1 .. max_terms}

ExaminedBefore(pos, c, d) ==
    \/ Cardinality(c) < Cardinality(d)
    \/ /\ Cardinality(c) = Cardinality(d)
       /\ \E i \in c \ d : \A j \in (c \ d) \cup (d \ c) : pos[i] <= pos[j]

find_bounded_subsets(items, net, pos, target, max_terms, max_items, max_combinations) ==
    LET combos    == Combinations(items, max_terms)
        matching  == {c \in combos : Total(net, c) = target}
        Place(c)  == Cardinality({d \in combos : ExaminedBefore(pos, d, c)}) + 1
        Earlier(c) == {d \in matching : ExaminedBefore(pos, d, c)}
        returned  == {c \in matching : Cardinality(Earlier(c)) < 2}
        examined  == IF Cardinality(returned) = 2
                     THEN Max({Place(c) : c \in returned})
                     ELSE Cardinality(combos)
    IN  IF Cardinality(items) > max_items \/ examined > max_combinations
        THEN [subsets |-> {}, exhausted |-> TRUE]
        ELSE [subsets |-> {Once(items, c) : c \in returned}, exhausted |-> FALSE]

(***************************************************************************)
(* find_legacy_subsets: pairs in the order of their identities, then a     *)
(* first and a second item in the order of the sequence and a third one    *)
(* looked up by its amount.  Only tuples with different members count as   *)
(* different.  The code stops at two; what is returned here is everything  *)
(* it could go on to find, which its caller cannot tell from two.          *)
(***************************************************************************)
PairMatches(items, net, target) ==
    {Once(items, {p[1], p[2]}) : p \in
        {p \in items \X items : p[2] > p[1] /\ net[p[1]] + net[p[2]] = target}}

\* Fault for sensitivity: the third item must also come later in the sequence.
FaultThirdLater(items, net, pos, target) ==
    {[i \in items |-> Mult(i = t[1]) + Mult(i = t[2]) + Mult(i = t[3])] : t \in
        {t \in items \X items \X items :
            /\ pos[t[1]] < pos[t[2]]
            /\ t[3] > t[2] /\ pos[t[3]] > pos[t[2]]
            /\ net[t[1]] + net[t[2]] + net[t[3]] = target}}

TripleMatches(items, net, pos, target) ==
    {[i \in items |-> Mult(i = t[1]) + Mult(i = t[2]) + Mult(i = t[3])] : t \in
        {t \in items \X items \X items :
            /\ pos[t[1]] < pos[t[2]]
            /\ t[3] > t[2]
            /\ net[t[1]] + net[t[2]] + net[t[3]] = target}}

find_legacy_subsets(items, net, pos, target) ==
    LET found == PairMatches(items, net, target) \cup TripleMatches(items, net, pos, target)
    IN  [subsets   |-> {CHOOSE m \in found : Members(m) = S : S \in {Members(m) : m \in found}},
         exhausted |-> FALSE]
=============================================================================
