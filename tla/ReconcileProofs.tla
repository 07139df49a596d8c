--------------------------- MODULE ReconcileProofs ---------------------------
(***************************************************************************)
(* Proofs about Reconcile and about CloseReport, which extends it with     *)
(* what build_report makes of the reconciliation, for every report, every  *)
(* set of bank credits and every value of the limits.                      *)
(*                                                                         *)
(*   - induction over the naturals and over the subsets of a finite set,   *)
(*     and with these what Total, the sum over a set, computes;            *)
(*   - the reconciliation: its inductive invariant, and that a credit is   *)
(*     claimed by amount only for the one set of settlements that makes it *)
(*     up;                                                                 *)
(*   - the close: its inductive invariant, and the certificates, the       *)
(*     corrections, the books and the recovery plan that follow from it.   *)
(***************************************************************************)
EXTENDS CloseReport, FiniteSetTheorems, WellFoundedInduction, TLAPS

(***************************************************************************)
(* Induction, and sums over finite sets.                                   *)
(***************************************************************************)
\* Induction over the naturals, for a set of naturals.
LEMMA NaturalsIn ==
    ASSUME NEW G, 0 \in G, \A n \in Nat : n \in G => n + 1 \in G
    PROVE  Nat \subseteq G
<1> DEFINE Rest == Nat \ G
           Less == OpToRel(<, Nat)
<1> SUFFICES ASSUME Rest # {}
             PROVE  FALSE
  OBVIOUS
<1>1. PICK n \in Rest : \A m \in Rest : <<m, n>> \notin Less
  <2>1. Rest \subseteq Nat /\ Rest # {}
    OBVIOUS
  <2> HIDE DEF Rest
  <2> QED
    BY <2>1, NatLessThanWellFounded, WFMin
<1>2. n # 0 /\ n - 1 \in Nat
  OBVIOUS
<1>3. n - 1 \in Rest
  BY <1>2
<1>4. <<n - 1, n>> \in Less
  BY <1>2 DEF OpToRel
<1> QED
  BY <1>1, <1>3, <1>4

\* Induction over the subsets of a finite set, for a set of them.
LEMMA SubsetsIn ==
    ASSUME NEW S, IsFiniteSet(S), NEW G, {} \in G,
           \A T \in SUBSET S : T # {} /\ (\A x \in T : T \ {x} \in G) => T \in G
    PROVE  SUBSET S \subseteq G
<1> DEFINE N == {n \in Nat : \A T \in SUBSET S : Cardinality(T) <= n => T \in G}
<1>0. \A T \in SUBSET S : IsFiniteSet(T) /\ Cardinality(T) \in Nat
  BY FS_Subset, FS_CardinalityType
<1>1. 0 \in N
  BY <1>0, FS_EmptySet
<1>2. \A n \in Nat : n \in N => n + 1 \in N
  <2> SUFFICES ASSUME NEW n \in N, NEW T \in SUBSET S, Cardinality(T) <= n + 1
               PROVE  T \in G
    OBVIOUS
  <2>1. CASE T = {}
    BY <2>1
  <2>2. CASE T # {}
    <3>1. ASSUME NEW x \in T
          PROVE  T \ {x} \in G
      <4>1. Cardinality(T \ {x}) = Cardinality(T) - 1
        BY <1>0, FS_RemoveElement
      <4>2. T \ {x} \in SUBSET S /\ Cardinality(T \ {x}) <= n
        BY <1>0, <4>1
      <4> QED
        BY <4>2
    <3> QED
      BY <2>2, <3>1
  <2> QED
    BY <2>1, <2>2
<1>3. Nat \subseteq N
  <2> HIDE DEF N
  <2> QED
    BY <1>1, <1>2, NaturalsIn
<1> QED
  BY <1>0, <1>3

\* The member that a sum over s takes first, and the sum from that of the rest.
Chosen(s) == CHOOSE x \in s : TRUE
SumStep(f, g, s) == IF s = {} THEN 0 ELSE f[Chosen(s)] + g[s \ {Chosen(s)}]

\* g is the sum of f over every subset of S.
IsSum(f, S, g) == g = [s \in SUBSET S |-> SumStep(f, g, s)]

\* Every finite set has a function with the sums of its subsets, so that the recursive
\* function in Total is one and not an arbitrary value.
LEMMA SumExists ==
    ASSUME NEW f, NEW S, IsFiniteSet(S)
    PROVE  \E g : IsSum(f, S, g)
<1> DEFINE Sized(n) == {s \in SUBSET S : Cardinality(s) <= n}
           N == {n \in Nat : \E g : g = [s \in Sized(n) |-> SumStep(f, g, s)]}
<1>0. \A T \in SUBSET S : IsFiniteSet(T) /\ Cardinality(T) \in Nat
  BY FS_Subset, FS_CardinalityType
<1>1. 0 \in N
  <2> DEFINE g == [s \in Sized(0) |-> 0]
  <2>1. \A s \in Sized(0) : s = {}
    BY <1>0, FS_EmptySet
  <2>2. \A s \in Sized(0) : SumStep(f, g, s) = 0
    BY <2>1 DEF SumStep
  <2> QED
    BY <2>2
<1>2. \A n \in Nat : n \in N => n + 1 \in N
  <2> SUFFICES ASSUME NEW n \in Nat, n \in N
               PROVE  n + 1 \in N
    OBVIOUS
  <2>1. PICK g : g = [s \in Sized(n) |-> SumStep(f, g, s)]
    OBVIOUS
  <2> DEFINE h == [s \in Sized(n + 1) |-> SumStep(f, g, s)]
  <2>2. \A s \in Sized(n) : s \in Sized(n + 1) /\ h[s] = g[s]
    <3> SUFFICES ASSUME NEW s \in Sized(n)
                 PROVE  s \in Sized(n + 1) /\ h[s] = g[s]
      OBVIOUS
    <3>1. s \in Sized(n + 1)
      BY <1>0
    <3>2. g[s] = SumStep(f, g, s)
      BY <2>1
    <3> QED
      BY <3>1, <3>2
  <2>3. \A s \in Sized(n + 1) : SumStep(f, h, s) = SumStep(f, g, s)
    <3> SUFFICES ASSUME NEW s \in Sized(n + 1), s # {}
                 PROVE  h[s \ {Chosen(s)}] = g[s \ {Chosen(s)}]
      <4> HIDE DEF h, Sized
      <4> QED BY DEF SumStep
    <3>1. Chosen(s) \in s
      BY DEF Chosen
    <3>2. Cardinality(s \ {Chosen(s)}) = Cardinality(s) - 1
      BY <1>0, <3>1, FS_RemoveElement
    <3>3. s \ {Chosen(s)} \in Sized(n)
      BY <1>0, <3>2
    <3> QED
      BY <2>2, <3>3
  <2>4. h = [s \in Sized(n + 1) |-> SumStep(f, h, s)]
    BY <2>3
  <2>5. \E k : k = [s \in Sized(n + 1) |-> SumStep(f, k, s)]
    <3> WITNESS h
    <3> QED
      BY <2>4
  <2> HIDE DEF h, Sized
  <2> QED
    BY <2>5
<1>3. Nat \subseteq N
  <2> HIDE DEF N
  <2> QED
    BY <1>1, <1>2, NaturalsIn
<1>4. Sized(Cardinality(S)) = SUBSET S
  BY <1>0, FS_Subset
<1>5. PICK g : g = [s \in Sized(Cardinality(S)) |-> SumStep(f, g, s)]
  BY <1>0, <1>3
<1> HIDE DEF Sized
<1> QED
  BY <1>4, <1>5 DEF IsSum

\* There is one such function, whichever the set it is given for.
LEMMA SumUnique ==
    ASSUME NEW f, NEW S, IsFiniteSet(S), NEW U, NEW g, NEW h, IsSum(f, S, g), IsSum(f, U, h)
    PROVE  \A T \in SUBSET S : T \in SUBSET U => g[T] = h[T]
<1> DEFINE G == {T \in SUBSET S : T \in SUBSET U => g[T] = h[T]}
<1>1. /\ \A T \in SUBSET S : g[T] = SumStep(f, g, T)
      /\ \A T \in SUBSET U : h[T] = SumStep(f, h, T)
  BY DEF IsSum
<1>2. {} \in G
  BY <1>1 DEF SumStep
<1>3. ASSUME NEW T \in SUBSET S, T # {}, \A x \in T : T \ {x} \in G
      PROVE  T \in G
  <2> SUFFICES ASSUME T \in SUBSET U
               PROVE  g[T] = h[T]
    OBVIOUS
  <2>1. Chosen(T) \in T
    BY <1>3 DEF Chosen
  <2>2. g[T \ {Chosen(T)}] = h[T \ {Chosen(T)}]
    BY <1>3, <2>1
  <2> QED
    BY <1>1, <1>3, <2>2 DEF SumStep
<1>4. SUBSET S \subseteq G
  <2> HIDE DEF G
  <2> QED
    BY <1>2, <1>3, SubsetsIn
<1> QED
  BY <1>4

\* Total is such a function.
LEMMA TotalIsSum ==
    ASSUME NEW f, NEW S, IsFiniteSet(S)
    PROVE  \E g : IsSum(f, S, g) /\ Total(f, S) = g[S]
<1> DEFINE g == CHOOSE g : IsSum(f, S, g)
<1>1. IsSum(f, S, g)
  BY SumExists
<1>2. Total(f, S) = g[S]
  BY DEF Total, MapThenSumSet, MapThenFoldSet, IsSum, SumStep, Chosen
<1> HIDE DEF g
<1> QED
  BY <1>1, <1>2

\* The sum over nothing is 0: what Python's sum() of no rows returns.
LEMMA TotalEmpty ==
    ASSUME NEW f
    PROVE  Total(f, {}) = 0
<1>1. PICK g : IsSum(f, {}, g) /\ Total(f, {}) = g[{}]
  BY TotalIsSum, FS_EmptySet
<1> QED
  BY <1>1 DEF IsSum, SumStep

\* The sum over a set is the chosen member's and that of the rest.
LEMMA TotalChosen ==
    ASSUME NEW f, NEW S, IsFiniteSet(S), S # {}
    PROVE  Total(f, S) = f[Chosen(S)] + Total(f, S \ {Chosen(S)})
<1> DEFINE R == S \ {Chosen(S)}
<1>1. PICK g : IsSum(f, S, g) /\ Total(f, S) = g[S]
  BY TotalIsSum
<1>2. IsFiniteSet(R) /\ R \in SUBSET S
  BY FS_Subset
<1>3. PICK h : IsSum(f, R, h) /\ Total(f, R) = h[R]
  BY <1>2, TotalIsSum
<1>4. g[R] = h[R]
  BY <1>1, <1>2, <1>3, SumUnique
<1>5. g[S] = SumStep(f, g, S)
  BY <1>1 DEF IsSum
<1> QED
  BY <1>1, <1>3, <1>4, <1>5 DEF SumStep

\* A sum of integers is an integer.
LEMMA TotalType ==
    ASSUME NEW f, NEW S, IsFiniteSet(S), \A i \in S : f[i] \in Int
    PROVE  Total(f, S) \in Int
<1> DEFINE G == {T \in SUBSET S : Total(f, T) \in Int}
<1>1. {} \in G
  BY TotalEmpty
<1>2. ASSUME NEW T \in SUBSET S, T # {}, \A x \in T : T \ {x} \in G
      PROVE  T \in G
  <2>1. Chosen(T) \in T
    BY <1>2 DEF Chosen
  <2>2. Total(f, T) = f[Chosen(T)] + Total(f, T \ {Chosen(T)})
    BY <1>2, FS_Subset, TotalChosen
  <2>3. f[Chosen(T)] \in Int /\ Total(f, T \ {Chosen(T)}) \in Int
    BY <1>2, <2>1
  <2> QED
    BY <2>2, <2>3
<1>3. SUBSET S \subseteq G
  <2> HIDE DEF G
  <2> QED
    BY <1>1, <1>2, SubsetsIn
<1> QED
  BY <1>3

\* Any member of the set can be taken out of its sum.
LEMMA TotalRemove ==
    ASSUME NEW f, NEW S, IsFiniteSet(S), \A i \in S : f[i] \in Int, NEW x \in S
    PROVE  Total(f, S) = f[x] + Total(f, S \ {x})
<1> DEFINE G == {T \in SUBSET S : \A y \in T : Total(f, T) = f[y] + Total(f, T \ {y})}
<1>0. \A T \in SUBSET S : IsFiniteSet(T) /\ Total(f, T) \in Int
  BY FS_Subset, TotalType
<1>1. {} \in G
  OBVIOUS
<1>2. ASSUME NEW T \in SUBSET S, T # {}, \A z \in T : T \ {z} \in G
      PROVE  T \in G
  <2> SUFFICES ASSUME NEW y \in T
               PROVE  Total(f, T) = f[y] + Total(f, T \ {y})
    OBVIOUS
  <2> DEFINE c == Chosen(T)
  <2>1. c \in T
    BY <1>2 DEF Chosen
  <2>2. Total(f, T) = f[c] + Total(f, T \ {c})
    BY <1>0, <1>2, TotalChosen
  <2>3. CASE y # c
    <3>1. Total(f, T \ {c}) = f[y] + Total(f, (T \ {c}) \ {y})
      BY <1>2, <2>1, <2>3
    <3>2. (T \ {c}) \ {y} = (T \ {y}) \ {c}
      OBVIOUS
    <3>3. Total(f, T \ {y}) = f[c] + Total(f, (T \ {c}) \ {y})
      BY <1>2, <2>1, <2>3, <3>2
    <3> DEFINE rest == Total(f, (T \ {c}) \ {y})
               fc == f[c]
               fy == f[y]
    <3>4. rest \in Int /\ fy \in Int /\ fc \in Int
      BY <1>0, <2>1
    <3>5. Total(f, T) = fc + (fy + rest) /\ fy + Total(f, T \ {y}) = fy + (fc + rest)
      BY <2>2, <3>1, <3>3
    <3> HIDE DEF rest, fc, fy
    <3>6. fc + (fy + rest) = fy + (fc + rest)
      BY <3>4
    <3> QED
      BY <3>5, <3>6 DEF fy
  <2> QED
    BY <2>2, <2>3
<1>3. SUBSET S \subseteq G
  <2> HIDE DEF G
  <2> QED
    BY <1>1, <1>2, SubsetsIn
<1> QED
  BY <1>3

\* Sums of functions that agree are equal.
LEMMA TotalAgree ==
    ASSUME NEW f, NEW g, NEW S, IsFiniteSet(S), \A i \in S : f[i] = g[i]
    PROVE  Total(f, S) = Total(g, S)
<1> DEFINE G == {T \in SUBSET S : Total(f, T) = Total(g, T)}
<1>1. {} \in G
  BY TotalEmpty
<1>2. ASSUME NEW T \in SUBSET S, T # {}, \A x \in T : T \ {x} \in G
      PROVE  T \in G
  <2>1. Chosen(T) \in T
    BY <1>2 DEF Chosen
  <2>2. /\ Total(f, T) = f[Chosen(T)] + Total(f, T \ {Chosen(T)})
        /\ Total(g, T) = g[Chosen(T)] + Total(g, T \ {Chosen(T)})
    BY <1>2, FS_Subset, TotalChosen
  <2>3. f[Chosen(T)] = g[Chosen(T)] /\ Total(f, T \ {Chosen(T)}) = Total(g, T \ {Chosen(T)})
    BY <1>2, <2>1
  <2> QED
    BY <2>2, <2>3
<1>3. SUBSET S \subseteq G
  <2> HIDE DEF G
  <2> QED
    BY <1>1, <1>2, SubsetsIn
<1> QED
  BY <1>3

\* The sum over two sets without a common member.
LEMMA TotalUnion ==
    ASSUME NEW f, NEW S, IsFiniteSet(S), NEW U, IsFiniteSet(U), S \cap U = {},
           \A i \in S \cup U : f[i] \in Int
    PROVE  Total(f, S \cup U) = Total(f, S) + Total(f, U)
<1> DEFINE G == {T \in SUBSET S : Total(f, T \cup U) = Total(f, T) + Total(f, U)}
<1>0. \A T \in SUBSET S : /\ IsFiniteSet(T) /\ IsFiniteSet(T \cup U)
                           /\ Total(f, T) \in Int /\ Total(f, T \cup U) \in Int
  <2> SUFFICES ASSUME NEW T \in SUBSET S
               PROVE  /\ IsFiniteSet(T) /\ IsFiniteSet(T \cup U)
                      /\ Total(f, T) \in Int /\ Total(f, T \cup U) \in Int
    OBVIOUS
  <2>1. IsFiniteSet(T) /\ IsFiniteSet(T \cup U)
    BY FS_Subset, FS_Union
  <2> QED
    BY <2>1, TotalType
<1>01. Total(f, U) \in Int
  BY TotalType
<1>1. {} \in G
  <2>1. {} \cup U = U
    OBVIOUS
  <2> QED
    BY <1>01, <2>1, TotalEmpty
<1>2. ASSUME NEW T \in SUBSET S, T # {}, \A x \in T : T \ {x} \in G
      PROVE  T \in G
  <2>1. PICK x \in T : TRUE
    BY <1>2
  <2>2. (T \cup U) \ {x} = (T \ {x}) \cup U
    OBVIOUS
  <2>3. Total(f, T \cup U) = f[x] + Total(f, (T \ {x}) \cup U)
    <3>1. IsFiniteSet(T \cup U) /\ x \in T \cup U /\ \A i \in T \cup U : f[i] \in Int
      BY <1>0
    <3> QED
      BY <2>2, <3>1, TotalRemove
  <2>4. Total(f, T) = f[x] + Total(f, T \ {x})
    <3>1. IsFiniteSet(T) /\ \A i \in T : f[i] \in Int
      BY <1>0
    <3> QED
      BY <3>1, TotalRemove
  <2>5. Total(f, (T \ {x}) \cup U) = Total(f, T \ {x}) + Total(f, U)
    BY <1>2
  <2>6. f[x] \in Int /\ Total(f, T \ {x}) \in Int
    BY <1>0
  <2> QED
    BY <1>01, <2>3, <2>4, <2>5, <2>6
<1>3. SUBSET S \subseteq G
  <2> HIDE DEF G
  <2> QED
    BY <1>1, <1>2, SubsetsIn
<1>4. S \in G
  BY <1>3
<1> QED
  BY <1>4

(***************************************************************************)
(* What the searches return.                                               *)
(***************************************************************************)
\* A tuple with every member at most once.
LEMMA OnceType ==
    ASSUME NEW items, NEW S
    PROVE  Once(items, S) \in [items -> 0 .. 3]
  BY DEF Once, Mult

\* find_bounded_subsets returns tuples of the items it is given.
LEMMA BoundedMatches ==
    ASSUME NEW items, NEW net, NEW pos, NEW target, NEW terms, NEW most, NEW budget
    PROVE  find_bounded_subsets(items, net, pos, target, terms, most, budget).subsets
               \subseteq [items -> 0 .. 3]
<1> DEFINE R == find_bounded_subsets(items, net, pos, target, terms, most, budget)
<1>1. PICK C : R.subsets = {} \/ R.subsets = {Once(items, c) : c \in C}
  BY DEF find_bounded_subsets
<1>2. \A c \in C : Once(items, c) \in [items -> 0 .. 3]
  BY OnceType
<1> HIDE DEF R
<1>3. R.subsets \subseteq [items -> 0 .. 3]
  BY <1>1, <1>2
<1> QED
  BY <1>3 DEF R

\* find_legacy_subsets returns tuples of the items it is given.
LEMMA LegacyMatches ==
    ASSUME NEW items, NEW net, NEW pos, NEW target
    PROVE  find_legacy_subsets(items, net, pos, target).subsets \subseteq [items -> 0 .. 3]
<1> DEFINE found == PairMatches(items, net, target) \cup TripleMatches(items, net, pos, target)
<1>0. \A S : Once(items, S) \in [items -> 0 .. 3]
  BY OnceType
<1>1. PairMatches(items, net, target) \subseteq [items -> 0 .. 3]
  BY <1>0, Zenon DEF PairMatches
<1>2. TripleMatches(items, net, pos, target) \subseteq [items -> 0 .. 3]
  BY DEF TripleMatches, Mult
<1>3. \A S \in {Members(m) : m \in found} : (CHOOSE m \in found : Members(m) = S) \in found
  OBVIOUS
<1>4. find_legacy_subsets(items, net, pos, target).subsets
        = {CHOOSE m \in found : Members(m) = S : S \in {Members(m) : m \in found}}
  BY DEF find_legacy_subsets
<1> HIDE DEF found
<1>5. {CHOOSE m \in found : Members(m) = S : S \in {Members(m) : m \in found}} \subseteq found
  BY <1>3
<1>6. found \subseteq [items -> 0 .. 3]
  BY <1>1, <1>2 DEF found
<1> QED
  BY <1>4, <1>5, <1>6

\* Whichever search runs, its tuples are made of the candidates of the credit.
LEMMA SearchMatches ==
    ASSUME NEW l \in Lines
    PROVE  SetsumSearch(l).subsets \subseteq [Candidates(l) -> 0 .. 3]
<1> DEFINE cands == Candidates(l)
           B == find_bounded_subsets(cands, batch.net, batch.pos, batch.amount[l],
                    SetsumMaxTerms, ExpansionMaxCandidates, SetsumMaxCombinations)
           L == find_legacy_subsets(cands, batch.net, batch.pos, batch.amount[l])
<1>1. B.subsets \subseteq [cands -> 0 .. 3]
  BY BoundedMatches
<1>2. L.subsets \subseteq [cands -> 0 .. 3]
  BY LegacyMatches
<1>3. SetsumSearch(l) \in {[subsets |-> {}, exhausted |-> FALSE], B, L}
  BY DEF SetsumSearch
<1> HIDE DEF B, L
<1> QED
  BY <1>1, <1>2, <1>3

\* A claim of pass 2 covers only settlements that no result covers yet.
LEMMA ClaimsAreAvailable ==
    ASSUME TypeOK, NEW l \in Lines, NEW c \in Claims(l)
    PROVE  /\ c \in [Settlements -> 0 .. 3]
           /\ Members(c) \subseteq Settlements \ used_sids
<1>0. batch.window[l] \subseteq Settlements
  BY DEF TypeOK, Batch
<1>1. /\ Available(l) \subseteq Settlements \ used_sids
      /\ SingleNets(l) \subseteq Available(l)
      /\ Candidates(l) \subseteq Available(l)
  BY <1>0 DEF Available, SingleNets, Candidates
<1>2. CASE \E s \in SingleNets(l) : c = Once(Settlements, {s})
  BY <1>1, <1>2, OnceType DEF Once, Mult, Members
<1>3. CASE \E m \in SetsumSearch(l).subsets : c = Coverage(m)
  <2>1. PICK m \in SetsumSearch(l).subsets : c = Coverage(m)
    BY <1>3
  <2>2. m \in [Candidates(l) -> 0 .. 3]
    BY <2>1, SearchMatches
  <2>3. c = [s \in Settlements |-> IF s \in Candidates(l) THEN m[s] ELSE 0]
    BY <2>1, <2>2 DEF Coverage
  <2> QED
    BY <1>1, <2>2, <2>3 DEF Members
<1> QED
  BY <1>2, <1>3 DEF Claims, SatisfyingSubsets

(***************************************************************************)
(* The inductive invariant.                                                *)
(***************************************************************************)
\* used_sids has every settlement of every result.
CoveredIsUsed == \A l \in Lines : Members(covered[l]) \subseteq used_sids

\* Before pass 1 nothing has been recorded.
NothingYet ==
    phase = "utr" => /\ covered = [l \in Lines |-> Uncovered]
                     /\ ambiguous_lines = {}

\* Credits that share a settlement are set aside in pass 1 and stay so.
SharedTiesAside ==
    phase # "utr" =>
        \A l \in Lines : Tied(l) /\ Claimants(batch.tie[l]) # {l} => l \in duplicate_or_split_lines

\* Only credits pass 2 has looked at are found ambiguous.
AmbiguousLookedAt == \A l \in ambiguous_lines : l < turn

\* Only Classify reports residuals, for tied credits that were paid too much.
ResidualsLate ==
    /\ phase \in {"utr", "amount"} => unbalanced_lines = {}
    /\ \A l \in unbalanced_lines : /\ Tied(l)
                                   /\ ~Resolved(l)
                                   /\ batch.net[batch.tie[l]] <= batch.amount[l]

\* A resolved credit is proven Razorpay and has no flag.
ResolvedUnflagged ==
    \A l \in Lines : Resolved(l) =>
        /\ Razorpay(l)
        /\ l \notin ambiguous_lines
        /\ l \notin duplicate_or_split_lines
        /\ l \notin unbalanced_lines

\* The exceptions are those of the final sets.
ExceptionsLast ==
    /\ phase # "done" => exception = [l \in Lines |-> NoReason]
    /\ phase = "done" => exception = [l \in Lines |-> Reason(l)]

IInv ==
    /\ TypeOK
    /\ CoveredIsUsed
    /\ OneCreditPerSettlement
    /\ UtrTieKept
    /\ NothingYet
    /\ SharedTiesAside
    /\ AmbiguousLookedAt
    /\ ResidualsLate
    /\ ResolvedUnflagged
    /\ ExceptionsLast

\* What a proven tie covers, and that it covers something.
LEMMA TieCovers ==
    ASSUME TypeOK, NEW l \in Lines, Proves(l)
    PROVE  /\ batch.tie[l] \in Settlements
           /\ Once(Settlements, {batch.tie[l]}) \in [Settlements -> 0 .. 3]
           /\ Members(Once(Settlements, {batch.tie[l]})) = {batch.tie[l]}
           /\ Once(Settlements, {batch.tie[l]}) # Uncovered
<1>1. batch.tie[l] \in Settlements
  BY DEF TypeOK, Batch, Proves, Tied
<1>2. Once(Settlements, {batch.tie[l]})[batch.tie[l]] = 1
  BY <1>1 DEF Once, Mult
<1>3. Uncovered[batch.tie[l]] = 0
  BY <1>1 DEF Uncovered
<1> QED
  BY <1>1, <1>2, <1>3, OnceType DEF Once, Mult, Members

\* A credit without a result covers nothing.
LEMMA UncoveredCoversNothing ==
    Members(Uncovered) = {} /\ Uncovered \in [Settlements -> 0 .. 3]
  BY DEF Members, Uncovered

\* The initial states satisfy the invariant.
LEMMA InitIInv == Init => IInv
<1> SUFFICES ASSUME Init PROVE IInv
  OBVIOUS
<1>1. TypeOK
  BY BatchesAssumption, LinesAssumption DEF Init, TypeOK, Lines, Uncovered, NoReason
<1>2. \A l \in Lines : covered[l] = Uncovered /\ Members(covered[l]) = {}
  BY DEF Init, Uncovered, Members
<1>3. CoveredIsUsed /\ OneCreditPerSettlement
  BY <1>2 DEF CoveredIsUsed, OneCreditPerSettlement
<1> QED
  BY <1>1, <1>2, <1>3 DEF Init, IInv, UtrTieKept, NothingYet, SharedTiesAside,
     AmbiguousLookedAt, ResidualsLate, ResolvedUnflagged, ExceptionsLast, Resolved

\* Facts about a step that leaves the batch alone.
LEMMA SameBatch ==
    ASSUME batch' = batch, NEW l \in Lines
    PROVE  /\ Razorpay(l)' = Razorpay(l)
           /\ Tied(l)' = Tied(l)
           /\ Proves(l)' = Proves(l)
           /\ Abstains(l)' = Abstains(l)
           /\ AbstentionReason(l)' = AbstentionReason(l)
           /\ (\A s : Claimants(s)' = Claimants(s))
  BY DEF Razorpay, Tied, Proves, Abstains, AbstentionReason, Claimants, Balances

\* Pass 1.
LEMMA ResolveTiesStep == IInv /\ ResolveTies => IInv'
<1> SUFFICES ASSUME IInv, ResolveTies PROVE IInv'
  OBVIOUS
<1> USE DEF IInv
<1>0. batch' = batch /\ phase = "utr" /\ phase' = "amount"
  BY DEF ResolveTies
<1>1. \A l \in Lines : covered'[l] = IF Proves(l) THEN Once(Settlements, {batch.tie[l]})
                                                  ELSE Uncovered
  BY DEF ResolveTies
<1>2. \A l \in Lines : Proves(l) => /\ batch.tie[l] \in Settlements
                                    /\ covered'[l] \in [Settlements -> 0 .. 3]
                                    /\ Members(covered'[l]) = {batch.tie[l]}
                                    /\ covered'[l] # Uncovered
  BY <1>1, TieCovers
<1>3. \A l \in Lines : ~Proves(l) => covered'[l] = Uncovered /\ Members(covered'[l]) = {}
  BY <1>1, UncoveredCoversNothing
<1>4. TypeOK'
  <2>1. covered' \in [Lines -> [Settlements -> 0 .. 3]]
    <3>1. covered' = [l \in Lines |-> covered'[l]]
      BY DEF ResolveTies
    <3> QED
      BY <1>2, <1>3, <3>1, UncoveredCoversNothing
  <2>2. used_sids' \subseteq Settlements
    BY <1>2 DEF ResolveTies
  <2> QED
    BY <2>1, <2>2 DEF ResolveTies, TypeOK
<1>5. CoveredIsUsed'
  BY <1>2, <1>3 DEF CoveredIsUsed, ResolveTies
<1>6. OneCreditPerSettlement'
  <2> SUFFICES ASSUME NEW l \in Lines, NEW m \in Lines, l # m
               PROVE  Members(covered'[l]) \cap Members(covered'[m]) = {}
    BY DEF OneCreditPerSettlement
  <2>1. Proves(l) /\ Proves(m) => batch.tie[l] # batch.tie[m]
    BY DEF Proves
  <2> QED
    BY <1>2, <1>3, <2>1
<1>7. UtrTieKept' /\ SharedTiesAside'
  BY <1>0, <1>1, SameBatch DEF UtrTieKept, SharedTiesAside, ResolveTies
<1>8. ResolvedUnflagged'
  <2> SUFFICES ASSUME NEW l \in Lines, Resolved(l)'
               PROVE  /\ Razorpay(l)
                      /\ l \notin ambiguous_lines'
                      /\ l \notin duplicate_or_split_lines'
                      /\ l \notin unbalanced_lines'
    BY <1>0, SameBatch DEF ResolvedUnflagged
  <2>1. Proves(l)
    BY <1>3 DEF Resolved, Uncovered
  <2> QED
    BY <1>0, <2>1 DEF ResolveTies, Proves, Tied, NothingYet, ResidualsLate
<1>9. NothingYet' /\ AmbiguousLookedAt' /\ ResidualsLate' /\ ExceptionsLast'
  BY <1>0 DEF ResolveTies, NothingYet, AmbiguousLookedAt, ResidualsLate, ExceptionsLast
<1> QED
  BY <1>4, <1>5, <1>6, <1>7, <1>8, <1>9

\* Pass 2, a credit that is passed over.
LEMMA PassOverStep == IInv /\ PassOver => IInv'
<1> SUFFICES ASSUME IInv, PassOver PROVE IInv'
  OBVIOUS
<1> USE DEF IInv
<1>0. /\ batch' = batch /\ phase' = phase /\ covered' = covered /\ phase = "amount"
      /\ UNCHANGED <<used_sids, ambiguous_lines, un_enumerable_lines, duplicate_or_split_lines,
                     unbalanced_lines, uncredited_sids, exception>>
      /\ turn <= NumLines /\ turn' = turn + 1
  BY DEF PassOver, NextLine, lineSets
<1>1. TypeOK'
  BY <1>0, LinesAssumption DEF TypeOK
<1>2. AmbiguousLookedAt'
  BY <1>0, LinesAssumption DEF AmbiguousLookedAt, TypeOK, Lines
<1>3. CoveredIsUsed' /\ OneCreditPerSettlement' /\ NothingYet' /\ ExceptionsLast'
  BY <1>0 DEF CoveredIsUsed, OneCreditPerSettlement, NothingYet, ExceptionsLast
<1>4. UtrTieKept' /\ SharedTiesAside'
  BY <1>0, SameBatch DEF UtrTieKept, SharedTiesAside
<1>5. ResidualsLate' /\ ResolvedUnflagged'
  BY <1>0, SameBatch DEF ResidualsLate, ResolvedUnflagged, Resolved
<1> QED
  BY <1>1, <1>2, <1>3, <1>4, <1>5

\* Pass 2, a credit that claims its only covering set.
LEMMA ClaimByAmountStep == IInv /\ ClaimByAmount => IInv'
<1> SUFFICES ASSUME IInv, ClaimByAmount PROVE IInv'
  OBVIOUS
<1> USE DEF IInv
<1>0. /\ batch' = batch /\ phase' = phase /\ phase = "amount"
      /\ UNCHANGED <<ambiguous_lines, un_enumerable_lines, duplicate_or_split_lines,
                     unbalanced_lines, uncredited_sids, exception>>
      /\ turn <= NumLines /\ turn' = turn + 1 /\ turn \in Lines
      /\ Open(turn)
  BY LinesAssumption DEF ClaimByAmount, NextLine, lineSets, TypeOK, Lines
<1>1. PICK c \in Claims(turn) : /\ covered' = [covered EXCEPT ![turn] = c]
                                /\ used_sids' = used_sids \cup Members(c)
  BY DEF ClaimByAmount
<1>2. c \in [Settlements -> 0 .. 3] /\ Members(c) \subseteq Settlements \ used_sids
  BY <1>0, <1>1, ClaimsAreAvailable
<1>3. covered'[turn] = c /\ \A l \in Lines \ {turn} : covered'[l] = covered[l]
  BY <1>0, <1>1 DEF TypeOK
<1>4. TypeOK'
  BY <1>0, <1>1, <1>2, LinesAssumption DEF TypeOK
<1>5. CoveredIsUsed'
  BY <1>1, <1>3 DEF CoveredIsUsed
<1>6. OneCreditPerSettlement'
  <2>1. \A l \in Lines \ {turn} : Members(covered[l]) \cap Members(c) = {}
    BY <1>2 DEF CoveredIsUsed
  <2> QED
    BY <1>0, <1>3, <2>1 DEF OneCreditPerSettlement
<1>7. UtrTieKept'
  <2>1. ~Proves(turn)
    BY <1>0, TieCovers DEF UtrTieKept, Open, Resolved
  <2> QED
    BY <1>0, <1>3, <2>1, SameBatch DEF UtrTieKept
<1>8. ResolvedUnflagged'
  <2>1. turn \notin ambiguous_lines
    BY <1>0, LinesAssumption DEF AmbiguousLookedAt, Lines
  <2>2. unbalanced_lines = {}
    BY <1>0 DEF ResidualsLate
  <2>3. \A l \in Lines \ {turn} : Resolved(l)' = Resolved(l)
    BY <1>3 DEF Resolved, Uncovered
  <2> QED
    BY <1>0, <2>1, <2>2, <2>3, SameBatch DEF ResolvedUnflagged, Open
<1>9. NothingYet' /\ ResidualsLate' /\ ExceptionsLast'
  BY <1>0 DEF NothingYet, ResidualsLate, ExceptionsLast
<1>10. AmbiguousLookedAt'
  BY <1>0, LinesAssumption DEF AmbiguousLookedAt, TypeOK, Lines
<1>11. SharedTiesAside'
  BY <1>0, SameBatch DEF SharedTiesAside
<1> QED
  BY <1>4, <1>5, <1>6, <1>7, <1>8, <1>9, <1>10, <1>11

\* Pass 2, a credit that stays unresolved.
LEMMA LeaveUnresolvedStep == IInv /\ LeaveUnresolved => IInv'
<1> SUFFICES ASSUME IInv, LeaveUnresolved PROVE IInv'
  OBVIOUS
<1> USE DEF IInv
<1>0. /\ batch' = batch /\ phase' = phase /\ covered' = covered /\ phase = "amount"
      /\ UNCHANGED <<used_sids, duplicate_or_split_lines, unbalanced_lines,
                     uncredited_sids, exception>>
      /\ turn <= NumLines /\ turn' = turn + 1 /\ turn \in Lines
      /\ ~Resolved(turn)
  BY LinesAssumption DEF LeaveUnresolved, NextLine, TypeOK, Lines, Open
<1>1. /\ ambiguous_lines' \subseteq ambiguous_lines \cup {turn}
      /\ un_enumerable_lines' \subseteq un_enumerable_lines \cup {turn}
  BY DEF LeaveUnresolved
<1>2. TypeOK'
  BY <1>0, <1>1, LinesAssumption DEF TypeOK
<1>3. AmbiguousLookedAt'
  BY <1>0, <1>1, LinesAssumption DEF AmbiguousLookedAt, TypeOK, Lines
<1>4. CoveredIsUsed' /\ OneCreditPerSettlement' /\ NothingYet' /\ ExceptionsLast'
  BY <1>0 DEF CoveredIsUsed, OneCreditPerSettlement, NothingYet, ExceptionsLast
<1>5. UtrTieKept' /\ SharedTiesAside'
  BY <1>0, SameBatch DEF UtrTieKept, SharedTiesAside
<1>6. ResidualsLate'
  BY <1>0 DEF ResidualsLate
<1>7. ResolvedUnflagged'
  <2>1. \A l \in Lines : Resolved(l)' = Resolved(l)
    BY <1>0 DEF Resolved, Uncovered
  <2> QED
    BY <1>0, <1>1, <2>1, SameBatch DEF ResolvedUnflagged
<1> QED
  BY <1>2, <1>3, <1>4, <1>5, <1>6, <1>7

\* After the passes: tied credits without a result are legs or have a residual.
LEMMA ClassifyStep == IInv /\ Classify => IInv'
<1> SUFFICES ASSUME IInv, Classify PROVE IInv'
  OBVIOUS
<1> USE DEF IInv
<1>0. /\ batch' = batch /\ covered' = covered /\ phase = "amount" /\ phase' = "exceptions"
      /\ UNCHANGED <<turn, used_sids, ambiguous_lines, un_enumerable_lines, exception>>
  BY DEF Classify
<1>1. /\ duplicate_or_split_lines \subseteq duplicate_or_split_lines'
      /\ duplicate_or_split_lines' \subseteq duplicate_or_split_lines \cup Unsettled
      /\ unbalanced_lines' \subseteq Unsettled
      /\ \A l \in unbalanced_lines' : ~(batch.amount[l] < batch.net[batch.tie[l]])
      /\ uncredited_sids' = Settlements \ used_sids
  BY DEF Classify
<1>2. Unsettled \subseteq Lines /\ \A l \in Unsettled : Tied(l) /\ ~Resolved(l)
  BY DEF Unsettled
<1>3. \A l \in Lines : Resolved(l)' = Resolved(l)
  BY <1>0 DEF Resolved, Uncovered
<1>4. TypeOK'
  BY <1>0, <1>1, <1>2 DEF TypeOK
<1>5. CoveredIsUsed' /\ OneCreditPerSettlement' /\ NothingYet' /\ AmbiguousLookedAt'
  BY <1>0 DEF CoveredIsUsed, OneCreditPerSettlement, NothingYet, AmbiguousLookedAt
<1>6. UtrTieKept' /\ SharedTiesAside'
  BY <1>0, <1>1, SameBatch DEF UtrTieKept, SharedTiesAside
<1>7. ResidualsLate'
  <2> SUFFICES ASSUME NEW l \in unbalanced_lines'
               PROVE  /\ Tied(l)'
                      /\ ~Resolved(l)'
                      /\ batch.net[batch.tie[l]] <= batch.amount[l]
    BY <1>0 DEF ResidualsLate
  <2>1. l \in Lines /\ Tied(l) /\ ~Resolved(l)
    BY <1>1, <1>2
  <2>2. batch.amount[l] \in Int /\ batch.net[batch.tie[l]] \in Int
    BY <2>1 DEF TypeOK, Batch, Tied
  <2> QED
    BY <1>0, <1>1, <1>3, <2>1, <2>2, SameBatch
<1>8. ResolvedUnflagged'
  BY <1>0, <1>1, <1>2, <1>3, SameBatch DEF ResolvedUnflagged
<1>9. ExceptionsLast'
  BY <1>0 DEF ExceptionsLast
<1> QED
  BY <1>4, <1>5, <1>6, <1>7, <1>8, <1>9

\* The exception list.
LEMMA BuildExceptionsStep == IInv /\ BuildExceptions => IInv'
<1> SUFFICES ASSUME IInv, BuildExceptions PROVE IInv'
  OBVIOUS
<1> USE DEF IInv
<1>0. /\ batch' = batch /\ covered' = covered /\ phase = "exceptions" /\ phase' = "done"
      /\ UNCHANGED <<turn, used_sids, ambiguous_lines, un_enumerable_lines,
                     duplicate_or_split_lines, unbalanced_lines, uncredited_sids>>
      /\ exception' = [l \in Lines |-> Reason(l)]
  BY DEF BuildExceptions, lineSets
<1>1. \A l \in Lines : Reason(l) \in Reasons \cup {NoReason}
  BY DEF Reason, AbstentionReason, UnresolvedReason, Reasons, NoReason
<1>2. TypeOK'
  BY <1>0, <1>1 DEF TypeOK
<1>3. \A l \in Lines : Resolved(l)' = Resolved(l)
  BY <1>0 DEF Resolved, Uncovered
<1>4. \A l \in Lines : Reason(l)' = Reason(l)
  BY <1>0, <1>3, SameBatch DEF Reason, UnresolvedReason
<1>5. ExceptionsLast'
  BY <1>0, <1>4 DEF ExceptionsLast
<1>6. CoveredIsUsed' /\ OneCreditPerSettlement' /\ NothingYet' /\ AmbiguousLookedAt'
  BY <1>0 DEF CoveredIsUsed, OneCreditPerSettlement, NothingYet, AmbiguousLookedAt
<1>7. UtrTieKept' /\ SharedTiesAside'
  BY <1>0, SameBatch DEF UtrTieKept, SharedTiesAside
<1>8. ResidualsLate' /\ ResolvedUnflagged'
  BY <1>0, <1>3, SameBatch DEF ResidualsLate, ResolvedUnflagged, TypeOK
<1> QED
  BY <1>2, <1>5, <1>6, <1>7, <1>8

\* A step that changes nothing of the reconciliation keeps its invariant: build_report reads
\* the result and never writes it.
LEMMA IInvStutter == IInv /\ UNCHANGED vars => IInv'
  BY DEF vars, lineSets, IInv, TypeOK, CoveredIsUsed, OneCreditPerSettlement,
       UtrTieKept, NothingYet, SharedTiesAside, AmbiguousLookedAt, ResidualsLate,
       ResolvedUnflagged, ExceptionsLast, Resolved, Razorpay, Tied, Claimants, Proves,
       Balances, Reason, AbstentionReason, UnresolvedReason, Abstains

(***************************************************************************)
(* The theorems.                                                           *)
(***************************************************************************)
\* The invariant holds in every reachable state.
LEMMA Invariant == Spec => []IInv
<1>1. IInv /\ [Next]_vars => IInv'
  <2> SUFFICES ASSUME IInv, [Next]_vars PROVE IInv'
    OBVIOUS
  <2>1. CASE Next
    BY <2>1, ResolveTiesStep, PassOverStep, ClaimByAmountStep, LeaveUnresolvedStep,
       ClassifyStep, BuildExceptionsStep DEF Next
  <2>2. CASE UNCHANGED vars
    BY <2>2, IInvStutter
  <2> QED
    BY <2>1, <2>2
<1> QED
  BY <1>1, InitIInv, PTL DEF Spec

\* Every state is well typed: in particular what a result covers is always made of
\* settlements of the report, whichever search found it.
THEOREM TypeCorrect == Spec => []TypeOK
<1>1. IInv => TypeOK
  BY DEF IInv
<1> QED
  BY <1>1, Invariant, PTL

\* No settlement is covered by the results of two bank credits.
THEOREM NoDoubleCover == Spec => []OneCreditPerSettlement
<1>1. IInv => OneCreditPerSettlement
  BY DEF IInv
<1> QED
  BY <1>1, Invariant, PTL

\* A credit that proves its settlement by UTR keeps exactly that settlement.
THEOREM UtrFirst == Spec => []UtrTieKept
<1>1. IInv => UtrTieKept
  BY DEF IInv
<1> QED
  BY <1>1, Invariant, PTL

\* A reported residual is larger than the drift tolerance.
THEOREM ResidualsAreReal == Spec => []ResidualIsReal
<1>1. IInv => ResidualIsReal
  <2> SUFFICES ASSUME IInv, NEW l \in Lines, exception[l] = "unbalanced_residual"
               PROVE  batch.amount[l] - batch.net[batch.tie[l]] > DriftTolerance
    BY DEF ResidualIsReal
  <2> USE DEF IInv
  <2>1. phase = "done" /\ Reason(l) = "unbalanced_residual"
    BY DEF ExceptionsLast, NoReason
  <2>2. l \in unbalanced_lines /\ l \notin duplicate_or_split_lines
    BY <2>1 DEF Reason, AbstentionReason, UnresolvedReason, NoReason
  <2>3. Tied(l) /\ ~Resolved(l) /\ batch.net[batch.tie[l]] <= batch.amount[l]
    BY <2>2 DEF ResidualsLate
  <2>4. Claimants(batch.tie[l]) = {l}
    BY <2>1, <2>2, <2>3 DEF SharedTiesAside
  <2>5. ~Proves(l)
    BY <2>1, <2>3, TieCovers DEF UtrTieKept, Resolved
  <2>6. ~Balances(l, batch.net[batch.tie[l]])
    BY <2>3, <2>4, <2>5 DEF Proves
  <2>7. batch.amount[l] \in Int /\ batch.net[batch.tie[l]] \in Int
    BY <2>3 DEF TypeOK, Batch, Tied
  <2> QED
    BY <2>3, <2>6, <2>7, LimitsAssumption DEF Balances
<1> QED
  BY <1>1, Invariant, PTL

\* Every credit is reconciled, listed as an exception or attributed elsewhere, and only
\* one of the three.
THEOREM CreditsAccountedOnce == Spec => []AccountedOnce
<1>1. IInv => AccountedOnce
  <2> SUFFICES ASSUME IInv, phase = "done", NEW l \in Lines
               PROVE  /\ (exception[l] = NoReason)
                             <=> (Resolved(l) \/ ~(Abstains(l) \/ Razorpay(l)))
                      /\ Resolved(l) => Razorpay(l)
                      /\ Resolved(l) => l \notin ambiguous_lines \cup duplicate_or_split_lines
                                                    \cup unbalanced_lines
    BY DEF AccountedOnce
  <2> USE DEF IInv
  <2>1. exception[l] = Reason(l)
    BY DEF ExceptionsLast
  <2>2. AbstentionReason(l) # NoReason /\ UnresolvedReason(l) # NoReason
    BY DEF AbstentionReason, UnresolvedReason, NoReason
  <2>3. Resolved(l) => Razorpay(l) /\ l \notin ambiguous_lines \cup duplicate_or_split_lines
                                                    \cup unbalanced_lines
    BY DEF ResolvedUnflagged
  <2>4. Razorpay(l) => ~Abstains(l)
    BY DEF Razorpay, Abstains
  <2> QED
    BY <2>1, <2>2, <2>3, <2>4 DEF Reason
<1> QED
  BY <1>1, Invariant, PTL

(***************************************************************************)
(* Abstain unless unique: the searches are exhaustive within their bounds. *)
(***************************************************************************)
\* A sum of naturals is one.
LEMMA TotalNat ==
    ASSUME NEW f, NEW S, IsFiniteSet(S), \A i \in S : f[i] \in Nat
    PROVE  Total(f, S) \in Nat
<1> DEFINE G == {T \in SUBSET S : Total(f, T) \in Nat}
<1>1. {} \in G
  BY TotalEmpty
<1>2. ASSUME NEW T \in SUBSET S, T # {}, \A x \in T : T \ {x} \in G
      PROVE  T \in G
  <2>1. Chosen(T) \in T
    BY <1>2 DEF Chosen
  <2>2. Total(f, T) = f[Chosen(T)] + Total(f, T \ {Chosen(T)})
    BY <1>2, FS_Subset, TotalChosen
  <2>3. f[Chosen(T)] \in Nat /\ Total(f, T \ {Chosen(T)}) \in Nat
    BY <1>2, <2>1
  <2> QED
    BY <2>2, <2>3
<1>3. SUBSET S \subseteq G
  <2> HIDE DEF G
  <2> QED
    BY <1>1, <1>2, SubsetsIn
<1> QED
  BY <1>3

\* A sum of positive numbers exceeds each of two of its terms.
LEMMA TotalExceeds ==
    ASSUME NEW f, NEW S, IsFiniteSet(S), \A i \in S : f[i] \in Nat \ {0},
           NEW x \in S, NEW y \in S, x # y
    PROVE  Total(f, S) > f[x]
<1>1. /\ \A i \in S : f[i] \in Int
      /\ IsFiniteSet(S \ {x}) /\ \A i \in S \ {x} : f[i] \in Int
      /\ IsFiniteSet((S \ {x}) \ {y}) /\ \A i \in (S \ {x}) \ {y} : f[i] \in Nat
      /\ y \in S \ {x}
  BY FS_Subset
<1>2. Total(f, S) = f[x] + Total(f, S \ {x})
  BY <1>1, TotalRemove
<1>3. Total(f, S \ {x}) = f[y] + Total(f, (S \ {x}) \ {y})
  BY <1>1, TotalRemove
<1>4. Total(f, (S \ {x}) \ {y}) \in Nat
  BY <1>1, TotalNat
<1> QED
  BY <1>2, <1>3, <1>4

\* The sums of one, two and three terms: the pairs and triples of find_legacy_subsets.
LEMMA TotalOne ==
    ASSUME NEW f, NEW x, f[x] \in Int
    PROVE  Total(f, {x}) = f[x]
<1>1. IsFiniteSet({x}) /\ x \in {x} /\ {x} \ {x} = {} /\ \A i \in {x} : f[i] \in Int
  BY FS_Singleton
<1>2. Total(f, {x}) = f[x] + Total(f, {x} \ {x})
  BY <1>1, TotalRemove
<1> QED
  BY <1>1, <1>2, TotalEmpty

\* Two terms.
LEMMA TotalTwo ==
    ASSUME NEW f, NEW x, NEW y, x # y, f[x] \in Int, f[y] \in Int
    PROVE  Total(f, {x, y}) = f[x] + f[y]
<1>1. IsFiniteSet({x, y}) /\ {x, y} \ {x} = {y}
  <2>1. {x, y} = {y} \cup {x} /\ IsFiniteSet({y})
    BY FS_Singleton
  <2> QED
    BY <2>1, FS_AddElement
<1>2. Total(f, {x, y}) = f[x] + Total(f, {x, y} \ {x})
  BY <1>1, TotalRemove
<1> QED
  BY <1>1, <1>2, TotalOne

\* Three terms.
LEMMA TotalThree ==
    ASSUME NEW f, NEW x, NEW y, NEW z, x # y, x # z, y # z,
           f[x] \in Int, f[y] \in Int, f[z] \in Int
    PROVE  Total(f, {x, y, z}) = f[x] + f[y] + f[z]
<1>1. IsFiniteSet({y, z}) /\ {x, y, z} = {y, z} \cup {x} /\ {x, y, z} \ {x} = {y, z}
  <2>1. {y, z} = {z} \cup {y} /\ IsFiniteSet({z})
    BY FS_Singleton
  <2> QED
    BY <2>1, FS_AddElement
<1>2. IsFiniteSet({x, y, z})
  BY <1>1, FS_AddElement
<1>3. Total(f, {x, y, z}) = f[x] + Total(f, {y, z})
  <2>1. x \in {x, y, z} /\ \A i \in {x, y, z} : f[i] \in Int
    OBVIOUS
  <2> QED
    BY <1>1, <1>2, <2>1, TotalRemove
<1>4. Total(f, {y, z}) = f[y] + f[z]
  BY TotalTwo
<1> QED
  BY <1>3, <1>4

\* Items have different identities and are at different places of the sequence.
Apart(items, pos) ==
    /\ IsFiniteSet(items) /\ items \subseteq Nat
    /\ \A i \in items : pos[i] \in Nat
    /\ \A i, j \in items : i # j => pos[i] # pos[j]

\* A finite set of items has one that is listed first.
LEMMA FirstListed ==
    ASSUME NEW items, NEW pos, Apart(items, pos), NEW S \in SUBSET items, S # {}
    PROVE  \E i \in S : \A j \in S : pos[i] <= pos[j]
<1> DEFINE G == {T \in SUBSET items : T # {} => \E i \in T : \A j \in T : pos[i] <= pos[j]}
<1>1. {} \in G
  OBVIOUS
<1>2. ASSUME NEW T \in SUBSET items, T # {}, \A x \in T : T \ {x} \in G
      PROVE  T \in G
  <2>1. PICK x \in T : TRUE
    BY <1>2
  <2>2. CASE T \ {x} = {}
    <3>1. T = {x}
      BY <2>2
    <3> QED
      BY <3>1 DEF Apart
  <2>3. CASE T \ {x} # {}
    <3>1. PICK i \in T \ {x} : \A j \in T \ {x} : pos[i] <= pos[j]
      BY <1>2, <2>3
    <3>2. pos[i] <= pos[x] \/ \A j \in T : pos[x] <= pos[j]
      BY <3>1 DEF Apart
    <3> QED
      BY <3>1, <3>2
  <2> QED
    BY <2>2, <2>3
<1>3. SUBSET items \subseteq G
  <2> HIDE DEF G
  <2> QED
    BY <1>1, <1>2, SubsetsIn DEF Apart
<1> QED
  BY <1>3

\* itertools.combinations goes through the combinations in one order.
LEMMA ExaminedTotally ==
    ASSUME NEW items, NEW pos, Apart(items, pos), NEW c \in SUBSET items, NEW d \in SUBSET items
    PROVE  /\ c # d => ExaminedBefore(pos, c, d) \/ ExaminedBefore(pos, d, c)
           /\ ~(ExaminedBefore(pos, c, d) /\ ExaminedBefore(pos, d, c))
           /\ ~ExaminedBefore(pos, c, c)
<1>0. Cardinality(c) \in Nat /\ Cardinality(d) \in Nat
  BY FS_Subset, FS_CardinalityType DEF Apart
<1>1. ASSUME c # d
      PROVE  ExaminedBefore(pos, c, d) \/ ExaminedBefore(pos, d, c)
  <2> DEFINE D == (c \ d) \cup (d \ c)
  <2>1. D # {} /\ D \in SUBSET items
    BY <1>1
  <2>2. PICK i \in D : \A j \in D : pos[i] <= pos[j]
    <3> HIDE DEF D
    <3> QED
      BY <2>1, FirstListed
  <2> QED
    BY <1>0, <2>2 DEF ExaminedBefore
<1>2. ~(ExaminedBefore(pos, c, d) /\ ExaminedBefore(pos, d, c))
  <2> SUFFICES ASSUME ExaminedBefore(pos, c, d), ExaminedBefore(pos, d, c)
               PROVE  FALSE
    OBVIOUS
  <2>1. Cardinality(c) = Cardinality(d)
    BY <1>0 DEF ExaminedBefore
  <2>2. PICK i \in c \ d : \A j \in (c \ d) \cup (d \ c) : pos[i] <= pos[j]
    BY <1>0, <2>1 DEF ExaminedBefore
  <2>3. PICK k \in d \ c : \A j \in (d \ c) \cup (c \ d) : pos[k] <= pos[j]
    BY <1>0, <2>1 DEF ExaminedBefore
  <2>4. pos[i] = pos[k] /\ i # k
    BY <2>2, <2>3 DEF Apart
  <2> QED
    BY <2>2, <2>3, <2>4 DEF Apart
<1>3. ~ExaminedBefore(pos, c, c)
  BY <1>0 DEF ExaminedBefore
<1> QED
  BY <1>1, <1>2, <1>3

\* The order in which itertools.combinations goes through them is transitive.
LEMMA ExaminedInTurn ==
    ASSUME NEW items, NEW pos, Apart(items, pos), NEW c \in SUBSET items, NEW d \in SUBSET items,
           NEW e \in SUBSET items, ExaminedBefore(pos, c, d), ExaminedBefore(pos, d, e)
    PROVE  ExaminedBefore(pos, c, e)
<1>0. Cardinality(c) \in Nat /\ Cardinality(d) \in Nat /\ Cardinality(e) \in Nat
  BY FS_Subset, FS_CardinalityType DEF Apart
<1>1. CASE Cardinality(c) < Cardinality(d) \/ Cardinality(d) < Cardinality(e)
  BY <1>0, <1>1 DEF ExaminedBefore
<1>2. CASE Cardinality(c) = Cardinality(d) /\ Cardinality(d) = Cardinality(e)
  <2>1. PICK i \in c \ d : \A j \in (c \ d) \cup (d \ c) : pos[i] <= pos[j]
    BY <1>0, <1>2 DEF ExaminedBefore
  <2>2. PICK k \in d \ e : \A j \in (d \ e) \cup (e \ d) : pos[k] <= pos[j]
    BY <1>0, <1>2 DEF ExaminedBefore
  <2>3. pos[i] \in Nat /\ pos[k] \in Nat /\ pos[i] # pos[k]
    BY <2>1, <2>2 DEF Apart
  <2>4. CASE pos[i] < pos[k]
    <3>1. i \in c \ e
      BY <2>1, <2>2, <2>3, <2>4
    <3>2. \A j \in (c \ e) \cup (e \ c) : pos[i] <= pos[j]
      BY <2>1, <2>2, <2>3, <2>4 DEF Apart
    <3> QED
      BY <1>2, <3>1, <3>2 DEF ExaminedBefore
  <2>5. CASE pos[k] < pos[i]
    <3>1. k \in c \ e
      BY <2>1, <2>2, <2>3, <2>5
    <3>2. \A j \in (c \ e) \cup (e \ c) : pos[k] <= pos[j]
      BY <2>1, <2>2, <2>3, <2>5 DEF Apart
    <3> QED
      BY <1>2, <3>1, <3>2 DEF ExaminedBefore
  <2> QED
    BY <2>3, <2>4, <2>5
<1> QED
  BY <1>0, <1>1, <1>2 DEF ExaminedBefore

\* Of any combinations, one is examined first.
LEMMA FirstExamined ==
    ASSUME NEW items, NEW pos, Apart(items, pos), NEW M \in SUBSET SUBSET items, M # {}
    PROVE  \E c \in M : \A d \in M \ {c} : ExaminedBefore(pos, c, d)
<1> DEFINE G == {T \in SUBSET SUBSET items :
                    T # {} => \E c \in T : \A d \in T \ {c} : ExaminedBefore(pos, c, d)}
<1>0. IsFiniteSet(SUBSET items)
  BY FS_SUBSET DEF Apart
<1>1. {} \in G
  OBVIOUS
<1>2. ASSUME NEW T \in SUBSET SUBSET items, T # {}, \A x \in T : T \ {x} \in G
      PROVE  T \in G
  <2>1. PICK x \in T : TRUE
    BY <1>2
  <2>2. CASE T \ {x} = {}
    BY <2>2
  <2>3. CASE T \ {x} # {}
    <3>1. PICK c \in T \ {x} : \A d \in (T \ {x}) \ {c} : ExaminedBefore(pos, c, d)
      BY <1>2, <2>3
    <3>2. ExaminedBefore(pos, c, x) \/ ExaminedBefore(pos, x, c)
      BY <3>1, ExaminedTotally
    <3>3. CASE ExaminedBefore(pos, c, x)
      BY <3>1, <3>3
    <3>4. CASE ExaminedBefore(pos, x, c)
      <4>1. ASSUME NEW d \in T \ {x}
            PROVE  ExaminedBefore(pos, x, d)
        BY <3>1, <3>4, ExaminedInTurn
      <4> QED
        BY <4>1
    <3> QED
      BY <3>2, <3>3, <3>4
  <2> QED
    BY <2>2, <2>3
<1>3. SUBSET SUBSET items \subseteq G
  <2> HIDE DEF G
  <2> QED
    BY <1>0, <1>1, <1>2, SubsetsIn
<1> QED
  BY <1>3

\* find_bounded_subsets is exhaustive within its bounds: a search that completes returns a
\* combination that matches, or else two others.
LEMMA BoundedComplete ==
    ASSUME NEW items, NEW net, NEW pos, NEW target, NEW terms, NEW most, NEW budget,
           Apart(items, pos),
           ~find_bounded_subsets(items, net, pos, target, terms, most, budget).exhausted,
           NEW S \in Combinations(items, terms), Total(net, S) = target
    PROVE  \/ Once(items, S)
                \in find_bounded_subsets(items, net, pos, target, terms, most, budget).subsets
           \/ \E c, d \in SUBSET items :
                /\ c # d
                /\ {Once(items, c), Once(items, d)} \subseteq
                     find_bounded_subsets(items, net, pos, target, terms, most, budget).subsets
<1> DEFINE R == find_bounded_subsets(items, net, pos, target, terms, most, budget)
           matching == {c \in Combinations(items, terms) : Total(net, c) = target}
           Earlier(c) == {d \in matching : ExaminedBefore(pos, d, c)}
           returned == {c \in matching : Cardinality(Earlier(c)) < 2}
<1>1. R.subsets = {Once(items, c) : c \in returned}
  BY DEF find_bounded_subsets
<1>2. matching \in SUBSET SUBSET items /\ S \in matching
  BY DEF Combinations
<1> HIDE DEF matching, R
<1>3. PICK c \in matching : \A d \in matching \ {c} : ExaminedBefore(pos, c, d)
  BY <1>2, FirstExamined
<1>4. c \in returned
  <2>1. Earlier(c) = {}
    BY <1>2, <1>3, ExaminedTotally
  <2> QED
    BY <2>1, FS_EmptySet
<1>5. CASE S = c
  BY <1>1, <1>4, <1>5 DEF R
<1>6. CASE S # c
  <2>1. PICK d \in matching \ {c} : \A e \in (matching \ {c}) \ {d} : ExaminedBefore(pos, d, e)
    BY <1>2, <1>6, FirstExamined
  <2>2. Earlier(d) = {c}
    BY <1>2, <1>3, <2>1, ExaminedTotally
  <2>3. d \in returned
    <3>1. Cardinality({c}) = 1
      BY FS_Singleton
    <3>2. Cardinality(Earlier(d)) = 1
      BY <2>2, <3>1
    <3> QED
      BY <2>1, <3>2
  <2>4. c \in SUBSET items /\ d \in SUBSET items /\ c # d
    BY <1>2, <2>1
  <2>5. {Once(items, c), Once(items, d)} \subseteq R.subsets
    BY <1>1, <1>4, <2>3
  <2> QED
    BY <2>4, <2>5 DEF R
<1> QED
  BY <1>5, <1>6

\* The members of a tuple that has each of a set once.
LEMMA OnceMembers ==
    ASSUME NEW items, NEW S \in SUBSET items
    PROVE  Members(Once(items, S)) = S
  BY DEF Members, Once, Mult

\* A set of two, or three, has so many different members.
LEMMA TwoMembers ==
    ASSUME NEW S, IsFiniteSet(S), Cardinality(S) = 2
    PROVE  \E x, y \in S : x # y /\ S = {x, y}
<1>1. PICK x \in S : TRUE
  BY FS_EmptySet
<1>2. IsFiniteSet(S \ {x}) /\ Cardinality(S \ {x}) = 1
  BY <1>1, FS_RemoveElement
<1>3. PICK y : S \ {x} = {y}
  BY <1>2, FS_Singleton
<1> QED
  BY <1>1, <1>3

\* Likewise of three.
LEMMA ThreeMembers ==
    ASSUME NEW S, IsFiniteSet(S), Cardinality(S) = 3
    PROVE  \E x, y, z \in S : x # y /\ x # z /\ y # z /\ S = {x, y, z}
<1>1. PICK x \in S : TRUE
  BY FS_EmptySet
<1>2. IsFiniteSet(S \ {x}) /\ Cardinality(S \ {x}) = 2
  BY <1>1, FS_RemoveElement
<1>3. PICK y, z \in S \ {x} : y # z /\ S \ {x} = {y, z}
  BY <1>2, TwoMembers
<1>4. S = {x, y, z}
  BY <1>1, <1>3
<1> QED
  BY <1>1, <1>3, <1>4

\* A pair or a triple of the items that makes up the target.
MakesUp(S, items, net, pos, target) ==
    /\ Apart(items, pos)
    /\ \A i \in items : net[i] \in Int
    /\ S \in SUBSET items
    /\ Cardinality(S) \in {2, 3}
    /\ Total(net, S) = target

\* The legacy search has a match with these members.
LegacyFinds(S, items, net, pos, target) ==
    \E m \in find_legacy_subsets(items, net, pos, target).subsets : Members(m) = S

\* find_legacy_subsets finds every pair and every triple, whatever the order of the sequence
\* and of the identities: of three items, one comes last by its identity.
LEMMA LegacyComplete ==
    ASSUME NEW items, NEW net, NEW pos, NEW target, NEW S, MakesUp(S, items, net, pos, target)
    PROVE  LegacyFinds(S, items, net, pos, target)
<1> DEFINE found == PairMatches(items, net, target) \cup TripleMatches(items, net, pos, target)
<1>0. /\ IsFiniteSet(S) /\ S \in SUBSET items /\ Total(net, S) = target
      /\ Cardinality(S) \in {2, 3}
      /\ items \subseteq Nat /\ \A i \in items : net[i] \in Int
      /\ \A i \in items : pos[i] \in Nat
      /\ \A i, j \in items : i # j => pos[i] # pos[j]
  BY FS_Subset DEF Apart, MakesUp
<1>1. \E m \in found : Members(m) = S
  <2>1. CASE Cardinality(S) = 2
    <3>1. PICK x \in S, y \in S : x # y /\ S = {x, y}
      BY <1>0, <2>1, TwoMembers
    <3>2. PICK a \in S, b \in S : b > a /\ S = {a, b}
      BY <1>0, <3>1
    <3>3. net[a] + net[b] = target
      <4>1. a # b /\ net[a] \in Int /\ net[b] \in Int
        BY <1>0, <3>2
      <4> QED
        BY <1>0, <3>2, <4>1, TotalTwo
    <3>4. <<a, b>> \in {p \in items \X items : p[2] > p[1] /\ net[p[1]] + net[p[2]] = target}
      BY <1>0, <3>2, <3>3
    <3>5. Once(items, {<<a, b>>[1], <<a, b>>[2]}) \in PairMatches(items, net, target)
      BY <3>4, Zenon DEF PairMatches
    <3>6. Once(items, S) \in PairMatches(items, net, target)
      BY <3>2, <3>5
    <3> QED
      BY <1>0, <3>6, OnceMembers
  <2>2. CASE Cardinality(S) = 3
    <3>1. PICK x \in S, y \in S, z \in S : x # y /\ x # z /\ y # z /\ S = {x, y, z}
      BY <1>0, <2>2, ThreeMembers
    <3>2. PICK u \in S, v \in S, w \in S :
             u # v /\ u # w /\ v # w /\ S = {u, v, w} /\ w > u /\ w > v
      <4>1. x \in Nat /\ y \in Nat /\ z \in Nat
        BY <1>0
      <4>2. CASE x > y /\ x > z
        <5> S = {y, z, x}
          BY <3>1
        <5> QED
          BY <3>1, <4>2
      <4>3. CASE y > x /\ y > z
        <5> S = {x, z, y}
          BY <3>1
        <5> QED
          BY <3>1, <4>3
      <4>4. CASE z > x /\ z > y
        BY <3>1, <4>4
      <4> QED
        BY <3>1, <4>1, <4>2, <4>3, <4>4
    <3>3. PICK a \in S, b \in S : /\ {a, b} = {u, v} /\ a # b
                                  /\ pos[a] < pos[b]
      BY <1>0, <3>2
    <3>4. a # w /\ b # w /\ S = {a, b, w} /\ w > b
      BY <3>2, <3>3
    <3>5. net[a] + net[b] + net[w] = target
      BY <1>0, <3>3, <3>4, TotalThree
    <3> DEFINE t == <<a, b, w>>
               m == [i \in items |-> Mult(i = t[1]) + Mult(i = t[2]) + Mult(i = t[3])]
    <3>6. t \in {s \in items \X items \X items :
                    /\ pos[s[1]] < pos[s[2]]
                    /\ s[3] > s[2]
                    /\ net[s[1]] + net[s[2]] + net[s[3]] = target}
      BY <1>0, <3>3, <3>4, <3>5
    <3>7. m \in TripleMatches(items, net, pos, target)
      <4> HIDE DEF t
      <4> QED
        BY <3>6, Zenon DEF TripleMatches
    <3>8. Members(m) = S
      <4>1. \A i \in items : m[i] = Mult(i = a) + Mult(i = b) + Mult(i = w)
        OBVIOUS
      <4>2. \A i \in items : m[i] > 0 <=> i \in {a, b, w}
        BY <4>1 DEF Mult
      <4>3. DOMAIN m = items
        OBVIOUS
      <4> QED
        BY <1>0, <3>4, <4>2, <4>3 DEF Members
    <3> QED
      BY <3>7, <3>8
  <2> QED
    BY <1>0, <2>1, <2>2
<1>2. find_legacy_subsets(items, net, pos, target).subsets
        = {CHOOSE m \in found : Members(m) = U : U \in {Members(m) : m \in found}}
  BY DEF find_legacy_subsets
<1> HIDE DEF found
<1>3. (CHOOSE m \in found : Members(m) = S) \in find_legacy_subsets(items, net, pos, target).subsets
  BY <1>1, <1>2
<1> QED
  BY <1>1, <1>3 DEF LegacyFinds

\* Settlements of the report are at different places.
LEMMA CandidatesApart ==
    ASSUME TypeOK, batch \in Batches, NEW l \in Lines
    PROVE  /\ Apart(Candidates(l), batch.pos)
           /\ Candidates(l) \subseteq Settlements
           /\ SingleNets(l) \subseteq Settlements
           /\ \A s \in Settlements : batch.net[s] \in Int
           /\ batch.amount[l] \in Nat \ {0}
<1>1. /\ \A s \in Settlements : batch.net[s] \in Int /\ batch.pos[s] \in Nat
      /\ batch.amount[l] \in Nat \ {0} /\ batch.window[l] \subseteq Settlements
  BY DEF TypeOK, Batch
<1>2. Candidates(l) \subseteq Settlements /\ SingleNets(l) \subseteq Settlements
  BY <1>1 DEF Candidates, SingleNets, Available
<1>3. IsFiniteSet(Candidates(l)) /\ Candidates(l) \subseteq Nat
  BY <1>2, SettlementsAssumption, FS_Subset
<1> QED
  BY <1>1, <1>2, <1>3, PositionsAssumption DEF Apart

\* What a tuple of the candidates covers has the members of the tuple.
LEMMA CoverageMembers ==
    ASSUME NEW l \in Lines, Candidates(l) \subseteq Settlements, NEW m \in [Candidates(l) -> 0 .. 3]
    PROVE  Members(Coverage(m)) = Members(m)
  BY DEF Members, Coverage

\* Every exact set is among the satisfying subsets of a search that completes, or else there
\* are two of these.
LEMMA ExactIsFound ==
    ASSUME TypeOK, batch \in Batches, NEW l \in Lines, ~SetsumSearch(l).exhausted,
           NEW S \in ExactSubsets(l)
    PROVE  \/ \E c \in SatisfyingSubsets(l) : Members(c) = S
           \/ \E c, d \in SatisfyingSubsets(l) : c # d
<1> DEFINE cands == Candidates(l)
           target == batch.amount[l]
           B == find_bounded_subsets(cands, batch.net, batch.pos, target,
                    SetsumMaxTerms, ExpansionMaxCandidates, SetsumMaxCombinations)
           L == find_legacy_subsets(cands, batch.net, batch.pos, target)
<1>0. /\ Apart(cands, batch.pos) /\ cands \subseteq Settlements
      /\ SingleNets(l) \subseteq Settlements
      /\ \A s \in Settlements : batch.net[s] \in Int
      /\ target \in Nat \ {0}
  BY CandidatesApart
<1>1. /\ S \subseteq SingleNets(l) \cup cands
      /\ Cardinality(S) \in 1 .. SearchedTerms(l)
      /\ Total(batch.net, S) = target
  BY DEF ExactSubsets
<1>2. S \subseteq Settlements /\ IsFiniteSet(S)
  BY <1>0, <1>1, SettlementsAssumption, FS_Subset
<1>3. /\ \A s \in SingleNets(l) : batch.net[s] = target
      /\ \A s \in cands : batch.net[s] > 0 /\ batch.net[s] < target
  BY DEF SingleNets, Candidates
<1>4. \A s \in S : batch.net[s] \in Nat \ {0}
  BY <1>0, <1>1, <1>3
<1>5. CASE \E s \in S : s \in SingleNets(l)
  <2>1. PICK s \in S : s \in SingleNets(l)
    BY <1>5
  <2>2. S = {s}
    <3> SUFFICES ASSUME NEW t \in S, t # s
                 PROVE  FALSE
      OBVIOUS
    <3>1. Total(batch.net, S) > batch.net[s]
      BY <1>2, <1>4, TotalExceeds
    <3> QED
      BY <1>0, <1>1, <1>3, <2>1, <3>1
  <2>3. Once(Settlements, {s}) \in SatisfyingSubsets(l)
    BY <2>1 DEF SatisfyingSubsets
  <2>4. Members(Once(Settlements, {s})) = S
    BY <1>2, <2>2, OnceMembers
  <2> QED
    BY <2>3, <2>4
<1>6. CASE S \subseteq cands
  <2>1. Cardinality(S) \in Nat /\ Cardinality(S) >= 2
    <3>1. Cardinality(S) \in Nat /\ Cardinality(S) >= 1
      BY <1>1, <1>2, FS_CardinalityType
    <3>2. Cardinality(S) # 1
      <4> SUFFICES ASSUME Cardinality(S) = 1
                   PROVE  FALSE
        OBVIOUS
      <4>1. PICK s : S = {s}
        BY <1>2, FS_Singleton
      <4>2. Total(batch.net, S) = batch.net[s]
        BY <1>4, <4>1, TotalOne
      <4> QED
        BY <1>0, <1>1, <1>3, <1>6, <4>1, <4>2
    <3> QED
      BY <3>1, <3>2
  <2>2. Cardinality(cands) \in Nat
    BY <1>0, FS_CardinalityType DEF Apart
  <2>3. Cardinality(cands) <= SetsumMaxCandidates /\ cands # {}
    <3>1. SearchedTerms(l) # 1
      BY <1>1, <2>1
    <3>2. cands # {}
      BY <1>6, <2>1, FS_EmptySet
    <3> QED
      BY <2>2, <3>1, <3>2, LimitsAssumption DEF SearchedTerms
  <2>4. CASE Cardinality(cands) <= ExpansionMaxCandidates
    <3>1. SetsumSearch(l) = B /\ SearchedTerms(l) = SetsumMaxTerms
      BY <2>2, <2>3, <2>4, LimitsAssumption DEF SetsumSearch, SearchedTerms
    <3>2. S \in Combinations(cands, SetsumMaxTerms)
      BY <1>1, <1>6, <3>1 DEF Combinations
    <3> HIDE DEF cands, target
    <3>3. \/ Once(cands, S) \in B.subsets
          \/ \E c, d \in SUBSET cands : c # d /\ {Once(cands, c), Once(cands, d)} \subseteq B.subsets
      BY <1>0, <1>1, <3>1, <3>2, BoundedComplete
    <3> HIDE DEF B
    <3>4. ASSUME NEW c \in SUBSET cands, Once(cands, c) \in B.subsets
          PROVE  /\ Coverage(Once(cands, c)) \in SatisfyingSubsets(l)
                 /\ Members(Coverage(Once(cands, c))) = c
      <4>1. Coverage(Once(cands, c)) \in SatisfyingSubsets(l)
        BY <3>1, <3>4 DEF SatisfyingSubsets
      <4>2. Members(Coverage(Once(cands, c))) = Members(Once(cands, c))
        BY <1>0, OnceType, CoverageMembers DEF cands
      <4> QED
        BY <4>1, <4>2, OnceMembers
    <3>5. CASE Once(cands, S) \in B.subsets
      BY <1>6, <3>4, <3>5
    <3>6. CASE \E c, d \in SUBSET cands : c # d /\ {Once(cands, c), Once(cands, d)} \subseteq B.subsets
      <4>1. PICK c \in SUBSET cands, d \in SUBSET cands :
               c # d /\ Once(cands, c) \in B.subsets /\ Once(cands, d) \in B.subsets
        BY <3>6
      <4> QED
        BY <3>4, <4>1
    <3> QED
      BY <3>3, <3>5, <3>6
  <2>5. CASE Cardinality(cands) > ExpansionMaxCandidates
    <3>1. SetsumSearch(l) = L /\ SearchedTerms(l) = 3
      BY <2>2, <2>3, <2>5, LimitsAssumption DEF SetsumSearch, SearchedTerms
    <3>2. Cardinality(S) \in {2, 3}
      BY <1>1, <2>1, <3>1
    <3>3. PICK m \in L.subsets : Members(m) = S
      <4>1. MakesUp(S, cands, batch.net, batch.pos, target)
        BY <1>0, <1>1, <1>6, <3>2 DEF MakesUp
      <4> HIDE DEF cands, target
      <4>2. LegacyFinds(S, cands, batch.net, batch.pos, target)
        BY <4>1, LegacyComplete
      <4> QED
        BY <4>2 DEF LegacyFinds
    <3> HIDE DEF L
    <3>4. m \in [cands -> 0 .. 3] /\ Coverage(m) \in SatisfyingSubsets(l)
      BY <3>1, <3>3, SearchMatches DEF SatisfyingSubsets
    <3> QED
      BY <1>0, <3>3, <3>4, CoverageMembers
  <2> QED
    BY <2>2, <2>4, <2>5, LimitsAssumption
<1> QED
  BY <1>1, <1>5, <1>6

\* The batch stays the one that was given.
LEMMA BatchGiven == Spec => [](batch \in Batches)
<1>1. Init => batch \in Batches
  BY DEF Init
<1>2. batch \in Batches /\ [Next]_vars => (batch \in Batches)'
  BY DEF Next, vars, ResolveTies, PassOver, ClaimByAmount, LeaveUnresolved, Classify,
     BuildExceptions
<1> QED
  BY <1>1, <1>2, PTL DEF Spec

\* Abstain unless unique, for every report and every value of the limits: a credit that pass 2
\* resolves by amount takes the only set of available settlements that makes up the amount.
THEOREM ClaimsAreUnique == Spec => UniqueWhenClaimed
<1>1. ASSUME IInv, batch \in Batches, [Next]_vars, NEW l \in Lines, phase = "amount",
             covered'[l] # covered[l], NEW S \in ExactSubsets(l)
      PROVE  S = Members(covered'[l])
  <2>1. TypeOK
    BY <1>1 DEF IInv
  <2>2. ClaimByAmount
    BY <1>1 DEF Next, vars, ResolveTies, PassOver, LeaveUnresolved, Classify, BuildExceptions
  <2>3. PICK c \in Claims(turn) : covered' = [covered EXCEPT ![turn] = c]
    BY <2>2 DEF ClaimByAmount
  <2>4. l = turn /\ covered'[l] = c
    BY <1>1, <2>1, <2>3 DEF TypeOK
  <2>5. ~SetsumSearch(l).exhausted /\ SatisfyingSubsets(l) = {c}
    BY <2>3, <2>4 DEF Claims
  <2>6. \/ \E d \in SatisfyingSubsets(l) : Members(d) = S
        \/ \E d, e \in SatisfyingSubsets(l) : d # e
    BY <1>1, <2>1, <2>5, ExactIsFound
  <2> QED
    BY <2>4, <2>5, <2>6
<1>2. IInv /\ batch \in Batches /\ [Next]_vars =>
        [\A l \in Lines : phase = "amount" /\ covered'[l] # covered[l]
             => \A S \in ExactSubsets(l) : S = Members(covered'[l])]_vars
  BY <1>1
<1> QED
  BY <1>2, Invariant, BatchGiven, PTL DEF Spec, UniqueWhenClaimed

(***************************************************************************)
(* What is computed from the result of the reconciliation stays the same   *)
(* while it does.                                                          *)
(***************************************************************************)
\* The rows covered, and the sums over any of them.
LEMMA SameRows ==
    ASSUME books' = books, covered' = covered
    PROVE  /\ Rows' = Rows /\ Reconciled' = Reconciled
           /\ \A S : Taxes(S)' = Taxes(S) /\ Fees(S)' = Fees(S) /\ Amounts(S)' = Amounts(S)
           /\ \A l \in Lines : /\ CoveredRows(l)' = CoveredRows(l)
                               /\ resolve_covered_rows_by_id(l)' = resolve_covered_rows_by_id(l)
                               /\ Resolvable(l)' = Resolvable(l)
<1>1. Rows' = Rows /\ Reconciled' = Reconciled
  BY DEF Rows, Reconciled, Resolved, Uncovered
<1>2. \A S : Taxes(S)' = Taxes(S) /\ Fees(S)' = Fees(S) /\ Amounts(S)' = Amounts(S)
  BY DEF Taxes, Fees, Amounts, SumOver, row
<1>3. ASSUME NEW l \in Lines
      PROVE  /\ CoveredRows(l)' = CoveredRows(l)
             /\ resolve_covered_rows_by_id(l)' = resolve_covered_rows_by_id(l)
  BY DEF CoveredRows, RowsOf, Rows, row, resolve_covered_rows_by_id, canonical_row_id,
     covered_row_ids, _row_signature
<1>4. ASSUME NEW l \in Lines
      PROVE  Resolvable(l)' = Resolvable(l)
  <2>1. HasDuplicateIds(l)' = HasDuplicateIds(l)
    BY DEF HasDuplicateIds, RowsOf, Rows, row
  <2>2. covered_keys(l)' = covered_keys(l)
    BY <1>3 DEF covered_keys, Key, row
  <2>3. {Key(i) : i \in resolve_covered_rows_by_id(l)}' = {Key(i) : i \in resolve_covered_rows_by_id(l)}
    BY <1>3 DEF Key, row
  <2> QED
    BY <2>1, <2>2, <2>3 DEF Resolvable
<1> QED
  BY <1>1, <1>2, <1>3, <1>4

\* The GST of the matched fees is computed from the rows covered.
LEMMA SameFees ==
    ASSUME books' = books, covered' = covered
    PROVE  fee_gst' = fee_gst
<1>1. \A l \in Reconciled : Taxes(resolve_covered_rows_by_id(l))' = Taxes(resolve_covered_rows_by_id(l))
  BY DEF Taxes, SumOver, row, resolve_covered_rows_by_id, canonical_row_id, Rows, covered_row_ids,
     _row_signature, CoveredRows, RowsOf
<1> QED
  BY <1>1, SameRows DEF fee_gst

\* reconcile_ledger reads the rows covered and the books.
LEMMA SameLedger ==
    ASSUME books' = books, covered' = covered
    PROVE  LedgerFindings' = LedgerFindings
<1>1. LedgerRows' = LedgerRows
  BY DEF LedgerRows, CoveredRows, RowsOf, Rows, row, Key, Reconciled, Resolved, Uncovered
<1> QED
  BY <1>1 DEF LedgerFindings, NoFindings, reconcile_ledger, Payments, Bookings, Amounts, SumOver,
     Rows, row, AbsPaise

\* build_recovery_plan reads the lines and their exceptions.
LEMMA SamePlan ==
    ASSUME batch' = batch, books' = books, exception' = exception
    PROVE  AllActions' = AllActions /\ build_recovery_plan' = build_recovery_plan
<1>1. Unresolved' = Unresolved /\ Exports' = Exports
  BY DEF Unresolved, Exports, Abstains, _map_blocking_to_action, _derive_blocking_reason,
     amount_paise
<1>2. \A l : _map_blocking_to_action(l)' = _map_blocking_to_action(l)
  BY DEF _map_blocking_to_action, _derive_blocking_reason, amount_paise
<1>3. \A S : SumPositive(S)' = SumPositive(S) /\ SumNegative(S)' = SumNegative(S)
  BY DEF SumPositive, SumNegative, amount_paise
<1>4. MergedExports' = MergedExports
  BY <1>1, <1>2 DEF MergedExports, Window, StartsBefore
<1>5. OtherGroups' = OtherGroups
  BY <1>1, <1>2 DEF OtherGroups
<1>6. AllActions' = AllActions
  BY <1>3, <1>4, <1>5 DEF AllActions, RecoveryAction
<1> QED
  BY <1>1, <1>3, <1>6 DEF build_recovery_plan

\* Proof packets and vouchers are computed from the rows covered and the lines.
LEMMA SamePackets ==
    ASSUME batch' = batch, books' = books, covered' = covered
    PROVE  /\ \A a : build_proof_packets(a)' = build_proof_packets(a)
           /\ build_journal_entries' = build_journal_entries
<1>0. \A l : Resolved(l)' = Resolved(l) /\ Razorpay(l)' = Razorpay(l)
  BY DEF Resolved, Uncovered, Razorpay
<1>1. \A l : amount_paise(l)' = amount_paise(l) /\ CoveredNet(covered[l])' = CoveredNet(covered[l])
  BY DEF amount_paise, CoveredNet
<1>2. \A l : /\ resolve_covered_rows_by_id(l)' = resolve_covered_rows_by_id(l)
             /\ covered_keys(l)' = covered_keys(l)
  BY DEF CoveredRows, RowsOf, Rows, row, resolve_covered_rows_by_id, canonical_row_id,
     covered_row_ids, _row_signature, covered_keys, Key
<1>3. \A S : /\ _tax_inside_fee(S)' = _tax_inside_fee(S) /\ VoucherDate(S)' = VoucherDate(S)
             /\ {row(i).sid : i \in S}' = {row(i).sid : i \in S}
             /\ Taxes(S)' = Taxes(S) /\ Fees(S)' = Fees(S)
  <2>1. \A S : _tax_inside_fee(S)' = _tax_inside_fee(S)
    BY DEF _tax_inside_fee, SumOver, row, Amounts, Taxes, Fees
  <2>2. \A S : VoucherDate(S)' = VoucherDate(S)
    BY DEF VoucherDate, row
  <2> QED
    BY <2>1, <2>2, SameRows DEF row
<1>4. ASSUME NEW l
      PROVE  JournalEntry(l)' = JournalEntry(l)
  <2> DEFINE S == resolve_covered_rows_by_id(l)
  <2>1. /\ Taxes(S)' = Taxes(S) /\ Fees(S)' = Fees(S) /\ _tax_inside_fee(S)' = _tax_inside_fee(S)
        /\ VoucherDate(S)' = VoucherDate(S) /\ {row(i).sid : i \in S}' = {row(i).sid : i \in S}
    BY <1>2, <1>3
  <2> QED
    BY <1>1, <2>1 DEF JournalEntry
<1>5. ASSUME NEW l, NEW a
      PROVE  ProofPacket(l, a)' = ProofPacket(l, a)
  <2> DEFINE S == resolve_covered_rows_by_id(l)
  <2>1. Taxes(S)' = Taxes(S)
    BY <1>2, <1>3
  <2> QED
    BY <1>0, <1>1, <1>2, <2>1 DEF ProofPacket
<1> QED
  BY <1>0, <1>4, <1>5, SameRows DEF build_proof_packets, build_journal_entries

\* The audit chain, the report a recipient is given and the envelope are computed from the
\* result and from the report built so far.
LEMMA SameCertificate ==
    ASSUME batch' = batch, covered' = covered, exception' = exception, books' = books,
           report' = report, signing_key' = signing_key
    PROVE  /\ AuditEntries' = AuditEntries
           /\ \A a : RunReport(a)' = RunReport(a) /\ issue_certificate(a)' = issue_certificate(a)
<1>1. Reconciled' = Reconciled /\ \A l : Resolved(l)' = Resolved(l) /\ Razorpay(l)' = Razorpay(l)
  BY SameRows DEF Resolved, Uncovered, Razorpay
<1>2. AuditEvents' = AuditEvents
  BY <1>1 DEF AuditEvents
<1>3. AuditEntries' = AuditEntries
  BY <1>2 DEF AuditEntries
<1>4. ASSUME NEW a
      PROVE  RunReport(a)' = RunReport(a)
  BY <1>3 DEF RunReport
<1>5. ASSUME NEW a
      PROVE  build_close_certificate(a)' = build_close_certificate(a)
  <2>1. ProvenPaise' = ProvenPaise /\ ReconciledPaise' = ReconciledPaise
    BY <1>1 DEF ProvenPaise, ReconciledPaise, Paise, amount_paise
  <2> QED
    BY <1>1, <1>3, <1>4, <2>1 DEF build_close_certificate
<1>6. ASSUME NEW a
      PROVE  issue_certificate(a)' = issue_certificate(a)
  BY <1>5 DEF issue_certificate
<1> QED
  BY <1>3, <1>4, <1>6

(***************************************************************************)
(* The inductive invariant of a close.                                     *)
(***************************************************************************)
\* The input is one of those considered.
Given == \E c \in Closes : batch = c.batch /\ books = c.books

\* The stages of build_report once the exceptions are listed, once the recovery plan is made
\* and once the proof packets are.
Listed == {"plan", "packets", "journal", "report", "audited"}
Planned == Listed \ {"plan"}
Packed == Planned \ {"packets"}

\* build_report goes on when the reconciliation is done.
StageFollowsPhase ==
    /\ stage \in {"reconcile", "exceptions", "failed"} \cup Listed
    /\ stage \in {"reconcile", "exceptions"} => phase # "done"
    /\ stage \in Listed => phase = "done"

\* The parts of the report are what the final result of the reconciliation makes them.
ReportIsCurrent ==
    /\ report = [fee_gst |-> report.fee_gst, ledger |-> report.ledger, plan |-> report.plan,
                 packets |-> report.packets, journal |-> report.journal,
                 investigations |-> report.investigations]
    /\ stage \in {"exceptions"} \cup Listed => /\ phase \in {"exceptions", "done"}
                                              /\ report.fee_gst = fee_gst
                                              /\ \A l \in Reconciled : Resolvable(l)
    /\ stage \in Listed => report.ledger = LedgerFindings
    /\ stage \in Planned => report.plan = build_recovery_plan
    /\ stage \in Packed => /\ report.packets = [a \in BOOLEAN |-> build_proof_packets(a)]
                           /\ report.journal = build_journal_entries

\* An envelope is issued for the finished report, and before the chain is read back.
IssuedIsCurrent ==
    /\ issued = [a \in BOOLEAN |-> issued[a]]
    /\ \A a \in BOOLEAN : \/ issued[a] = NoEnvelope
                          \/ stage = "report" /\ issued[a] = issue_certificate(a)

\* What a recipient has checked was put together from envelopes issued and reports built.
PresentedIsComposed ==
    \/ presented = NoEnvelope
    \/ /\ stage = "report"
       /\ \E body, hash, rep, signature, signed :
             /\ body \in BOOLEAN /\ hash \in BOOLEAN /\ rep \in SUBSET BOOLEAN
             /\ issued[body].issued /\ issued[hash].issued
             /\ presented = [issued |-> TRUE, certificate |-> issued[body].certificate,
                             content_sha256 |-> issued[hash].content_sha256, signed |-> signed,
                             signature |-> signature,
                             report |-> {RunReport(a) : a \in rep}]

\* The file read back has entries of the chain.
FileIsOfEntries == stage = "audited" => audit_file \in Seq(Range(AuditEntries))

\* The inductive invariant of a close: the reconciliation's own, and that what has been
\* reported, issued and presented still is what the final result makes it.
CloseInv ==
    /\ IInv
    /\ batch \in Batches
    /\ Given
    /\ StageFollowsPhase
    /\ ReportIsCurrent
    /\ IssuedIsCurrent
    /\ PresentedIsComposed
    /\ FileIsOfEntries

\* A close starts with nothing reported.
LEMMA InitCloseInv == InitClose => CloseInv
<1> SUFFICES ASSUME InitClose PROVE CloseInv
  OBVIOUS
<1>1. IInv /\ batch \in Batches /\ Given
  BY InitIInv DEF InitClose, Init, Given
<1>2. StageFollowsPhase
  BY DEF InitClose, Init, StageFollowsPhase, Listed
<1>3. ReportIsCurrent
  BY DEF InitClose, ReportIsCurrent, EmptyReport, Listed, Planned, Packed
<1>4. IssuedIsCurrent /\ PresentedIsComposed /\ FileIsOfEntries
  BY DEF InitClose, IssuedIsCurrent, PresentedIsComposed, FileIsOfEntries
<1> QED
  BY <1>1, <1>2, <1>3, <1>4 DEF CloseInv

\* A step of the reconciliation happens before anything is reported.
LEMMA ReconcilingStep == CloseInv /\ Reconciling => CloseInv'
<1> SUFFICES ASSUME CloseInv, Reconciling PROVE CloseInv'
  OBVIOUS
<1> USE DEF CloseInv
<1>1. IInv'
  BY ResolveTiesStep, PassOverStep, ClaimByAmountStep, LeaveUnresolvedStep, ClassifyStep
     DEF Reconciling
<1>2. /\ batch' = batch /\ books' = books /\ stage = "reconcile" /\ stage' = stage
      /\ report' = report /\ issued' = issued /\ presented' = presented
      /\ phase' # "done"
  BY DEF Reconciling, tail, ResolveTies, PassOver, ClaimByAmount, LeaveUnresolved, Classify,
     NextLine
<1>3. Given' /\ batch' \in Batches /\ StageFollowsPhase'
  BY <1>2 DEF Given, StageFollowsPhase, Listed
<1>4. ReportIsCurrent'
  BY <1>2 DEF ReportIsCurrent, Listed, Planned, Packed
<1>5. IssuedIsCurrent' /\ PresentedIsComposed' /\ FileIsOfEntries'
  BY <1>2 DEF IssuedIsCurrent, PresentedIsComposed, FileIsOfEntries
<1> QED
  BY <1>1, <1>2, <1>3, <1>4, <1>5

\* A step of build_report before the certificate.
LEMMA EarlyStages ==
    ASSUME CloseInv, stage # "report", stage' # "audited", issued' = issued,
           presented' = presented
    PROVE  IssuedIsCurrent' /\ PresentedIsComposed' /\ FileIsOfEntries'
  BY DEF CloseInv, IssuedIsCurrent, PresentedIsComposed, FileIsOfEntries

\* fee_gst is computed when every credit has been looked at, and only when the ids of every
\* result lead back to rows.
LEMMA PriceFeesStep == CloseInv /\ PriceFees => CloseInv'
<1> SUFFICES ASSUME CloseInv, PriceFees PROVE CloseInv'
  OBVIOUS
<1> USE DEF CloseInv
<1>1. /\ UNCHANGED vars /\ books' = books /\ stage = "reconcile" /\ stage' = "exceptions"
      /\ issued' = issued /\ presented' = presented /\ phase = "exceptions"
      /\ report' = [report EXCEPT !.fee_gst = fee_gst]
      /\ \A l \in Reconciled : Resolvable(l)
  BY DEF PriceFees, Advance
<1>2. batch' = batch /\ covered' = covered /\ phase' = phase
  BY <1>1 DEF vars
<1>3. IInv' /\ Given' /\ batch' \in Batches /\ StageFollowsPhase'
  BY <1>1, <1>2, IInvStutter DEF Given, StageFollowsPhase, Listed
<1>4. ReportIsCurrent'
  <2>1. fee_gst' = fee_gst /\ Reconciled' = Reconciled
    BY <1>1, <1>2, SameRows, SameFees
  <2>2. \A l \in Reconciled : Resolvable(l)'
    BY <1>1, <1>2, SameRows DEF Reconciled
  <2> QED
    BY <1>1, <1>2, <2>1, <2>2 DEF ReportIsCurrent, Listed, Planned, Packed
<1> QED
  BY <1>1, <1>2, <1>3, <1>4, EarlyStages

\* A result whose ids lead nowhere ends the close without a report.
LEMMA FailClosedStep == CloseInv /\ FailClosed => CloseInv'
<1> SUFFICES ASSUME CloseInv, FailClosed PROVE CloseInv'
  OBVIOUS
<1> USE DEF CloseInv
<1>1. /\ UNCHANGED vars /\ books' = books /\ stage = "reconcile" /\ stage' = "failed"
      /\ issued' = issued /\ presented' = presented /\ report' = report
  BY DEF FailClosed, Advance
<1>2. batch' = batch /\ covered' = covered /\ phase' = phase
  BY <1>1 DEF vars
<1>3. IInv' /\ Given' /\ batch' \in Batches /\ StageFollowsPhase'
  BY <1>1, <1>2, IInvStutter DEF Given, StageFollowsPhase, Listed
<1>4. ReportIsCurrent'
  BY <1>1 DEF ReportIsCurrent, Listed, Planned, Packed
<1> QED
  BY <1>1, <1>2, <1>3, <1>4, EarlyStages

\* Listing the exceptions changes none of the results that fee_gst was computed from.
LEMMA ListExceptionsStep == CloseInv /\ ListExceptions => CloseInv'
<1> SUFFICES ASSUME CloseInv, ListExceptions PROVE CloseInv'
  OBVIOUS
<1> USE DEF CloseInv
<1>1. /\ BuildExceptions /\ books' = books /\ stage = "exceptions" /\ stage' = "plan"
      /\ issued' = issued /\ presented' = presented
      /\ report' = [report EXCEPT !.ledger = LedgerFindings]
  BY DEF ListExceptions, Advance
<1>2. batch' = batch /\ covered' = covered /\ phase' = "done"
  BY <1>1 DEF BuildExceptions
<1>3. IInv' /\ Given' /\ batch' \in Batches /\ StageFollowsPhase'
  BY <1>1, <1>2, BuildExceptionsStep DEF Given, StageFollowsPhase, Listed
<1>4. ReportIsCurrent'
  <2>1. fee_gst' = fee_gst /\ Reconciled' = Reconciled /\ LedgerFindings' = LedgerFindings
    BY <1>1, <1>2, SameRows, SameFees, SameLedger
  <2>2. \A l \in Reconciled : Resolvable(l)'
    BY <1>1, <1>2, SameRows DEF Reconciled, ReportIsCurrent
  <2> QED
    BY <1>1, <1>2, <2>1, <2>2 DEF ReportIsCurrent, Listed, Planned, Packed
<1> QED
  BY <1>1, <1>2, <1>3, <1>4, EarlyStages

\* What a step that leaves the reconciliation alone keeps of a report that is listed.
LEMMA ReportKept ==
    ASSUME CloseInv, UNCHANGED vars, books' = books, stage \in Listed
    PROVE  /\ IInv' /\ Given' /\ batch' \in Batches /\ phase' = "done"
           /\ report.fee_gst = fee_gst' /\ \A l \in Reconciled' : Resolvable(l)'
           /\ report.ledger = LedgerFindings'
           /\ stage \in Planned => report.plan = build_recovery_plan'
           /\ stage \in Packed => /\ report.packets = [a \in BOOLEAN |-> build_proof_packets(a)']
                                  /\ report.journal = build_journal_entries'
<1> USE DEF CloseInv
<1>1. /\ batch' = batch /\ covered' = covered /\ exception' = exception /\ phase' = phase
  BY DEF vars
<1>2. IInv' /\ Given' /\ batch' \in Batches /\ phase' = "done"
  BY <1>1, IInvStutter DEF Given, StageFollowsPhase
<1>3. report.fee_gst = fee_gst' /\ Reconciled' = Reconciled /\ report.ledger = LedgerFindings'
  BY <1>1, SameRows, SameFees, SameLedger DEF ReportIsCurrent
<1>4. \A l \in Reconciled : Resolvable(l)'
  BY <1>1, SameRows DEF Reconciled, ReportIsCurrent
<1>5. stage \in Planned => report.plan = build_recovery_plan'
  BY <1>1, SamePlan DEF ReportIsCurrent
<1>6. stage \in Packed => /\ report.packets = [a \in BOOLEAN |-> build_proof_packets(a)']
                          /\ report.journal = build_journal_entries'
  BY <1>1, SamePackets DEF ReportIsCurrent
<1> QED
  BY <1>2, <1>3, <1>4, <1>5, <1>6

\* The plan is made from the exceptions as they are listed, and nothing changes them later.
LEMMA PlanRecoveryStep == CloseInv /\ PlanRecovery => CloseInv'
<1> SUFFICES ASSUME CloseInv, PlanRecovery PROVE CloseInv'
  OBVIOUS
<1>1. /\ UNCHANGED vars /\ books' = books /\ stage = "plan" /\ stage' = "packets"
      /\ issued' = issued /\ presented' = presented
      /\ report' = [report EXCEPT !.plan = build_recovery_plan]
  BY DEF PlanRecovery, Advance
<1>2. build_recovery_plan' = build_recovery_plan
  BY <1>1, SamePlan DEF vars
<1>3. /\ IInv' /\ Given' /\ batch' \in Batches /\ phase' = "done"
      /\ report.fee_gst = fee_gst' /\ \A l \in Reconciled' : Resolvable(l)'
      /\ report.ledger = LedgerFindings'
  BY <1>1, ReportKept DEF Listed
<1>4. ReportIsCurrent' /\ StageFollowsPhase'
  BY <1>1, <1>2, <1>3 DEF CloseInv, ReportIsCurrent, StageFollowsPhase, Listed, Planned, Packed
<1> QED
  BY <1>1, <1>3, <1>4, EarlyStages DEF CloseInv

\* Packets and vouchers are made from the final results.
LEMMA ProvePacketsStep == CloseInv /\ ProvePackets => CloseInv'
<1> SUFFICES ASSUME CloseInv, ProvePackets PROVE CloseInv'
  OBVIOUS
<1>1. /\ UNCHANGED vars /\ books' = books /\ stage = "packets" /\ stage' = "journal"
      /\ issued' = issued /\ presented' = presented
      /\ report' = [report EXCEPT !.packets = [a \in BOOLEAN |-> build_proof_packets(a)],
                                  !.journal = build_journal_entries]
  BY DEF ProvePackets, Advance
<1>2. /\ \A a : build_proof_packets(a)' = build_proof_packets(a)
      /\ build_journal_entries' = build_journal_entries
  BY <1>1, SamePackets DEF vars
<1>3. /\ IInv' /\ Given' /\ batch' \in Batches /\ phase' = "done"
      /\ report.fee_gst = fee_gst' /\ \A l \in Reconciled' : Resolvable(l)'
      /\ report.ledger = LedgerFindings' /\ report.plan = build_recovery_plan'
  BY <1>1, ReportKept DEF Listed, Planned
<1>4. ReportIsCurrent' /\ StageFollowsPhase'
  BY <1>1, <1>2, <1>3 DEF CloseInv, ReportIsCurrent, StageFollowsPhase, Listed, Planned, Packed
<1> QED
  BY <1>1, <1>3, <1>4, EarlyStages DEF CloseInv

\* The investigation of unresolved credits changes no result.
LEMMA InvestigateStep == CloseInv /\ Investigate => CloseInv'
<1> SUFFICES ASSUME CloseInv, Investigate PROVE CloseInv'
  OBVIOUS
<1>1. /\ UNCHANGED vars /\ books' = books /\ stage = "journal" /\ stage' = "report"
      /\ issued' = issued /\ presented' = presented
      /\ report' = [report EXCEPT !.investigations = build_investigations]
  BY DEF Investigate, Advance
<1>2. /\ IInv' /\ Given' /\ batch' \in Batches /\ phase' = "done"
      /\ report.fee_gst = fee_gst' /\ \A l \in Reconciled' : Resolvable(l)'
      /\ report.ledger = LedgerFindings' /\ report.plan = build_recovery_plan'
      /\ report.packets = [a \in BOOLEAN |-> build_proof_packets(a)']
      /\ report.journal = build_journal_entries'
  BY <1>1, ReportKept DEF Listed, Planned, Packed
<1>3. ReportIsCurrent' /\ StageFollowsPhase'
  BY <1>1, <1>2 DEF CloseInv, ReportIsCurrent, StageFollowsPhase, Listed, Planned, Packed
<1> QED
  BY <1>1, <1>2, <1>3, EarlyStages DEF CloseInv

(***************************************************************************)
(* Sorting.                                                                *)
(***************************************************************************)
\* R, a relation, orders the members of a finite set in a line.
Orders(R, S) ==
    /\ IsFiniteSet(S)
    /\ \A x, y \in S : x # y => <<x, y>> \in R \/ <<y, x>> \in R
    /\ \A x, y, z \in S : <<x, y>> \in R /\ <<y, z>> \in R => <<x, z>> \in R

\* f is the sequence of the members of S in that order.
InOrder(f, S, R) ==
    /\ f \in [1 .. Cardinality(S) -> S]
    /\ Range(f) = S
    /\ \A i, j \in DOMAIN f : i < j => <<f[i], f[j]>> \in R

\* A finite set that is ordered has a last member.
LEMMA LastInOrder ==
    ASSUME NEW S, NEW R, Orders(R, S), NEW T \in SUBSET S, T # {}
    PROVE  \E x \in T : \A y \in T \ {x} : <<y, x>> \in R
<1> DEFINE G == {U \in SUBSET S : U # {} => \E x \in U : \A y \in U \ {x} : <<y, x>> \in R}
<1>1. {} \in G
  OBVIOUS
<1>2. ASSUME NEW U \in SUBSET S, U # {}, \A x \in U : U \ {x} \in G
      PROVE  U \in G
  <2>1. PICK z \in U : TRUE
    BY <1>2
  <2>2. CASE U \ {z} = {}
    BY <2>2
  <2>3. CASE U \ {z} # {}
    <3>1. PICK x \in U \ {z} : \A y \in (U \ {z}) \ {x} : <<y, x>> \in R
      BY <1>2, <2>3
    <3>2. <<z, x>> \in R \/ <<x, z>> \in R
      BY <3>1 DEF Orders
    <3>3. CASE <<z, x>> \in R
      BY <3>1, <3>3
    <3>4. CASE <<x, z>> \in R
      <4>1. \A y \in U \ {z} : <<y, z>> \in R
        BY <3>1, <3>4 DEF Orders
      <4> QED
        BY <4>1
    <3> QED
      BY <3>2, <3>3, <3>4
  <2> QED
    BY <2>2, <2>3
<1>3. SUBSET S \subseteq G
  <2> HIDE DEF G
  <2> QED
    BY <1>1, <1>2, SubsetsIn DEF Orders
<1> QED
  BY <1>3

\* Sorted, the model of Python's sorted(), returns the members in their order, each once.
LEMMA SortedIs ==
    ASSUME NEW S, NEW R, Orders(R, S)
    PROVE  InOrder(Sorted(S, R), S, R)
<1> DEFINE G == {U \in SUBSET S : \E f : InOrder(f, U, R)}
<1>1. {} \in G
  <2> DEFINE f == [i \in 1 .. 0 |-> i]
  <2>1. Cardinality({}) = 0
    BY FS_EmptySet
  <2>2. InOrder(f, {}, R)
    BY <2>1 DEF InOrder, Range
  <2> QED
    BY <2>2
<1>2. ASSUME NEW U \in SUBSET S, U # {}, \A x \in U : U \ {x} \in G
      PROVE  U \in G
  <2>1. PICK x \in U : \A y \in U \ {x} : <<y, x>> \in R
    BY <1>2, LastInOrder
  <2>2. PICK f : InOrder(f, U \ {x}, R)
    BY <1>2, <2>1
  <2> DEFINE n == Cardinality(U \ {x})
             g == [i \in 1 .. n + 1 |-> IF i = n + 1 THEN x ELSE f[i]]
  <2>3. n \in Nat /\ Cardinality(U) = n + 1
    <3>1. IsFiniteSet(U) /\ IsFiniteSet(U \ {x})
      BY FS_Subset DEF Orders
    <3>2. n = Cardinality(U) - 1 /\ Cardinality(U) \in Nat /\ n \in Nat
      BY <2>1, <3>1, FS_RemoveElement, FS_CardinalityType
    <3> QED
      BY <3>2
  <2> HIDE DEF n
  <2>4. f \in [1 .. n -> U \ {x}] /\ Range(f) = U \ {x}
    BY <2>2 DEF InOrder, n
  <2>5. g \in [1 .. Cardinality(U) -> U]
    BY <2>1, <2>3, <2>4
  <2>6. Range(g) = U
    <3>1. \A y \in U \ {x} : \E i \in 1 .. n : y = f[i]
      BY <2>4 DEF Range
    <3>2. \A y \in U : \E i \in 1 .. n + 1 : y = g[i]
      BY <2>3, <3>1
    <3>3. DOMAIN g = 1 .. n + 1
      OBVIOUS
    <3> HIDE DEF g
    <3> QED
      BY <2>3, <2>5, <3>2, <3>3 DEF Range
  <2>7. ASSUME NEW i \in 1 .. n + 1, NEW j \in 1 .. n + 1, i < j
        PROVE  <<g[i], g[j]>> \in R
    <3>1. i \in 1 .. n /\ g[i] = f[i] /\ f[i] \in U \ {x}
      BY <2>3, <2>4, <2>7
    <3>2. CASE j = n + 1
      BY <2>1, <3>1, <3>2
    <3>3. CASE j # n + 1
      <4>1. j \in 1 .. n /\ g[j] = f[j]
        BY <2>3, <3>3
      <4>2. <<f[i], f[j]>> \in R
        BY <2>2, <2>4, <2>7, <3>1, <4>1 DEF InOrder
      <4> QED
        BY <3>1, <4>1, <4>2
    <3> QED
      BY <3>2, <3>3
  <2>8. InOrder(g, U, R)
    <3>1. DOMAIN g = 1 .. n + 1
      OBVIOUS
    <3> HIDE DEF g
    <3> QED
      BY <2>5, <2>6, <2>7, <3>1 DEF InOrder
  <2> QED
    BY <2>8
<1>3. SUBSET S \subseteq G
  <2>1. IsFiniteSet(S)
    BY DEF Orders
  <2> HIDE DEF G
  <2> QED
    BY <1>1, <1>2, <2>1, SubsetsIn
<1>4. PICK f : InOrder(f, S, R)
  BY <1>3
<1> QED
  BY <1>4 DEF Sorted, InOrder

(***************************************************************************)
(* The audit chain.                                                        *)
(***************************************************************************)
\* A sequence, whatever its members are.
IsSeq(s) == s \in Seq(Range(s))

\* One event for each of a set: the loops of the command line over lines and results.
LEMMA EachIsSeq ==
    ASSUME NEW S, IsFiniteSet(S), NEW event
    PROVE  IsSeq(Each(S, event))
<1>1. Cardinality(S) \in Nat
  BY FS_CardinalityType
<1> DEFINE n == Cardinality(S)
           e(k) == [event |-> event[Ascending(S)[k]], on |-> Ascending(S)[k]]
           s == [k \in 1 .. n |-> e(k)]
<1>2. Each(S, event) = s
  BY DEF Each
<1> HIDE DEF n, e
<1>3. \A k \in DOMAIN s : s[k] \in Range(s)
  BY DEF Range
<1>4. n \in Nat /\ DOMAIN s = 1 .. n /\ s = [k \in 1 .. n |-> s[k]]
  BY <1>1 DEF n
<1> HIDE DEF s
<1>5. s \in Seq(Range(s))
  BY <1>3, <1>4
<1> QED
  BY <1>2, <1>5 DEF IsSeq

\* Sequences one after another are a sequence.
LEMMA ConcatIsSeq ==
    ASSUME NEW s, NEW t, IsSeq(s), IsSeq(t)
    PROVE  IsSeq(s \o t)
<1> DEFINE T == Range(s) \cup Range(t)
<1>1. s \in Seq(T) /\ t \in Seq(T)
  BY DEF IsSeq
<1> HIDE DEF T
<1>2. s \o t \in Seq(T)
  BY <1>1
<1>3. Len(s \o t) \in Nat /\ DOMAIN (s \o t) = 1 .. Len(s \o t)
  BY <1>2
<1> DEFINE u == s \o t
<1>4. u \in Seq(T) /\ Len(u) \in Nat /\ DOMAIN u = 1 .. Len(u)
  BY <1>2, <1>3
<1> HIDE DEF u
<1>5. u \in Seq(Range(u))
  BY <1>4 DEF Range
<1> QED
  BY <1>5 DEF u, IsSeq

\* The events of a run are a sequence.
LEMMA EventsAreSeq == ASSUME TypeOK PROVE IsSeq(AuditEvents)
<1> DEFINE first == <<[event |-> "run_start", on |-> NumLines]>>
           attributions == Each(Lines, batch.rail)
           results == Each(Reconciled, [l \in Lines |-> "reconciliation"])
           exceptions == Each({l \in Lines : exception[l] # NoReason}, exception)
           findings == Each({k \in DOMAIN LedgerClasses :
                                LedgerClasses[k] \in LedgerExceptions(report.ledger)}, LedgerClasses)
           last == <<[event |-> "run_end", on |-> Cardinality(Reconciled)]>>
<1>0. IsFiniteSet(Lines)
  BY LinesAssumption, FS_Interval DEF Lines
<1>1. IsSeq(first) /\ IsSeq(last)
  BY DEF IsSeq, Range
<1>2. IsSeq(attributions)
  BY <1>0, EachIsSeq
<1>3. IsSeq(results)
  BY <1>0, FS_Subset, EachIsSeq DEF Reconciled
<1>4. IsSeq(exceptions)
  BY <1>0, FS_Subset, EachIsSeq
<1>5. IsSeq(findings)
  <2>1. DOMAIN LedgerClasses = 1 .. 3
    BY DEF LedgerClasses
  <2>2. \A n \in Nat : IsFiniteSet(1 .. n)
    BY FS_Interval
  <2>3. IsFiniteSet(DOMAIN LedgerClasses)
    BY <2>1, <2>2
  <2> QED
    BY <2>3, FS_Subset, EachIsSeq
<1>6. AuditEvents = ((((first \o attributions) \o results) \o exceptions) \o findings) \o last
  BY DEF AuditEvents
<1> HIDE DEF first, attributions, results, exceptions, findings, last
<1>7. IsSeq(((first \o attributions) \o results) \o exceptions)
  BY <1>1, <1>2, <1>3, <1>4, ConcatIsSeq
<1>8. IsSeq(((((first \o attributions) \o results) \o exceptions) \o findings) \o last)
  BY <1>1, <1>5, <1>7, ConcatIsSeq
<1> QED
  BY <1>6, <1>8

\* The first k of a sequence: what the hash of its k-th entry covers.
Prefix(s, k) == [i \in 1 .. k |-> s[i]]

\* Each hash covers one event more than the one before it.
LEMMA PrefixGrows ==
    ASSUME NEW s, IsSeq(s), NEW k \in 0 .. Len(s)
    PROVE  /\ Prefix(s, k) \in Seq(Range(s)) /\ Len(Prefix(s, k)) = k
           /\ k = 0 => Prefix(s, k) = GENESIS
           /\ k > 0 => Prefix(s, k) = Hash(Prefix(s, k - 1), s[k])
<1>1. Len(s) \in Nat /\ \A i \in 1 .. Len(s) : s[i] \in Range(s)
  BY DEF IsSeq
<1>2. Prefix(s, k) \in Seq(Range(s)) /\ Len(Prefix(s, k)) = k
  BY <1>1 DEF Prefix
<1>3. k = 0 => Prefix(s, k) = GENESIS
  BY <1>2 DEF GENESIS
<1>4. ASSUME k > 0
      PROVE  Prefix(s, k) = Hash(Prefix(s, k - 1), s[k])
  <2>1. k - 1 \in 0 .. Len(s) /\ k \in 1 .. Len(s)
    BY <1>1, <1>4
  <2>2. Prefix(s, k - 1) \in Seq(Range(s)) /\ Len(Prefix(s, k - 1)) = k - 1
    BY <1>1, <2>1 DEF Prefix
  <2>3. \A i \in 1 .. k - 1 : Prefix(s, k - 1)[i] = s[i]
    BY DEF Prefix
  <2>4. Append(Prefix(s, k - 1), s[k]) \in Seq(Range(s)) /\ Len(Append(Prefix(s, k - 1), s[k])) = k
    BY <1>1, <2>1, <2>2
  <2>5. \A i \in 1 .. k : Append(Prefix(s, k - 1), s[k])[i] = s[i]
    BY <1>1, <2>1, <2>2, <2>3
  <2> QED
    BY <1>1, <2>1, <2>4, <2>5 DEF Hash, Prefix
<1> QED
  BY <1>2, <1>3, <1>4

\* The entries of the chain, each with the hash of all events up to it.
LEMMA ChainEntries ==
    ASSUME NEW s, IsSeq(s)
    PROVE  Chain(s) = [k \in 1 .. Len(s) |-> [body |-> s[k], prev |-> Prefix(s, k - 1),
                                             hash |-> Prefix(s, k)]]
<1> DEFINE n == Len(s)
           Heads(h) == h = [k \in 0 .. n |-> IF k = 0 THEN GENESIS ELSE Hash(h[k - 1], s[k])]
           head == CHOOSE h : Heads(h)
           p == [k \in 0 .. n |-> Prefix(s, k)]
<1>0. n \in Nat
  BY DEF IsSeq
<1>1. Heads(p)
  <2>1. \A k \in 0 .. n : Prefix(s, k) = IF k = 0 THEN GENESIS ELSE Hash(p[k - 1], s[k])
    <3> SUFFICES ASSUME NEW k \in 0 .. n
                 PROVE  Prefix(s, k) = IF k = 0 THEN GENESIS ELSE Hash(p[k - 1], s[k])
      OBVIOUS
    <3>1. k # 0 => k - 1 \in 0 .. n /\ p[k - 1] = Prefix(s, k - 1)
      BY <1>0
    <3> QED
      BY <1>0, <3>1, PrefixGrows
  <2> QED
    BY <2>1
<1>2. Heads(head)
  <2>1. \E h : Heads(h)
    <3> HIDE DEF Heads, p
    <3> QED
      BY <1>1
  <2> HIDE DEF Heads
  <2> QED
    BY <2>1
<1>3. Chain(s) = [k \in 1 .. n |-> [body |-> s[k], prev |-> head[k - 1], hash |-> head[k]]]
  BY DEF Chain
<1> HIDE DEF head
<1>4. \A k \in 0 .. n : head[k] = Prefix(s, k)
  <2> DEFINE G == {k \in Nat : k <= n => head[k] = Prefix(s, k)}
  <2>1. 0 \in G
    BY <1>0, <1>2, PrefixGrows
  <2>2. ASSUME NEW k \in Nat, k \in G
        PROVE  k + 1 \in G
    <3> SUFFICES ASSUME k + 1 <= n
                 PROVE  head[k + 1] = Prefix(s, k + 1)
      OBVIOUS
    <3>1. k + 1 \in 0 .. n /\ k + 1 > 0 /\ (k + 1) - 1 = k /\ k <= n /\ k + 1 # 0
      BY <1>0
    <3>2. head[k + 1] = Hash(head[k], s[k + 1])
      BY <1>2, <3>1
    <3>3. Prefix(s, k + 1) = Hash(Prefix(s, k), s[k + 1])
      BY <3>1, PrefixGrows
    <3> QED
      BY <2>2, <3>1, <3>2, <3>3
  <2>3. Nat \subseteq G
    <3> HIDE DEF G
    <3> QED
      BY <2>1, <2>2, NaturalsIn
  <2> QED
    BY <1>0, <2>3
<1>5. \A k \in 1 .. n : head[k - 1] = Prefix(s, k - 1) /\ head[k] = Prefix(s, k)
  BY <1>0, <1>4
<1> QED
  BY <1>3, <1>5

\* A chain that verifies and ends in the hash of another one is that chain: an entry that is
\* missing or out of its place changes the hashes after it.
LEMMA ChainIsWhole ==
    ASSUME NEW s, IsSeq(s), NEW file \in Seq(Range(Chain(s))), VerifyChain(file),
           root(file) = root(Chain(s))
    PROVE  file = Chain(s)
<1> DEFINE n == Len(s)
           m == Len(file)
           bodies == [k \in 1 .. m |-> file[k].body]
<1>0. n \in Nat /\ m \in Nat
  BY DEF IsSeq
<1>1. /\ DOMAIN Chain(s) = 1 .. n
      /\ \A k \in 1 .. n : Chain(s)[k] = [body |-> s[k], prev |-> Prefix(s, k - 1),
                                          hash |-> Prefix(s, k)]
  BY ChainEntries
<1>2. ASSUME NEW k \in 1 .. m
      PROVE  \E j \in 1 .. n : /\ file[k] = Chain(s)[j]
                               /\ file[k].body = s[j] /\ file[k].hash = Prefix(s, j)
  <2>1. file[k] \in Range(Chain(s))
    BY <1>2
  <2>2. PICK j \in 1 .. n : file[k] = Chain(s)[j]
    BY <1>1, <2>1 DEF Range
  <2>3. Chain(s)[j].body = s[j] /\ Chain(s)[j].hash = Prefix(s, j)
    BY <1>1
  <2> QED
    BY <2>2, <2>3
<1>3. IsSeq(bodies) /\ Len(bodies) = m
  <2>1. \A k \in 1 .. m : bodies[k] \in Range(bodies)
    BY DEF Range
  <2>2. bodies = [k \in 1 .. m |-> bodies[k]]
    OBVIOUS
  <2> HIDE DEF bodies
  <2> QED
    BY <1>0, <2>1, <2>2 DEF IsSeq
<1>4. \A k \in 1 .. m : file[k].hash = Prefix(bodies, k)
  <2> DEFINE G == {k \in Nat : k \in 1 .. m => file[k].hash = Prefix(bodies, k)}
  <2>1. 0 \in G
    OBVIOUS
  <2>2. ASSUME NEW k \in Nat, k \in G
        PROVE  k + 1 \in G
    <3> SUFFICES ASSUME k + 1 \in 1 .. m
                 PROVE  file[k + 1].hash = Prefix(bodies, k + 1)
      OBVIOUS
    <3>1. bodies[k + 1] = file[k + 1].body
      OBVIOUS
    <3>2. file[k + 1].prev = Prefix(bodies, k)
      <4>1. CASE k = 0
        <5>1. file[k + 1].prev = GENESIS
          BY <1>0, <4>1 DEF VerifyChain
        <5>2. 0 \in 0 .. Len(bodies)
          BY <1>0, <1>3
        <5>3. Prefix(bodies, 0) = GENESIS
          BY <1>3, <5>2, PrefixGrows
        <5> QED
          BY <4>1, <5>1, <5>3
      <4>2. CASE k # 0
        <5>1. k \in 1 .. m /\ k + 1 # 1 /\ (k + 1) - 1 = k /\ k + 1 \in DOMAIN file
          BY <1>0, <4>2
        <5>2. file[k + 1].prev = file[k].hash
          BY <5>1 DEF VerifyChain
        <5> QED
          BY <2>2, <5>1, <5>2
      <4> QED
        BY <4>1, <4>2
    <3>3. file[k + 1].hash = Hash(file[k + 1].prev, file[k + 1].body)
      BY <1>0 DEF VerifyChain
    <3>4. Prefix(bodies, k + 1) = Hash(Prefix(bodies, k), bodies[k + 1])
      <4>1. k + 1 \in 0 .. Len(bodies) /\ k + 1 > 0 /\ (k + 1) - 1 = k
        BY <1>0, <1>3
      <4> HIDE DEF bodies
      <4> QED
        BY <1>3, <4>1, PrefixGrows
    <3> HIDE DEF bodies
    <3> QED
      BY <3>1, <3>2, <3>3, <3>4
  <2>3. Nat \subseteq G
    <3> HIDE DEF G
    <3> QED
      BY <2>1, <2>2, NaturalsIn
  <2> QED
    BY <1>0, <2>3
<1>5. root(file) = Prefix(bodies, m)
  <2>1. CASE file = <<>>
    <3>1. m = 0 /\ root(file) = GENESIS
      BY <2>1 DEF root
    <3>2. 0 \in 0 .. Len(bodies)
      BY <1>0, <1>3
    <3>3. Prefix(bodies, 0) = GENESIS
      BY <1>3, <3>2, PrefixGrows
    <3> QED
      BY <3>1, <3>3
  <2>2. CASE file # <<>>
    <3>1. m \in 1 .. m
      BY <1>0, <2>2
    <3>2. root(file) = file[m].hash
      BY <2>2 DEF root
    <3> HIDE DEF bodies
    <3> QED
      BY <1>4, <3>1, <3>2
  <2> QED
    BY <2>1, <2>2
<1>6. root(Chain(s)) = Prefix(s, n)
  <2>1. Len(Chain(s)) = n /\ (Chain(s) = <<>> <=> n = 0)
    BY <1>0, ChainEntries
  <2>2. CASE n = 0
    <3>1. 0 \in 0 .. Len(s)
      BY <1>0
    <3> QED
      BY <2>1, <2>2, <3>1, PrefixGrows DEF root
  <2>3. CASE n # 0
    <3>1. n \in 1 .. n
      BY <1>0, <2>3
    <3> QED
      BY <1>1, <2>1, <2>3, <3>1 DEF root
  <2> QED
    BY <2>2, <2>3
<1>7. m = n
  <2>1. m \in 0 .. Len(bodies) /\ n \in 0 .. Len(s)
    BY <1>0, <1>3
  <2>2. Len(Prefix(bodies, m)) = m
    BY <1>3, <2>1, PrefixGrows
  <2>3. Len(Prefix(s, n)) = n
    BY <2>1, PrefixGrows
  <2> QED
    BY <1>5, <1>6, <2>2, <2>3
<1>8. ASSUME NEW k \in 1 .. n
      PROVE  file[k] = Chain(s)[k]
  <2>1. PICK j \in 1 .. n : file[k] = Chain(s)[j] /\ file[k].hash = Prefix(s, j)
    BY <1>2, <1>7
  <2>2. Prefix(bodies, k) = Prefix(s, j)
    BY <1>4, <1>7, <2>1
  <2>3. k \in 0 .. Len(bodies) /\ j \in 0 .. Len(s)
    BY <1>0, <1>3, <1>7
  <2>4. Len(Prefix(bodies, k)) = k
    BY <1>3, <2>3, PrefixGrows
  <2>5. Len(Prefix(s, j)) = j
    BY <2>3, PrefixGrows
  <2> QED
    BY <2>1, <2>2, <2>4, <2>5
<1>9. file = [k \in 1 .. n |-> file[k]]
  BY <1>7
<1>10. Chain(s) = [k \in 1 .. n |-> Chain(s)[k]]
  BY ChainEntries
<1> QED
  BY <1>8, <1>9, <1>10

\* A report that is finished stays what it is.
LEMMA FinishedKept ==
    ASSUME CloseInv, UNCHANGED vars, books' = books, signing_key' = signing_key, report' = report,
           stage \in {"report", "audited"}, stage' \in {"report", "audited"}
    PROVE  /\ IInv' /\ Given' /\ batch' \in Batches /\ StageFollowsPhase' /\ ReportIsCurrent'
           /\ AuditEntries' = AuditEntries
           /\ \A a : RunReport(a)' = RunReport(a) /\ issue_certificate(a)' = issue_certificate(a)
<1>1. stage \in Listed /\ stage \in Packed /\ stage \in Planned
  BY DEF Listed, Packed, Planned
<1>2. /\ IInv' /\ Given' /\ batch' \in Batches /\ phase' = "done"
      /\ report.fee_gst = fee_gst' /\ \A l \in Reconciled' : Resolvable(l)'
      /\ report.ledger = LedgerFindings'
      /\ report.plan = build_recovery_plan'
      /\ report.packets = [a \in BOOLEAN |-> build_proof_packets(a)']
      /\ report.journal = build_journal_entries'
  BY <1>1, ReportKept
<1>3. ReportIsCurrent' /\ StageFollowsPhase'
  BY <1>1, <1>2 DEF CloseInv, ReportIsCurrent, StageFollowsPhase, Listed, Planned, Packed
<1>4. batch' = batch /\ covered' = covered /\ exception' = exception
  BY DEF vars
<1> QED
  BY <1>2, <1>3, <1>4, SameCertificate

\* What is read back from disk has entries of the chain.
LEMMA FileReadStep ==
    ASSUME CloseInv, ReadAudit
    PROVE  audit_file' \in Seq(Range(AuditEntries))
<1> DEFINE E == AuditEntries
           n == Len(E)
           R == Range(E)
<1>1. E \in Seq(R) /\ n \in Nat
  <2>1. IsSeq(AuditEvents)
    BY EventsAreSeq DEF CloseInv, IInv
  <2> DEFINE m == Len(AuditEvents)
             e(k) == [body |-> AuditEvents[k], prev |-> Prefix(AuditEvents, k - 1),
                      hash |-> Prefix(AuditEvents, k)]
  <2>2. E = [k \in 1 .. m |-> e(k)] /\ m \in Nat
    BY <2>1, ChainEntries DEF AuditEntries, IsSeq
  <2> HIDE DEF E, m, e
  <2>3. DOMAIN E = 1 .. m /\ \A k \in 1 .. m : E[k] \in Range(E)
    BY <2>2 DEF Range
  <2>4. E = [k \in 1 .. m |-> E[k]]
    BY <2>2
  <2> QED
    BY <2>2, <2>3, <2>4
<1>2. \/ audit_file' = E
      \/ \E k \in 1 .. n : audit_file' = RemoveAt(E, k)
      \/ \E k \in 1 .. n - 1 : audit_file' = SubSeq(E, 1, k - 1) \o <<E[k + 1], E[k]>>
                                               \o SubSeq(E, k + 2, n)
  BY DEF ReadAudit
<1> HIDE DEF E, n, R
<1>n. n = Len(E)
  BY DEF n
<1>3. ASSUME NEW i \in 1 .. n + 1, NEW j \in 0 .. n
      PROVE  SubSeq(E, i, j) \in Seq(R)
  BY <1>1, <1>n
<1>4. ASSUME NEW k \in 1 .. n
      PROVE  RemoveAt(E, k) \in Seq(R)
  <2>1. k - 1 \in 0 .. n /\ k + 1 \in 1 .. n + 1 /\ 1 \in 1 .. n + 1 /\ n \in 0 .. n
    BY <1>1
  <2>2. SubSeq(E, 1, k - 1) \in Seq(R) /\ SubSeq(E, k + 1, n) \in Seq(R)
    BY <1>3, <2>1
  <2> QED
    BY <1>n, <2>2 DEF RemoveAt
<1>5. ASSUME NEW k \in 1 .. n - 1
      PROVE  SubSeq(E, 1, k - 1) \o <<E[k + 1], E[k]>> \o SubSeq(E, k + 2, n) \in Seq(R)
  <2>1. k - 1 \in 0 .. n /\ k + 2 \in 1 .. n + 1 /\ 1 \in 1 .. n + 1 /\ n \in 0 .. n
    BY <1>1
  <2>2. SubSeq(E, 1, k - 1) \in Seq(R) /\ SubSeq(E, k + 2, n) \in Seq(R)
    BY <1>3, <2>1
  <2>3. E[k + 1] \in R /\ E[k] \in R
    BY <1>1, <1>n
  <2>4. <<E[k + 1], E[k]>> \in Seq(R)
    BY <2>3
  <2> QED
    BY <2>2, <2>4
<1> QED
  BY <1>1, <1>2, <1>4, <1>5 DEF E, R

\* Reading the audit file back: entries of the chain, of which some may be missing or moved.
LEMMA ReadAuditStep == CloseInv /\ ReadAudit => CloseInv'
<1> SUFFICES ASSUME CloseInv, ReadAudit PROVE CloseInv'
  OBVIOUS
<1>1. /\ UNCHANGED vars /\ books' = books /\ signing_key' = signing_key /\ report' = report
      /\ stage = "report" /\ stage' = "audited" /\ issued' = issued /\ presented' = presented
      /\ \A a \in BOOLEAN : ~issued[a].issued
  BY DEF ReadAudit
<1>2. /\ IInv' /\ Given' /\ batch' \in Batches /\ StageFollowsPhase' /\ ReportIsCurrent'
      /\ AuditEntries' = AuditEntries
  BY <1>1, FinishedKept
<1>3. IssuedIsCurrent'
  BY <1>1 DEF CloseInv, IssuedIsCurrent, issue_certificate
<1>4. PresentedIsComposed'
  BY <1>1 DEF CloseInv, PresentedIsComposed
<1>5. FileIsOfEntries'
  BY <1>2, FileReadStep DEF FileIsOfEntries
<1> QED
  BY <1>2, <1>3, <1>4, <1>5 DEF CloseInv

\* An envelope is issued for the report as it is.
LEMMA IssueStep == ASSUME CloseInv, NEW audit \in BOOLEAN, Issue(audit) PROVE CloseInv'
<1>1. /\ UNCHANGED vars /\ books' = books /\ signing_key' = signing_key /\ report' = report
      /\ stage = "report" /\ stage' = stage /\ presented' = presented
      /\ ~issued[audit].issued
      /\ issued' = [issued EXCEPT ![audit] = issue_certificate(audit)]
  BY DEF Issue
<1>2. /\ IInv' /\ Given' /\ batch' \in Batches /\ StageFollowsPhase' /\ ReportIsCurrent'
      /\ \A a : RunReport(a)' = RunReport(a) /\ issue_certificate(a)' = issue_certificate(a)
  BY <1>1, FinishedKept
<1>0. issued = [a \in BOOLEAN |-> issued[a]]
  BY DEF CloseInv, IssuedIsCurrent
<1>3. IssuedIsCurrent'
  <2>1. issued' = [a \in BOOLEAN |-> issued'[a]]
    BY <1>0, <1>1
  <2>2. \A a \in BOOLEAN : \/ issued'[a] = NoEnvelope
                           \/ issued'[a] = issue_certificate(a)
    BY <1>0, <1>1 DEF CloseInv, IssuedIsCurrent
  <2> QED
    BY <1>1, <1>2, <2>1, <2>2 DEF IssuedIsCurrent
<1>4. PresentedIsComposed'
  <2>1. \A a \in BOOLEAN : issued[a].issued => issued'[a] = issued[a]
    BY <1>0, <1>1
  <2>2. CASE presented = NoEnvelope
    BY <1>1, <2>2 DEF PresentedIsComposed
  <2>3. CASE presented # NoEnvelope
    <3>1. PICK body, hash, rep, signature, signed :
             /\ body \in BOOLEAN /\ hash \in BOOLEAN /\ rep \in SUBSET BOOLEAN
             /\ issued[body].issued /\ issued[hash].issued
             /\ presented = [issued |-> TRUE, certificate |-> issued[body].certificate,
                             content_sha256 |-> issued[hash].content_sha256, signed |-> signed,
                             signature |-> signature,
                             report |-> {RunReport(a) : a \in rep}]
      BY <2>3 DEF CloseInv, PresentedIsComposed
    <3>2. {RunReport(a)' : a \in rep} = {RunReport(a) : a \in rep}
      BY <1>2
    <3>3. issued'[body] = issued[body] /\ issued'[hash] = issued[hash]
      BY <2>1, <3>1
    <3> QED
      BY <1>1, <3>1, <3>2, <3>3 DEF PresentedIsComposed
  <2> QED
    BY <2>2, <2>3
<1>5. FileIsOfEntries'
  BY <1>1 DEF FileIsOfEntries
<1> QED
  BY <1>2, <1>3, <1>4, <1>5 DEF CloseInv

\* A recipient is given parts of what was issued.
LEMMA PresentStep == CloseInv /\ Present => CloseInv'
<1> SUFFICES ASSUME CloseInv, Present PROVE CloseInv'
  OBVIOUS
<1>1. /\ UNCHANGED vars /\ books' = books /\ signing_key' = signing_key /\ report' = report
      /\ stage' = stage /\ issued' = issued /\ audit_file' = audit_file
  BY DEF Present
<1> DEFINE out == {a \in BOOLEAN : issued[a].issued}
<1>2. PICK body \in out, hash \in out, sig \in {{}} \cup {{a} : a \in out},
           rep \in {{}} \cup {{a} : a \in out}, signed \in BOOLEAN :
          presented' = [issued |-> TRUE, certificate |-> issued[body].certificate,
                        content_sha256 |-> issued[hash].content_sha256, signed |-> signed,
                        signature |-> UNION {issued[a].signature : a \in sig},
                        report |-> {RunReport(a) : a \in rep}]
  BY DEF Present
<1>3. stage = "report"
  BY <1>2 DEF CloseInv, IssuedIsCurrent, NoEnvelope
<1>4. /\ IInv' /\ Given' /\ batch' \in Batches /\ StageFollowsPhase' /\ ReportIsCurrent'
      /\ \A a : RunReport(a)' = RunReport(a) /\ issue_certificate(a)' = issue_certificate(a)
  BY <1>1, <1>3, FinishedKept
<1>5. IssuedIsCurrent'
  BY <1>1, <1>3, <1>4 DEF CloseInv, IssuedIsCurrent
<1>6. PresentedIsComposed'
  <2>1. {RunReport(a)' : a \in rep} = {RunReport(a) : a \in rep}
    BY <1>4
  <2>2. rep \in SUBSET BOOLEAN /\ body \in BOOLEAN /\ hash \in BOOLEAN
    OBVIOUS
  <2>3. issued'[body].issued /\ issued'[hash].issued
    BY <1>1
  <2> DEFINE s == UNION {issued[a].signature : a \in sig}
  <2>4. presented' = [issued |-> TRUE, certificate |-> issued'[body].certificate,
                        content_sha256 |-> issued'[hash].content_sha256, signed |-> signed,
                        signature |-> s,
                        report |-> {RunReport(a)' : a \in rep}]
    BY <1>1, <1>2, <2>1
  <2> HIDE DEF s
  <2>5. /\ body \in BOOLEAN /\ hash \in BOOLEAN /\ rep \in SUBSET BOOLEAN
        /\ issued'[body].issued /\ issued'[hash].issued
        /\ presented' = [issued |-> TRUE, certificate |-> issued'[body].certificate,
                         content_sha256 |-> issued'[hash].content_sha256, signed |-> signed,
                         signature |-> s,
                         report |-> {RunReport(a)' : a \in rep}]
    BY <2>2, <2>3, <2>4
  <2>6. stage' = "report"
    BY <1>1, <1>3
  <2>7. \E b, h, r, signature, si :
          /\ b \in BOOLEAN /\ h \in BOOLEAN /\ r \in SUBSET BOOLEAN
          /\ issued'[b].issued /\ issued'[h].issued
          /\ presented' = [issued |-> TRUE, certificate |-> issued'[b].certificate,
                           content_sha256 |-> issued'[h].content_sha256, signed |-> si,
                           signature |-> signature,
                           report |-> {RunReport(a)' : a \in r}]
    <3> WITNESS body, hash, rep, s, signed
    <3> QED
      BY <2>5
  <2> QED
    BY <2>6, <2>7 DEF PresentedIsComposed
<1>7. FileIsOfEntries'
  BY <1>1, <1>3 DEF FileIsOfEntries
<1> QED
  BY <1>4, <1>5, <1>6, <1>7 DEF CloseInv

\* What is not a step of a close changes nothing that the invariant reads.
LEMMA CloseStutter == CloseInv /\ UNCHANGED allVars => CloseInv'
<1> SUFFICES ASSUME CloseInv, UNCHANGED allVars PROVE CloseInv'
  OBVIOUS
<1>1. /\ UNCHANGED vars /\ books' = books /\ signing_key' = signing_key /\ report' = report
      /\ stage' = stage /\ presented' = presented /\ issued' = issued /\ audit_file' = audit_file
  BY DEF allVars, tail
<1>2. /\ batch' = batch /\ covered' = covered /\ exception' = exception /\ phase' = phase
  BY <1>1 DEF vars
<1>3. /\ AuditEntries' = AuditEntries
      /\ \A a : RunReport(a)' = RunReport(a) /\ issue_certificate(a)' = issue_certificate(a)
  BY <1>1, <1>2, SameCertificate
<1>4. IInv' /\ Given' /\ batch' \in Batches /\ StageFollowsPhase'
  BY <1>1, <1>2, IInvStutter DEF CloseInv, Given, StageFollowsPhase
<1>5. ReportIsCurrent'
  <2>1. CASE stage \in Listed
    <3>1. /\ report.fee_gst = fee_gst' /\ \A l \in Reconciled' : Resolvable(l)'
          /\ report.ledger = LedgerFindings'
          /\ stage \in Planned => report.plan = build_recovery_plan'
          /\ stage \in Packed => /\ report.packets = [a \in BOOLEAN |-> build_proof_packets(a)']
                                 /\ report.journal = build_journal_entries'
      BY <1>1, <2>1, ReportKept
    <3> QED
      BY <1>1, <1>2, <3>1 DEF CloseInv, ReportIsCurrent
  <2>2. CASE stage \notin Listed
    <3>1. fee_gst' = fee_gst /\ Reconciled' = Reconciled
      BY <1>1, <1>2, SameRows, SameFees
    <3>2. \A l \in Reconciled : Resolvable(l)' = Resolvable(l)
      BY <1>1, <1>2, SameRows DEF Reconciled
    <3> QED
      BY <1>1, <1>2, <2>2, <3>1, <3>2 DEF CloseInv, ReportIsCurrent, Listed, Planned, Packed
  <2> QED
    BY <2>1, <2>2
<1>6. IssuedIsCurrent'
  BY <1>1, <1>3 DEF CloseInv, IssuedIsCurrent
<1>7. PresentedIsComposed'
  <2>1. \A rep : {RunReport(a)' : a \in rep} = {RunReport(a) : a \in rep}
    BY <1>3
  <2> QED
    BY <1>1, <2>1 DEF CloseInv, PresentedIsComposed
<1>8. FileIsOfEntries'
  BY <1>1, <1>3 DEF CloseInv, FileIsOfEntries
<1> QED
  BY <1>4, <1>5, <1>6, <1>7, <1>8 DEF CloseInv

\* Every step keeps the invariant.
LEMMA NextCloseInv == CloseInv /\ [NextClose]_allVars => CloseInv'
  BY ReconcilingStep, PriceFeesStep, FailClosedStep, ListExceptionsStep, PlanRecoveryStep,
     ProvePacketsStep, InvestigateStep, ReadAuditStep, IssueStep, PresentStep, CloseStutter
     DEF NextClose

\* It holds throughout.
LEMMA CloseInvariant == CloseSpec => []CloseInv
  BY InitCloseInv, NextCloseInv, PTL DEF CloseSpec

(***************************************************************************)
(* Certificates.                                                           *)
(***************************************************************************)
\* What _inr prints is read back as it was.
LEMMA PrintedIsRead == ASSUME NEW p \in Int PROVE _parse_inr_to_paise(_inr(p)) = p
<1> DEFINE n == AbsPaise(p)
           q == n \div 100
           r == n % 100
<1>1. n \in Nat /\ p = (IF p < 0 THEN -n ELSE n)
  BY DEF AbsPaise
<1>2. _inr(p) = [minus |-> p < 0, rupees |-> q, paise |-> r]
  BY DEF _inr
<1>3. \A m \in Nat : m \div 100 \in Nat /\ m % 100 \in Nat
  OBVIOUS
<1>4. \A m \in Nat : m % 100 = m - 100 * (m \div 100)
  OBVIOUS
<1> HIDE DEF n
<1>5. q \in Nat /\ r \in Nat /\ r = n - 100 * q
  BY <1>1, <1>3, <1>4
<1> HIDE DEF q, r
<1>6. 100 * q + r = n
  BY <1>1, <1>5
<1>7. _parse_inr_to_paise(_inr(p)) = (IF p < 0 THEN -1 ELSE 1) * n
  <2> DEFINE x == _inr(p)
  <2>1. x.minus = (p < 0) /\ x.rupees = q /\ x.paise = r
    BY <1>2
  <2> HIDE DEF x
  <2>2. 100 * x.rupees + x.paise = n
    BY <1>6, <2>1
  <2>3. (IF x.minus THEN -1 ELSE 1) = (IF p < 0 THEN -1 ELSE 1)
    BY <2>1
  <2>4. _parse_inr_to_paise(x) = (IF x.minus THEN -1 ELSE 1) * (100 * x.rupees + x.paise)
    BY DEF _parse_inr_to_paise
  <2> QED
    BY <2>2, <2>3, <2>4 DEF x
<1> QED
  BY <1>1, <1>7

\* What a close starts from: the lines, the rows and the books it is given stay what they were.
LEMMA BooksGiven ==
    ASSUME CloseInv
    PROVE  /\ books \in BooksType /\ batch \in Batch /\ batch \in Batches
           /\ \A l \in Lines : batch.rail[l] = "razorpay_settlement" =>
                                 ~batch.abstained[l] /\ books.line[l].is_credit
           /\ \A s \in Settlements :
                batch.net[s] = Total([i \in Rows |-> net_paise(row(i))], RowsOf(s))
<1>1. PICK c \in Closes : batch = c.batch /\ books = c.books
  BY DEF CloseInv, Given
<1>2. c.batch \in Batches /\ CloseInput(c)
  BY ClosesAssumption
<1>3. batch \in Batch /\ batch \in Batches
  BY <1>1, <1>2, BatchesAssumption
<1> QED
  BY <1>1, <1>2, <1>3 DEF CloseInput, Rows, row, RowsOf

\* What is known of the lines of the statement.
LEMMA LinesTyped ==
    ASSUME CloseInv
    PROVE  /\ IsFiniteSet(Lines)
           /\ \A l \in Lines : /\ books.line[l] \in BankCreditLine
                               /\ batch.amount[l] \in Nat \ {0}
                               /\ amount_paise(l) \in Int
                               /\ books.line[l].is_credit => amount_paise(l) = batch.amount[l]
<1>1. IsFiniteSet(Lines)
  BY LinesAssumption, FS_Interval DEF Lines
<1>2. ASSUME NEW l \in Lines
      PROVE  books.line[l] \in BankCreditLine /\ batch.amount[l] \in Nat \ {0}
  BY BooksGiven DEF BooksType, Batch
<1>3. ASSUME NEW l \in Lines
      PROVE  /\ amount_paise(l) \in Int
             /\ books.line[l].is_credit => amount_paise(l) = batch.amount[l]
  BY <1>2 DEF amount_paise, BankCreditLine
<1> QED
  BY <1>1, <1>2, <1>3

\* The credits of the proven slice are those reconciled and those open.
LEMMA SliceAddsUp ==
    ASSUME CloseInv
    PROVE  /\ ReconciledPaise \in Nat /\ ProvenPaise \in Nat
           /\ ProvenPaise = Paise({l \in Lines : Razorpay(l)})
           /\ ReconciledPaise <= ProvenPaise
<1> DEFINE P == {l \in Lines : Razorpay(l)}
           f == [l \in Lines |-> amount_paise(l)]
           Q == P \ Reconciled
<1>1. P = {l \in Lines : batch.rail[l] = "razorpay_settlement"}
  BY BooksGiven DEF Razorpay
<1>2. Reconciled \subseteq P
  BY DEF CloseInv, IInv, ResolvedUnflagged, Reconciled
<1>3. \A l \in P : amount_paise(l) \in Nat
  BY <1>1, LinesTyped, BooksGiven
<1>4. P \subseteq Lines /\ Reconciled \subseteq Lines /\ Q \subseteq Lines
  BY DEF Reconciled
<1>5. IsFiniteSet(P) /\ IsFiniteSet(Reconciled) /\ IsFiniteSet(Q)
  BY <1>4, LinesTyped, FS_Subset
<1>6. \A T \in SUBSET P : IsFiniteSet(T) => Paise(T) = Total(f, T)
  <2> SUFFICES ASSUME NEW T \in SUBSET P, IsFiniteSet(T)
               PROVE  Paise(T) = Total(f, T)
    OBVIOUS
  <2> DEFINE g == [l \in T |-> amount_paise(l)]
  <2>1. \A l \in T : g[l] = f[l]
    OBVIOUS
  <2>2. Paise(T) = Total(g, T)
    BY DEF Paise
  <2> HIDE DEF f, g, P
  <2> QED
    BY <2>1, <2>2, TotalAgree
<1>7. \A l \in P : f[l] \in Nat
  BY <1>3
<1>8. P = Reconciled \cup Q /\ Reconciled \cap Q = {}
  BY <1>2
<1>9. Reconciled \in SUBSET P /\ P \in SUBSET P /\ Q \in SUBSET P
  BY <1>2
<1> HIDE DEF f, P, Q
<1>10. Total(f, Reconciled) \in Nat /\ Total(f, Q) \in Nat /\ Total(f, P) \in Nat
  BY <1>5, <1>7, <1>9, TotalNat
<1>11. \A l \in Reconciled \cup Q : f[l] \in Int
  BY <1>7, <1>8
<1>12. Total(f, Reconciled \cup Q) = Total(f, Reconciled) + Total(f, Q)
  BY <1>5, <1>8, <1>11, TotalUnion
<1>13. Paise(P) = Total(f, P) /\ Paise(Reconciled) = Total(f, Reconciled)
  BY <1>5, <1>6, <1>9
<1>14. ReconciledPaise = Total(f, Reconciled) /\ ProvenPaise = Total(f, P) /\ ProvenPaise = Paise(P)
  BY <1>1, <1>13 DEF ReconciledPaise, ProvenPaise
<1>15. Total(f, P) = Total(f, Reconciled) + Total(f, Q)
  BY <1>8, <1>12
<1> HIDE DEF P
<1>16. Total(f, Reconciled) <= Total(f, P)
  BY <1>10, <1>15
<1>17. /\ ReconciledPaise \in Nat /\ ProvenPaise \in Nat /\ ProvenPaise = Paise(P)
       /\ ReconciledPaise <= ProvenPaise
  BY <1>10, <1>14, <1>16
<1> QED
  BY <1>17 DEF P

\* An envelope that verify_certificate accepts has the certificate, the hash and the report of
\* one issue, whatever it was put together from: the hash covers the certificate, and the
\* certificate names the report it was made for.
LEMMA EnvelopeStands ==
    ASSUME CloseInv, presented.issued, verify_certificate(presented)
    PROVE  \E a \in BOOLEAN :
            /\ issued[a].issued
            /\ presented.certificate = issued[a].certificate
            /\ presented.content_sha256 = issued[a].content_sha256
            /\ presented.signature \subseteq issued[a].signature
            /\ presented.report \subseteq {RunReport(a)}
            /\ presented.report # {} =>
                 \A l \in Lines : (a /\ \E p \in report.packets[a] : p.line = l)
                                  => books.line[l].margin > 0
            /\ _parse_inr_to_paise(presented.certificate.reconciled)
                 + _parse_inr_to_paise(presented.certificate.unresolved)
               = Paise({l \in Lines : Razorpay(l)})
<1>0. presented # NoEnvelope
  BY DEF NoEnvelope
<1>1. PICK body, hash, rep, signature, signed :
             /\ body \in BOOLEAN /\ hash \in BOOLEAN /\ rep \in SUBSET BOOLEAN
             /\ issued[body].issued /\ issued[hash].issued
             /\ presented = [issued |-> TRUE, certificate |-> issued[body].certificate,
                             content_sha256 |-> issued[hash].content_sha256, signed |-> signed,
                             signature |-> signature,
                             report |-> {RunReport(a) : a \in rep}]
  BY <1>0 DEF CloseInv, PresentedIsComposed
<1>2. stage = "report"
  BY <1>0 DEF CloseInv, PresentedIsComposed
<1>3. issued[body] = issue_certificate(body) /\ issued[hash] = issue_certificate(hash)
  BY <1>1 DEF CloseInv, IssuedIsCurrent, NoEnvelope
<1> DEFINE cert == build_close_certificate(body)
<1>4. /\ issued[body].certificate = cert
      /\ issued[body].content_sha256 = cert
      /\ issued[body].signature = IF signing_key THEN {cert} ELSE {}
  BY <1>3 DEF issue_certificate
<1>5. /\ presented.content_sha256 = presented.certificate
      /\ presented.signature # {} => signing_key /\ presented.signature = {presented.certificate}
      /\ ReportBinds(presented)
  BY DEF verify_certificate
<1>6. presented.certificate = cert
  BY <1>1, <1>4
<1>7. cert.report_sha256 = RunReport(body)
  BY DEF build_close_certificate
<1>8. presented.report \subseteq {RunReport(body)}
  BY <1>5, <1>6, <1>7 DEF ReportBinds
<1>9. ASSUME presented.report # {}, NEW l \in Lines, body, NEW p \in report.packets[body],
             p.line = l
      PROVE  books.line[l].margin > 0
  <2>1. RunReport(body) \in presented.report
    BY <1>8, <1>9
  <2>2. RunReport(body).packets = report.packets[body]
    BY DEF RunReport
  <2>3. verify_proof_packet(p)
    BY <1>5, <1>9, <2>1, <2>2 DEF ReportBinds
  <2>4. report.packets[body] = build_proof_packets(body)
    BY <1>1, <1>2 DEF CloseInv, ReportIsCurrent, Packed, Planned, Listed
  <2>5. PICK m \in Lines : p = ProofPacket(m, body)
    BY <1>9, <2>4 DEF build_proof_packets
  <2>6. p.line = m /\ p.margin = [present |-> TRUE, value |-> books.line[m].margin]
    BY <1>9, <2>5 DEF ProofPacket
  <2> QED
    BY <1>9, <2>3, <2>6 DEF verify_proof_packet
<1>10. _parse_inr_to_paise(cert.reconciled) + _parse_inr_to_paise(cert.unresolved)
         = Paise({l \in Lines : Razorpay(l)})
  <2> DEFINE o == IF ProvenPaise - ReconciledPaise > 0 THEN ProvenPaise - ReconciledPaise ELSE 0
  <2>1. cert.reconciled = _inr(ReconciledPaise) /\ cert.unresolved = _inr(o)
    BY DEF build_close_certificate
  <2>2. o \in Int /\ ReconciledPaise \in Int /\ ReconciledPaise + o = ProvenPaise
    BY SliceAddsUp
  <2> HIDE DEF cert, o
  <2>3. _parse_inr_to_paise(cert.reconciled) = ReconciledPaise /\ _parse_inr_to_paise(cert.unresolved) = o
    BY <2>1, <2>2, PrintedIsRead
  <2> QED
    BY <2>2, <2>3, SliceAddsUp
<1> HIDE DEF cert
<1> QED
  BY <1>1, <1>4, <1>5, <1>6, <1>8, <1>9, <1>10

\* A certificate that verifies stands for one issue: whoever puts together what they present
\* to verify_certificate, an envelope that is accepted has the certificate, content hash,
\* signature and report of the same issue, and the amounts it prints add up to the credits of
\* the proven slice; and an audit file that verifies and ends in the root of the run's chain is
\* that chain, whole and in order.
THEOREM CertificatesStand == CloseSpec => []CertificateStands
<1>1. CloseInv => CertificateStands
  <2> SUFFICES ASSUME CloseInv PROVE CertificateStands
    OBVIOUS
  <2>1. ASSUME stage = "audited", VerifyChain(audit_file), root(audit_file) = root(AuditEntries)
        PROVE  audit_file = AuditEntries
    <3>1. IsSeq(AuditEvents)
      BY EventsAreSeq DEF CloseInv, IInv
    <3>2. audit_file \in Seq(Range(Chain(AuditEvents)))
      BY <2>1 DEF CloseInv, FileIsOfEntries, AuditEntries
    <3> QED
      BY <2>1, <3>1, <3>2, ChainIsWhole DEF AuditEntries
  <2> QED
    BY <2>1, EnvelopeStands DEF CertificateStands
<1> QED
  BY <1>1, CloseInvariant, PTL

(***************************************************************************)
(* Corrections.                                                            *)
(***************************************************************************)
\* The minimum of a set of naturals is in it and below the others.
LEMMA MinIs ==
    ASSUME NEW S \in SUBSET Nat, S # {}
    PROVE  Min(S) \in S /\ \A x \in S : Min(S) <= x
<1> DEFINE Less == OpToRel(<, Nat)
<1>1. IsWellFoundedOn(Less, Nat)
  BY NatLessThanWellFounded
<1>2. PICK x \in S : \A y \in S : <<y, x>> \notin Less
  <2> HIDE DEF Less
  <2> QED
    BY <1>1, WFMin
<1>3. ASSUME NEW y \in S
      PROVE  x <= y
  <2>1. y \in Nat /\ x \in Nat
    OBVIOUS
  <2>2. y < x => <<y, x>> \in Less
    BY <2>1 DEF OpToRel
  <2> HIDE DEF Less
  <2> QED
    BY <1>2, <2>1, <2>2
<1> QED
  BY <1>3 DEF Min

\* What is known of the rows of a report, and that the sums over them are amounts.
LEMMA RowsTyped ==
    ASSUME CloseInv
    PROVE  /\ Rows \in SUBSET Nat /\ IsFiniteSet(Rows)
           /\ \A i \in Rows : row(i) \in ReconRow /\ net_paise(row(i)) \in Int
<1>1. books.rows \in Seq(ReconRow) /\ Len(books.rows) \in Nat
  BY BooksGiven DEF BooksType
<1>2. Rows = 1 .. Len(books.rows)
  BY <1>1 DEF Rows
<1>3. \A n \in Nat : IsFiniteSet(1 .. n)
  BY FS_Interval
<1>4. \A i \in Rows : row(i) \in ReconRow
  BY <1>1, <1>2 DEF row
<1>5. \A r \in ReconRow : net_paise(r) \in Int
  BY DEF ReconRow, net_paise
<1> QED
  BY <1>1, <1>2, <1>3, <1>4, <1>5

\* Fees, taxes and amounts add up to amounts in paise.
LEMMA RowSums ==
    ASSUME CloseInv, NEW S \in SUBSET Rows
    PROVE  Fees(S) \in Nat /\ Taxes(S) \in Nat /\ Amounts(S) \in Nat
<1>1. IsFiniteSet(S) /\ \A i \in S : row(i) \in ReconRow
  BY RowsTyped, FS_Subset
<1> DEFINE f == [i \in S |-> row(i).fee]
           t == [i \in S |-> row(i).tax]
           a == [i \in S |-> row(i).amount]
<1>2. \A i \in S : f[i] \in Nat /\ t[i] \in Nat /\ a[i] \in Nat
  BY <1>1 DEF ReconRow
<1>3. Fees(S) = Total(f, S) /\ Taxes(S) = Total(t, S) /\ Amounts(S) = Total(a, S)
  BY DEF Fees, Taxes, Amounts, SumOver
<1> HIDE DEF f, t, a
<1> QED
  BY <1>1, <1>2, <1>3, TotalNat

\* Explaining a variance: up to the tolerance.
Explains(d, v) == d \in Int /\ AbsPaise(v - d) <= DriftTolerance

\* A deduction within the tolerance of the variance, with the sign of the variance.
LEMMA SignedExplains ==
    ASSUME NEW v \in Int, NEW m \in Int, Within(AbsPaise(v), m)
    PROVE  Explains(Signed(v, m), v)
  BY LimitsAssumption DEF Within, AbsPaise, Signed, Explains

\* A deduction that the variance is the negative of, up to the tolerance.
LEMMA NegatedExplains ==
    ASSUME NEW v \in Int, NEW m \in Int, Within(v, -m)
    PROVE  Explains(-m, v)
  BY DEF Within, AbsPaise, Explains

\* mdr_fee_drift: the tax left out of the fee, or the fee off from the rate.
LEMMA MdrExplains ==
    ASSUME CloseInv, NEW S \in SUBSET Rows, NEW v \in Int, NEW d \in MdrFeeDrift(v, S)
    PROVE  Explains(d, v)
<1> DEFINE tax == Taxes(S)
           fee == Fees(S)
           gross == Amounts({i \in S : row(i).type = "payment"})
           expected == (gross * 236 + 5000) \div 10000
           drift == fee - expected
<1>1. tax \in Nat /\ fee \in Nat /\ gross \in Nat
  BY RowSums
<1> HIDE DEF tax, fee, gross
<1>2. \A n \in Nat : n \div 10000 \in Int
  OBVIOUS
<1>3. gross * 236 + 5000 \in Nat
  BY <1>1
<1>4. expected \in Int
  BY <1>2, <1>3
<1> HIDE DEF expected
<1>5. drift \in Int
  BY <1>1, <1>4
<1>6. MdrFeeDrift(v, S) = IF tax > 0 /\ Within(AbsPaise(v), tax) THEN {Signed(v, tax)}
                          ELSE When(fee > 0 /\ gross > 0 /\ Within(v, -drift), {-drift})
  BY DEF MdrFeeDrift, tax, fee, gross, expected
<1> HIDE DEF drift
<1>7. CASE tax > 0 /\ Within(AbsPaise(v), tax)
  BY <1>1, <1>6, <1>7, SignedExplains
<1>8. CASE ~(tax > 0 /\ Within(AbsPaise(v), tax))
  <2>1. d = -drift /\ Within(v, -drift)
    BY <1>6, <1>8 DEF When
  <2> QED
    BY <1>5, <2>1, NegatedExplains
<1> QED
  BY <1>7, <1>8

\* cross_cycle_refund_lag: a refund that was netted in another cycle.
LEMMA RefundExplains ==
    ASSUME CloseInv, NEW S \in SUBSET Rows, NEW v \in Int, NEW d \in CrossCycleRefundLag(v, S)
    PROVE  Explains(d, v)
<1> DEFINE Paid(i) == IF row(i).amount # 0 THEN row(i).amount ELSE row(i).debit
           lagging == {i \in S :
            /\ row(i).type = "refund" \/ (row(i).type = "adjustment" /\ row(i).note = "refund")
            /\ row(i).created # None /\ row(i).settled > row(i).created
            /\ Paid(i) > 0 /\ Within(v, -Paid(i))}
<1>1. CrossCycleRefundLag(v, S) = When(lagging # {}, {-Paid(Min(lagging))})
  BY DEF CrossCycleRefundLag
<1>2. \A i \in S : Paid(i) \in Int
  BY RowsTyped DEF ReconRow
<1>3. lagging \in SUBSET Nat
  BY RowsTyped
<1>4. lagging # {} /\ d = -Paid(Min(lagging))
  <2> HIDE DEF lagging, Paid
  <2> QED
    BY <1>1 DEF When
<1>5. Min(lagging) \in lagging
  <2> HIDE DEF lagging
  <2> QED
    BY <1>3, <1>4, MinIs
<1> DEFINE m == Min(lagging)
<1> HIDE DEF m
<1>6. m \in S /\ Within(v, -Paid(m))
  <2>1. m \in lagging
    BY <1>5 DEF m
  <2> QED
    BY <2>1
<1>7. Paid(m) \in Int
  BY <1>2, <1>6
<1>8. d = -Paid(m)
  BY <1>4 DEF m
<1> HIDE DEF Paid
<1> QED
  BY <1>6, <1>7, <1>8, NegatedExplains

\* A classifier that explains a variance of either sign.
LEMMA EitherWayExplains ==
    ASSUME NEW v \in Int, NEW sum \in Int, NEW d \in EitherWay(v, sum)
    PROVE  Explains(d, v)
  BY SignedExplains DEF EitherWay, When

\* dispute_deduction: a disputed amount withheld.
LEMMA DisputeExplains ==
    ASSUME CloseInv, NEW S \in SUBSET Rows, NEW v \in Int, NEW d \in DisputeDeduction(v, S)
    PROVE  Explains(d, v) /\ d <= 0
<1> DEFINE sum == Amounts({i \in S : row(i).dispute # None})
<1>1. sum \in Nat
  BY RowSums
<1>2. DisputeDeduction(v, S) = When(sum > 0 /\ Within(v, -sum), {-sum})
  BY DEF DisputeDeduction
<1> HIDE DEF sum
<1>3. d = -sum /\ Within(v, -sum)
  BY <1>2 DEF When
<1> QED
  BY <1>1, <1>3, NegatedExplains

\* partial_capture: less captured than authorized.
LEMMA CaptureExplains ==
    ASSUME CloseInv, NEW S \in SUBSET Rows, NEW v \in Int, NEW d \in PartialCapture(v, S)
    PROVE  Explains(d, v) /\ d <= 0
<1> DEFINE both == {i \in S : row(i).authorized >= 0 /\ row(i).captured >= 0}
           valid == /\ \A i \in S : (row(i).authorized < 0) = (row(i).captured < 0)
                    /\ \A i \in both : row(i).authorized >= row(i).captured
                    /\ \E i \in both : row(i).authorized > row(i).captured
           g == [i \in both |-> row(i).authorized - row(i).captured]
           gap == Total(g, both)
<1>1. PartialCapture(v, S) = When(valid /\ Within(v, -gap), {-gap})
  BY DEF PartialCapture, SumOver
<1>2. valid /\ d = -gap /\ Within(v, -gap)
  <2> HIDE DEF valid, gap
  <2> QED
    BY <1>1 DEF When
<1>3. \A i \in both : g[i] \in Nat
  <2>1. \A i \in both : row(i).authorized \in Int /\ row(i).captured \in Int
    BY RowsTyped DEF ReconRow
  <2>2. \A i \in both : row(i).authorized >= row(i).captured
    BY <1>2
  <2> QED
    BY <2>1, <2>2
<1>4. IsFiniteSet(both)
  BY RowsTyped, FS_Subset
<1>5. gap \in Nat
  <2> HIDE DEF both, g
  <2> QED
    BY <1>3, <1>4, TotalNat
<1> HIDE DEF gap, valid
<1> QED
  BY <1>2, <1>5, NegatedExplains

\* bank_charge_or_rounding: a variance small enough to be booked as it is.
LEMMA ChargeExplains ==
    ASSUME NEW v \in Int, NEW d \in BankChargeOrRounding(v)
    PROVE  Explains(d, v)
  BY LimitsAssumption DEF BankChargeOrRounding, When, Explains, AbsPaise

\* Whatever classifier matches, what it books is the variance up to the tolerance, and the
\* entry drafted moves clearing by as much in the other direction.
LEMMA ClassifierExplains ==
    ASSUME CloseInv, NEW S \in SUBSET Rows, NEW v \in Int, NEW k \in 1 .. 7,
           NEW d \in Classifiers(v, S)[k][2]
    PROVE  /\ Explains(d, v)
           /\ _make_corrective_entry(Classifiers(v, S)[k][1], d) = -d
<1> USE DEF Classifiers, _make_corrective_entry
<1>1. CASE k = 1
  BY <1>1, MdrExplains
<1>2. CASE k = 2
  BY <1>2, RefundExplains
<1>3. CASE k = 3
  <2>1. Amounts({i \in S : row(i).on_hold}) \in Int
    BY RowSums
  <2> QED
    BY <1>3, <2>1, EitherWayExplains DEF OnHoldRelease
<1>4. CASE k = 4
  <2>1. d \in DisputeDeduction(v, S)
    BY <1>4
  <2>2. Explains(d, v) /\ d <= 0 /\ d \in Int
    BY <2>1, DisputeExplains DEF Explains
  <2> QED
    BY <1>4, <2>2 DEF AbsPaise
<1>5. CASE k = 5
  <2>1. d \in PartialCapture(v, S)
    BY <1>5
  <2>2. Explains(d, v) /\ d <= 0 /\ d \in Int
    BY <2>1, CaptureExplains DEF Explains
  <2> QED
    BY <1>5, <2>2 DEF AbsPaise
<1>6. CASE k = 6
  BY <1>6, ChargeExplains
<1>7. CASE k = 7
  <2>1. Amounts({i \in S : row(i).type = "reserve" \/ row(i).note = "reserve"}) \in Int
    BY RowSums
  <2> QED
    BY <1>7, <2>1, EitherWayExplains DEF RollingReserve
<1> QED
  BY <1>1, <1>2, <1>3, <1>4, <1>5, <1>6, <1>7

\* An entry that investigate drafts is for the variance of the line against a settlement that
\* its narration names, and closes it.
LEMMA InvestigationCloses ==
    ASSUME CloseInv, NEW l \in Lines, investigate(l).drafted
    PROVE  LET f == investigate(l)
           IN  /\ \E s \in books.line[l].utrs \cup books.line[l].suffixes :
                    f.variance = amount_paise(l) - batch.net[s]
               /\ AbsPaise(f.variance - f.delta) <= DriftTolerance
               /\ f.clearing = -f.delta
<1> DEFINE s == CHOOSE s \in candidate_sids(l) : TRUE
           v == amount_paise(l) - batch.net[s]
           tried == Classifiers(v, RowsOf(s))
           matching == {k \in DOMAIN tried : tried[k][2] # {}}
           k == Min(matching)
           d == CHOOSE d \in tried[k][2] : TRUE
           c == _make_corrective_entry(tried[k][1], d)
<1>1. /\ Cardinality(candidate_sids(l)) = 1 /\ matching # {}
      /\ investigate(l) = Finding(tried[k][1], v, d, TRUE, c)
  <2> HIDE DEF s, v, tried, matching, k, d, c
  <2>1. investigate(l) = IF Cardinality(candidate_sids(l)) # 1 THEN Finding("unexplained", 0, 0, FALSE, 0)
        ELSE IF v = 0 THEN Finding("balanced", 0, 0, FALSE, 0)
        ELSE IF matching = {} THEN Finding("unexplained", v, 0, FALSE, 0)
        ELSE Finding(tried[k][1], v, d, TRUE, c)
    BY DEF investigate, s, v, tried, matching, k, d, c
  <2>2. \A x, y, z, w : ~Finding(x, y, z, FALSE, w).drafted
    BY DEF Finding
  <2> QED
    BY <2>1, <2>2
<1>2. candidate_sids(l) # {}
  <2>1. Cardinality({}) = 0
    BY FS_EmptySet
  <2> HIDE DEF s, v, tried, matching, k, d, c
  <2> QED
    BY <1>1, <2>1
<1>3. s \in candidate_sids(l)
  <2> HIDE DEF s
  <2> QED
    BY <1>2 DEF s
<1>4. candidate_sids(l) \subseteq books.line[l].utrs \cup books.line[l].suffixes
  BY DEF candidate_sids
<1>5. s \in books.line[l].utrs \cup books.line[l].suffixes /\ s \in Settlements
  <2> HIDE DEF s
  <2> QED
    BY <1>3, <1>4, LinesTyped DEF BankCreditLine
<1> HIDE DEF s
<1>6. v \in Int
  BY <1>5, LinesTyped, BooksGiven DEF Batch
<1> HIDE DEF v
<1>7. RowsOf(s) \in SUBSET Rows
  BY DEF RowsOf
<1>8. DOMAIN tried = 1 .. 7
  BY DEF Classifiers
<1>9. matching \in SUBSET (1 .. 7) /\ matching \in SUBSET Nat
  BY <1>8
<1>10. k \in matching
  <2> HIDE DEF matching
  <2> QED
    BY <1>1, <1>9, MinIs
<1>11. k \in 1 .. 7 /\ tried[k][2] # {}
  <2> HIDE DEF k
  <2> QED
    BY <1>8, <1>10
<1> HIDE DEF k
<1>12. d \in Classifiers(v, RowsOf(s))[k][2]
  <2> HIDE DEF d
  <2> QED
    BY <1>11 DEF d
<1>13. Explains(d, v) /\ c = -d
  <2> HIDE DEF d
  <2> QED
    BY <1>6, <1>7, <1>11, <1>12, ClassifierExplains
<1> HIDE DEF tried, matching, d, c
<1>14. investigate(l).variance = v /\ investigate(l).delta = d /\ investigate(l).clearing = c
  BY <1>1 DEF Finding
<1> QED
  BY <1>5, <1>13, <1>14 DEF Explains, v

\* Corrections close the variance they are drafted for: in every report, an investigated line
\* with a drafted entry has the variance against a settlement its narration names, the entry's
\* delta is that variance up to the tolerance, and clearing moves by the opposite amount.
THEOREM CorrectionsHold == CloseSpec => []CorrectionsCloseVariance
<1>1. InitClose => CorrectionsCloseVariance
  BY DEF InitClose, CorrectionsCloseVariance, Built
<1>2. CloseInv /\ CorrectionsCloseVariance /\ [NextClose]_allVars => CorrectionsCloseVariance'
  <2> SUFFICES ASSUME CloseInv, CorrectionsCloseVariance, [NextClose]_allVars
               PROVE  CorrectionsCloseVariance'
    OBVIOUS
  <2>1. CASE Investigate
    <3>1. /\ UNCHANGED vars /\ books' = books
          /\ report' = [report EXCEPT !.investigations = build_investigations]
      BY <2>1 DEF Investigate
    <3>2. report'.investigations = build_investigations /\ batch' = batch
      BY <3>1 DEF CloseInv, ReportIsCurrent, vars
    <3>3. DOMAIN build_investigations \subseteq Lines
      BY DEF build_investigations
    <3>4. \A l \in DOMAIN build_investigations : build_investigations[l] = investigate(l)
      BY DEF build_investigations
    <3>5. \A l : amount_paise(l)' = amount_paise(l)
      BY <3>1, <3>2 DEF amount_paise
    <3>6. ASSUME NEW l \in DOMAIN report'.investigations, report'.investigations[l].drafted
          PROVE  LET f == report'.investigations[l]
                 IN  /\ \E s \in books.line[l].utrs \cup books.line[l].suffixes :
                          f.variance = amount_paise(l) - batch.net[s]
                     /\ AbsPaise(f.variance - f.delta) <= DriftTolerance
                     /\ f.clearing = -f.delta
      BY <3>2, <3>3, <3>4, <3>6, InvestigationCloses
    <3> QED
      BY <3>1, <3>2, <3>5, <3>6 DEF CorrectionsCloseVariance
  <2>2. CASE /\ report' = report /\ books' = books /\ batch' = batch
             /\ Built' => Built
    <3>1. \A l : amount_paise(l)' = amount_paise(l)
      BY <2>2 DEF amount_paise
    <3> QED
      BY <2>2, <3>1 DEF CorrectionsCloseVariance
  <2>3. CASE stage' \notin {"report", "audited"}
    BY <2>3 DEF CorrectionsCloseVariance, Built
  <2>4. CASE Reconciling \/ PriceFees \/ FailClosed \/ ListExceptions \/ PlanRecovery \/ ProvePackets
    BY <2>3, <2>4 DEF Reconciling, PriceFees, FailClosed, ListExceptions, PlanRecovery, ProvePackets,
       Advance, tail
  <2>5. CASE ReadAudit \/ (\E audit \in BOOLEAN : Issue(audit)) \/ Present \/ UNCHANGED allVars
    BY <2>2, <2>5 DEF ReadAudit, Issue, Present, allVars, tail, vars, Built
  <2> QED
    BY <2>1, <2>4, <2>5 DEF NextClose
<1> QED
  BY <1>1, <1>2, CloseInvariant, PTL DEF CloseSpec

(***************************************************************************)
(* The books: fees, vouchers and the ledger.                               *)
(***************************************************************************)
\* h has the sums of f over a finite family F of finite sets with no member in common.
SumsOf(h, f, L, F) ==
    /\ IsFiniteSet(L)
    /\ \A l \in L : IsFiniteSet(F[l]) /\ h[l] = Total(f, F[l])
    /\ \A l \in L : \A i \in F[l] : f[i] \in Int
    /\ \A l, m \in L : l # m => F[l] \cap F[m] = {}

\* The sum over the members of a family is the sum of their sums.
LEMMA TotalFamily ==
    ASSUME NEW f, NEW L, NEW F, NEW h, SumsOf(h, f, L, F)
    PROVE  Total(h, L) = Total(f, UNION {F[l] : l \in L})
<1> USE DEF SumsOf
<1> DEFINE U(T) == UNION {F[l] : l \in T}
           G == {T \in SUBSET L : IsFiniteSet(U(T)) /\ Total(h, T) = Total(f, U(T))}
<1>0. \A l \in L : h[l] \in Int
  BY TotalType
<1>1. {} \in G
  BY TotalEmpty, FS_EmptySet
<1>2. ASSUME NEW T \in SUBSET L, T # {}, \A x \in T : T \ {x} \in G
      PROVE  T \in G
  <2>1. PICK x \in T : TRUE
    BY <1>2
  <2> DEFINE R == T \ {x}
  <2>2. IsFiniteSet(U(R)) /\ Total(h, R) = Total(f, U(R)) /\ IsFiniteSet(T) /\ IsFiniteSet(F[x])
    BY <1>2, FS_Subset
  <2>3. U(T) = F[x] \cup U(R) /\ F[x] \cap U(R) = {}
    OBVIOUS
  <2>4. \A i \in F[x] \cup U(R) : f[i] \in Int
    OBVIOUS
  <2>5. Total(h, T) = h[x] + Total(h, R)
    BY <1>0, <2>2, TotalRemove
  <2>6. Total(f, F[x] \cup U(R)) = Total(f, F[x]) + Total(f, U(R))
    <3> HIDE DEF U, R
    <3> QED
      BY <2>2, <2>3, <2>4, TotalUnion
  <2>7. IsFiniteSet(U(T))
    <3> DEFINE A == F[x]
               B == U(R)
    <3>1. IsFiniteSet(A) /\ IsFiniteSet(B) /\ U(T) = A \cup B
      BY <2>2, <2>3
    <3> HIDE DEF A, B
    <3>2. IsFiniteSet(A \cup B)
      BY <3>1, FS_Union
    <3> QED
      BY <3>1, <3>2
  <2>8. Total(h, T) = Total(f, U(T))
    <3> HIDE DEF U, R
    <3> QED
      BY <2>2, <2>3, <2>5, <2>6
  <2> QED
    BY <2>7, <2>8
<1>3. SUBSET L \subseteq G
  <2> HIDE DEF G
  <2> QED
    BY <1>1, <1>2, SubsetsIn
<1> QED
  BY <1>3

\* Sums add up term by term.
LEMMA TotalAdd ==
    ASSUME NEW f, NEW g, NEW h, NEW S, IsFiniteSet(S),
           \A i \in S : f[i] \in Int /\ g[i] \in Int /\ h[i] = f[i] + g[i]
    PROVE  Total(h, S) = Total(f, S) + Total(g, S)
<1> DEFINE G == {T \in SUBSET S : Total(h, T) = Total(f, T) + Total(g, T)}
<1>1. {} \in G
  BY TotalEmpty
<1>2. ASSUME NEW T \in SUBSET S, T # {}, \A x \in T : T \ {x} \in G
      PROVE  T \in G
  <2>1. PICK x \in T : TRUE
    BY <1>2
  <2>2. IsFiniteSet(T) /\ IsFiniteSet(T \ {x})
    BY FS_Subset
  <2>3. \A i \in T : f[i] \in Int /\ g[i] \in Int /\ h[i] \in Int
    OBVIOUS
  <2>4. /\ Total(f, T) = f[x] + Total(f, T \ {x})
        /\ Total(g, T) = g[x] + Total(g, T \ {x})
        /\ Total(h, T) = h[x] + Total(h, T \ {x})
    BY <2>2, <2>3, TotalRemove
  <2>5. Total(h, T \ {x}) = Total(f, T \ {x}) + Total(g, T \ {x})
    BY <1>2
  <2>6. Total(f, T \ {x}) \in Int /\ Total(g, T \ {x}) \in Int
    BY <2>2, <2>3, TotalType
  <2>7. f[x] \in Int /\ g[x] \in Int /\ h[x] = f[x] + g[x]
    OBVIOUS
  <2> QED
    BY <2>4, <2>5, <2>6, <2>7
<1>3. SUBSET S \subseteq G
  <2> HIDE DEF G
  <2> QED
    BY <1>1, <1>2, SubsetsIn
<1> QED
  BY <1>3

\* Naturals that add up to nothing are nothing each.
LEMMA TotalNothing ==
    ASSUME NEW f, NEW S, IsFiniteSet(S), \A i \in S : f[i] \in Nat, Total(f, S) = 0, NEW x \in S
    PROVE  f[x] = 0
<1>1. IsFiniteSet(S \ {x}) /\ \A i \in S : f[i] \in Int
  BY FS_Subset
<1>2. Total(f, S) = f[x] + Total(f, S \ {x})
  BY <1>1, TotalRemove
<1>3. Total(f, S \ {x}) \in Nat
  BY <1>1, TotalNat
<1> QED
  BY <1>2, <1>3

\* canonical_row_id tells rows apart, those of the same content too.
LEMMA RowIdsApart ==
    ASSUME CloseInv, NEW i \in Rows, NEW j \in Rows, canonical_row_id(i) = canonical_row_id(j)
    PROVE  i = j
<1> DEFINE Before(k) == {m \in Rows : m < k /\ _row_signature(row(m)) = _row_signature(row(k))}
<1>1. \A k : canonical_row_id(k) = <<_row_signature(row(k)), Cardinality(Before(k))>>
  BY DEF canonical_row_id
<1>2. /\ _row_signature(row(i)) = _row_signature(row(j))
      /\ Cardinality(Before(i)) = Cardinality(Before(j))
  <2> HIDE DEF Before
  <2> QED
    BY <1>1
<1>3. ASSUME NEW k \in Rows, NEW m \in Rows, k < m,
             _row_signature(row(k)) = _row_signature(row(m))
      PROVE  Cardinality(Before(k)) # Cardinality(Before(m))
  <2>1. Rows \in SUBSET Nat /\ IsFiniteSet(Rows)
    BY RowsTyped
  <2>2. k \in Nat /\ m \in Nat
    BY <2>1
  <2>3. k \in Before(m) /\ k \notin Before(k)
    BY <1>3, <2>2
  <2>4. ASSUME NEW n \in Before(k)
        PROVE  n \in Before(m)
    <3>1. n \in Rows /\ n \in Nat /\ n < k
      BY <2>1
    <3>2. n < m
      BY <1>3, <2>2, <3>1
    <3> QED
      BY <1>3, <3>1, <3>2
  <2>5. IsFiniteSet(Before(m))
    BY <2>1, FS_Subset
  <2> HIDE DEF Before
  <2>6. Before(k) \in SUBSET Before(m)
    BY <2>4
  <2> QED
    BY <2>3, <2>5, <2>6, FS_Subset
<1>4. i \in Nat /\ j \in Nat
  BY RowsTyped
<1> HIDE DEF Before
<1> QED
  BY <1>2, <1>3, <1>4

\* The ids of a result lead back to the rows it covers.
LEMMA RowsFound ==
    ASSUME CloseInv, NEW l \in Lines
    PROVE  resolve_covered_rows_by_id(l) = CoveredRows(l) /\ CoveredRows(l) \in SUBSET Rows
<1>1. CoveredRows(l) \in SUBSET Rows
  BY DEF CoveredRows, RowsOf
<1> QED
  BY <1>1, RowIdsApart DEF resolve_covered_rows_by_id, covered_row_ids

\* The credits of a close cover rows apart, and all of them together all that is covered.
LEMMA RowsApart ==
    ASSUME CloseInv
    PROVE  /\ Reconciled \subseteq Lines /\ IsFiniteSet(Reconciled)
           /\ \A l \in Reconciled : CoveredRows(l) \in SUBSET Rows /\ IsFiniteSet(CoveredRows(l))
           /\ \A l, m \in Reconciled : l # m => CoveredRows(l) \cap CoveredRows(m) = {}
           /\ AllCovered = UNION {CoveredRows(l) : l \in Reconciled}
<1>1. Reconciled \subseteq Lines /\ IsFiniteSet(Reconciled)
  BY LinesTyped, FS_Subset DEF Reconciled
<1>2. \A l \in Reconciled : CoveredRows(l) \in SUBSET Rows /\ IsFiniteSet(CoveredRows(l))
  BY <1>1, RowsFound, RowsTyped, FS_Subset
<1>3. \A l, m \in Reconciled : l # m => CoveredRows(l) \cap CoveredRows(m) = {}
  <2>1. \A l, m \in Reconciled : l # m => Members(covered[l]) \cap Members(covered[m]) = {}
    BY <1>1 DEF CloseInv, IInv, OneCreditPerSettlement
  <2> QED
    BY <2>1 DEF CoveredRows, RowsOf
<1>4. AllCovered = UNION {CoveredRows(l) : l \in Reconciled}
  BY DEF AllCovered, CoveredRows
<1> QED
  BY <1>1, <1>2, <1>3, <1>4

\* The GST of the lines is the tax of all rows covered.
LEMMA FeesOfAll ==
    ASSUME CloseInv
    PROVE  fee_gst = Taxes(AllCovered)
<1> DEFINE t == [i \in Rows |-> row(i).tax]
           F == [l \in Reconciled |-> CoveredRows(l)]
           h == [l \in Reconciled |-> Taxes(resolve_covered_rows_by_id(l))]
<1>1. \A i \in Rows : t[i] \in Int
  BY RowsTyped DEF ReconRow
<1>2. \A S \in SUBSET Rows : Taxes(S) = Total(t, S)
  <2> SUFFICES ASSUME NEW S \in SUBSET Rows
               PROVE  Taxes(S) = Total(t, S)
    OBVIOUS
  <2> DEFINE u == [i \in S |-> row(i).tax]
  <2>1. Taxes(S) = Total(u, S)
    BY DEF Taxes, SumOver
  <2>2. \A i \in S : u[i] = t[i]
    OBVIOUS
  <2>3. IsFiniteSet(S)
    BY RowsTyped, FS_Subset
  <2> HIDE DEF t, u
  <2> QED
    BY <2>1, <2>2, <2>3, TotalAgree
<1>3. \A l \in Reconciled : F[l] \in SUBSET Rows /\ IsFiniteSet(F[l])
  BY RowsApart
<1>4. \A l \in Reconciled : h[l] = Total(t, F[l])
  <2> SUFFICES ASSUME NEW l \in Reconciled
               PROVE  h[l] = Total(t, F[l])
    OBVIOUS
  <2>1. l \in Lines
    BY RowsApart
  <2>2. h[l] = Taxes(CoveredRows(l)) /\ F[l] = CoveredRows(l)
    BY <2>1, RowsFound
  <2> HIDE DEF h, F, t
  <2> QED
    BY <1>2, <1>3, <2>2
<1>5. \A l, m \in Reconciled : l # m => F[l] \cap F[m] = {}
  BY RowsApart
<1>6. UNION {F[l] : l \in Reconciled} = AllCovered
  BY RowsApart
<1>7. fee_gst = Total(h, Reconciled)
  BY DEF fee_gst
<1>8. AllCovered \in SUBSET Rows
  BY <1>3, <1>6
<1> HIDE DEF t, F, h
<1>9. \A l \in Reconciled : \A i \in F[l] : t[i] \in Int
  BY <1>1, <1>3
<1>10. IsFiniteSet(Reconciled)
  BY RowsApart
<1>11. Total(h, Reconciled) = Total(t, UNION {F[l] : l \in Reconciled})
  <2>1. SumsOf(h, t, Reconciled, F)
    BY <1>3, <1>4, <1>5, <1>9, <1>10 DEF SumsOf
  <2> QED
    BY <2>1, TotalFamily
<1> QED
  BY <1>2, <1>6, <1>7, <1>8, <1>11

\* The two halves of the input tax of a voucher are the tax of its rows, and the voucher
\* balances.
LEMMA VoucherBalances ==
    ASSUME CloseInv, NEW l \in Reconciled
    PROVE  LET e == JournalEntry(l)
               S == CoveredRows(l)
               mdr == IF _tax_inside_fee(S) THEN Fees(S) - Taxes(S) ELSE Fees(S)
           IN  /\ e.cgst + e.sgst = Taxes(S)
               /\ e.bank + e.rounding + e.mdr + e.cgst + e.sgst = e.clearing
               /\ e.clearing = CoveredNet(covered[l]) + (mdr + Taxes(S))
<1> DEFINE S == CoveredRows(l)
           itc == Taxes(S)
           fee == Fees(S)
           mdr == IF _tax_inside_fee(S) THEN fee - itc ELSE fee
           net == CoveredNet(covered[l])
           amount == amount_paise(l)
           half == itc \div 2
           e == JournalEntry(l)
<1>1. l \in Lines /\ resolve_covered_rows_by_id(l) = S /\ S \in SUBSET Rows
  BY RowsApart, RowsFound
<1>2. /\ e.bank = amount /\ e.rounding = net - amount /\ e.mdr = mdr /\ e.cgst = half
      /\ e.sgst = itc - half /\ e.clearing = net + mdr + itc
  BY <1>1 DEF JournalEntry
<1>3. itc \in Nat /\ fee \in Nat
  BY <1>1, RowSums
<1>4. amount \in Int
  BY <1>1, LinesTyped
<1>5. net \in Int
  <2> DEFINE f == [s \in Settlements |-> covered[l][s] * batch.net[s]]
  <2>1. \A s \in Settlements : covered[l][s] \in Int /\ batch.net[s] \in Int
    BY <1>1 DEF CloseInv, IInv, TypeOK, Batch
  <2>2. \A s \in Settlements : f[s] \in Int
    BY <2>1
  <2>3. net = Total(f, Settlements)
    BY DEF CoveredNet
  <2> HIDE DEF f
  <2> QED
    BY <2>2, <2>3, SettlementsAssumption, TotalType
<1> HIDE DEF itc, fee, amount, net
<1>6. \A n \in Nat : n \div 2 \in Int
  OBVIOUS
<1>7. half \in Int
  BY <1>3, <1>6
<1>8. mdr \in Int
  BY <1>3
<1> HIDE DEF half, mdr, e
<1>9. half + (itc - half) = itc /\ net + mdr + itc = net + (mdr + itc)
  BY <1>3, <1>5, <1>7, <1>8
<1>10. amount + (net - amount) + mdr + half + (itc - half) = net + mdr + itc
  BY <1>3, <1>4, <1>5, <1>7, <1>8
<1>11. /\ e.cgst + e.sgst = itc /\ e.bank + e.rounding + e.mdr + e.cgst + e.sgst = e.clearing
       /\ e.clearing = net + (mdr + itc)
  BY <1>2, <1>9, <1>10
<1> QED
  BY <1>11 DEF itc, fee, net, mdr, e

\* The GST of a report is the input tax of its vouchers.
LEMMA InputTaxAgrees ==
    ASSUME CloseInv, report.journal = build_journal_entries
    PROVE  fee_gst = Total([l \in Reconciled |-> report.journal[l].cgst + report.journal[l].sgst],
                           Reconciled)
<1> DEFINE g == [l \in Reconciled |-> report.journal[l].cgst + report.journal[l].sgst]
           h == [l \in Reconciled |-> Taxes(resolve_covered_rows_by_id(l))]
<1>1. \A l \in Reconciled : h[l] = g[l]
  <2> SUFFICES ASSUME NEW l \in Reconciled
               PROVE  h[l] = g[l]
    OBVIOUS
  <2>1. report.journal[l] = JournalEntry(l)
    BY DEF build_journal_entries
  <2>2. resolve_covered_rows_by_id(l) = CoveredRows(l)
    BY RowsApart, RowsFound
  <2>3. JournalEntry(l).cgst + JournalEntry(l).sgst = Taxes(CoveredRows(l))
    BY VoucherBalances
  <2> QED
    BY <2>1, <2>2, <2>3
<1>2. fee_gst = Total(h, Reconciled)
  BY DEF fee_gst
<1>3. IsFiniteSet(Reconciled)
  BY RowsApart
<1> HIDE DEF g, h
<1>4. Total(h, Reconciled) = Total(g, Reconciled)
  BY <1>1, <1>3, TotalAgree
<1> QED
  BY <1>2, <1>4 DEF g

\* What a result covers, net, is what its rows come to, every row once: none of its
\* settlements is in it twice.
LEMMA NetOfRows ==
    ASSUME CloseInv, NEW l \in Reconciled, Resolvable(l)
    PROVE  CoveredNet(covered[l]) = Nets(CoveredRows(l))
<1> DEFINE f == [i \in Rows |-> net_paise(row(i))]
           R == [s \in Settlements |-> IF s \in Members(covered[l]) THEN RowsOf(s) ELSE {}]
           h == [s \in Settlements |-> covered[l][s] * batch.net[s]]
<1>0. l \in Lines /\ covered[l] \in [Settlements -> 0 .. 3]
  BY RowsApart DEF CloseInv, IInv, TypeOK
<1>1. \A i \in Rows : f[i] \in Int
  BY RowsTyped
<1>2. \A s \in Settlements : R[s] \in SUBSET Rows /\ IsFiniteSet(R[s]) /\ IsFiniteSet(RowsOf(s))
  <2>1. \A s : RowsOf(s) \in SUBSET Rows
    BY DEF RowsOf
  <2>2. \A T \in SUBSET Rows : IsFiniteSet(T)
    BY RowsTyped, FS_Subset
  <2> QED
    BY <2>1, <2>2
<1>3. \A s \in Settlements : h[s] = Total(f, R[s])
  <2> SUFFICES ASSUME NEW s \in Settlements
               PROVE  h[s] = Total(f, R[s])
    OBVIOUS
  <2> DEFINE n == Total(f, RowsOf(s))
             c == covered[l][s]
  <2>1. batch.net[s] = n /\ h[s] = c * batch.net[s]
    BY BooksGiven
  <2>2. c \in 0 .. 3 /\ (s \in Members(covered[l]) <=> c > 0)
    BY <1>0 DEF Members
  <2>3. n \in Int
    <3>1. \A i \in RowsOf(s) : f[i] \in Int
      BY <1>1 DEF RowsOf
    <3> HIDE DEF f
    <3> QED
      BY <1>2, <3>1, TotalType
  <2>4. RowsOf(s) = {} => n = 0
    <3> HIDE DEF f
    <3> QED
      BY TotalEmpty
  <2>5. c > 1 => RowsOf(s) = {}
    BY DEF Resolvable, HasDuplicateIds
  <2> HIDE DEF n, c, h, f
  <2>6. CASE c = 0
    <3>1. R[s] = {}
      BY <2>2, <2>6
    <3>2. h[s] = 0
      BY <2>1, <2>3, <2>6
    <3> QED
      BY <3>1, <3>2, TotalEmpty
  <2>7. CASE c = 1
    <3>1. R[s] = RowsOf(s)
      BY <2>2, <2>7
    <3>2. h[s] = n
      BY <2>1, <2>3, <2>7
    <3> QED
      BY <3>1, <3>2 DEF n
  <2>8. CASE c > 1
    <3>1. R[s] = {}
      BY <2>5, <2>8
    <3>2. h[s] = 0
      BY <2>1, <2>2, <2>4, <2>5, <2>8
    <3> QED
      BY <3>1, <3>2, TotalEmpty
  <2> QED
    BY <2>2, <2>6, <2>7, <2>8
<1>4. \A s, t \in Settlements : s # t => R[s] \cap R[t] = {}
  BY DEF RowsOf
<1>5. UNION {R[s] : s \in Settlements} = CoveredRows(l)
  BY <1>0 DEF CoveredRows, Members
<1>6. CoveredNet(covered[l]) = Total(h, Settlements)
  BY DEF CoveredNet
<1>7. Nets(CoveredRows(l)) = Total(f, CoveredRows(l))
  <2> DEFINE u == [i \in CoveredRows(l) |-> net_paise(row(i))]
  <2>1. Nets(CoveredRows(l)) = Total(u, CoveredRows(l))
    BY DEF Nets, SumOver
  <2>2. CoveredRows(l) \in SUBSET Rows /\ IsFiniteSet(CoveredRows(l))
    BY RowsApart
  <2>3. \A i \in CoveredRows(l) : u[i] = f[i]
    BY <2>2
  <2> HIDE DEF u, f
  <2> QED
    BY <2>1, <2>2, <2>3, TotalAgree
<1> HIDE DEF f, R, h
<1>8. \A s \in Settlements : \A i \in R[s] : f[i] \in Int
  BY <1>1, <1>2
<1>9. Total(h, Settlements) = Total(f, UNION {R[s] : s \in Settlements})
  <2>1. SumsOf(h, f, Settlements, R)
    BY <1>2, <1>3, <1>4, <1>8, SettlementsAssumption DEF SumsOf
  <2> QED
    BY <2>1, TotalFamily
<1> QED
  BY <1>5, <1>6, <1>7, <1>9

\* If the tax of all rows is in the fee, the code finds that it is; if it is on top of it, the
\* code finds so unless it makes no difference.
LEMMA ConventionFound ==
    ASSUME CloseInv, NEW S \in SUBSET Rows, OneConvention(S)
    PROVE  \A i \in S : IF row(i).type = "payment"
                        THEN row(i).credit = row(i).amount - row(i).fee -
                                (IF _tax_inside_fee(S) THEN 0 ELSE row(i).tax)
                        ELSE ~_tax_inside_fee(S) => row(i).tax = 0
<1> DEFINE pays == {i \in S : row(i).type = "payment" /\ (row(i).fee # 0 \/ row(i).tax # 0)}
           c == [i \in pays |-> row(i).credit]
           a == [i \in pays |-> row(i).amount]
           f == [i \in pays |-> row(i).fee]
           t == [i \in pays |-> row(i).tax]
           credit == Total(c, pays)
           amount == Total(a, pays)
           fee == Total(f, pays)
           tax == Total(t, pays)
<1>1. _tax_inside_fee(S) <=> \/ pays = {}
                             \/ AbsPaise(credit - (amount - fee)) <= AbsPaise(credit - ((amount - fee) - tax))
  BY DEF _tax_inside_fee, SumOver, Amounts, Fees, Taxes
<1>2. \A i \in S : /\ row(i).credit \in Nat /\ row(i).amount \in Nat /\ row(i).fee \in Nat
                   /\ row(i).tax \in Nat
  BY RowsTyped DEF ReconRow
<1>3. \A i \in pays : c[i] \in Nat /\ a[i] \in Nat /\ f[i] \in Nat /\ t[i] \in Nat
  BY <1>2
<1>4. IsFiniteSet(pays)
  BY RowsTyped, FS_Subset
<1> HIDE DEF pays
<1>5. credit \in Nat /\ amount \in Nat /\ fee \in Nat /\ tax \in Nat
  <2> HIDE DEF c, a, f, t
  <2> QED
    BY <1>3, <1>4, TotalNat
<1>6. CASE \A i \in S : row(i).type = "payment" => row(i).credit = row(i).amount - row(i).fee
  <2>1. amount = credit + fee
    <3>1. \A i \in pays : c[i] \in Int /\ f[i] \in Int /\ a[i] = c[i] + f[i]
      BY <1>2, <1>6 DEF pays
    <3> HIDE DEF c, a, f
    <3> QED
      BY <1>4, <3>1, TotalAdd
  <2> HIDE DEF c, a, f, t, credit, amount, fee, tax
  <2>2. credit - (amount - fee) = 0
    BY <1>5, <2>1
  <2>3. AbsPaise(0) = 0 /\ AbsPaise(credit - ((amount - fee) - tax)) >= 0
    BY <1>5 DEF AbsPaise
  <2>4. _tax_inside_fee(S)
    BY <1>1, <2>2, <2>3
  <2> QED
    BY <1>2, <1>6, <2>4
<1>7. CASE \A i \in S : IF row(i).type = "payment"
                     THEN row(i).credit = row(i).amount - row(i).fee - row(i).tax
                     ELSE row(i).tax = 0
  <2>1. amount = (credit + fee) + tax
    <3> DEFINE k == [i \in pays |-> row(i).credit + row(i).fee]
    <3>1. \A i \in pays : /\ c[i] \in Int /\ f[i] \in Int /\ t[i] \in Int /\ k[i] \in Int
                          /\ k[i] = c[i] + f[i] /\ a[i] = k[i] + t[i]
      BY <1>2, <1>7 DEF pays
    <3> HIDE DEF c, a, f, t, k
    <3>2. Total(k, pays) = credit + fee
      BY <1>4, <3>1, TotalAdd
    <3>3. Total(a, pays) = Total(k, pays) + tax
      BY <1>4, <3>1, TotalAdd
    <3> QED
      BY <3>2, <3>3
  <2>2. ASSUME _tax_inside_fee(S), NEW i \in S
        PROVE  row(i).type = "payment" => row(i).tax = 0
    <3>1. CASE i \notin pays
      BY <3>1 DEF pays
    <3>2. CASE i \in pays
      <4>1. tax = 0
        <5> HIDE DEF c, a, f, t, credit, amount, fee, tax
        <5>1. AbsPaise(credit - (amount - fee)) <= AbsPaise(credit - ((amount - fee) - tax))
          BY <1>1, <2>2, <3>2
        <5>2. credit - ((amount - fee) - tax) = 0 /\ credit - (amount - fee) = -tax
          BY <1>5, <2>1
        <5> QED
          BY <1>5, <5>1, <5>2 DEF AbsPaise
      <4>2. t[i] = row(i).tax
        BY <3>2
      <4> HIDE DEF t
      <4>3. t[i] = 0
        BY <1>3, <1>4, <3>2, <4>1, TotalNothing
      <4> QED
        BY <4>2, <4>3
    <3> QED
      BY <3>1, <3>2
  <2> HIDE DEF c, a, f, t, credit, amount, fee, tax
  <2>3. CASE _tax_inside_fee(S)
    <3> SUFFICES ASSUME NEW i \in S, row(i).type = "payment"
                 PROVE  row(i).credit = row(i).amount - row(i).fee - 0
      BY <2>3
    <3>1. row(i).tax = 0 /\ row(i).credit = row(i).amount - row(i).fee - row(i).tax
      BY <1>7, <2>2, <2>3
    <3> QED
      BY <1>2, <3>1
  <2>4. CASE ~_tax_inside_fee(S)
    BY <1>7, <2>4
  <2> QED
    BY <2>3, <2>4
<1> QED
  BY <1>6, <1>7 DEF OneConvention

\* A voucher relieves clearing of the gross of its payments less what was deducted.
LEMMA ClearingIsGross ==
    ASSUME CloseInv, NEW l \in Reconciled, Resolvable(l), OneConvention(CoveredRows(l))
    PROVE  JournalEntry(l).clearing =
             SumOver(CoveredRows(l), LAMBDA r : IF r.type = "payment" THEN r.amount - r.debit
                                                ELSE net_paise(r) + r.fee)
<1> DEFINE S == CoveredRows(l)
           inside == _tax_inside_fee(S)
           n == [i \in S |-> net_paise(row(i))]
           f == [i \in S |-> row(i).fee]
           t == [i \in S |-> row(i).tax]
           x == [i \in S |-> IF inside THEN 0 ELSE row(i).tax]
           u == [i \in S |-> row(i).fee + x[i]]
           g == [i \in S |-> IF row(i).type = "payment" THEN row(i).amount - row(i).debit
                             ELSE net_paise(row(i)) + row(i).fee]
           fee == Fees(S)
           tax == Taxes(S)
           mdr == IF inside THEN fee - tax ELSE fee
<1>1. S \in SUBSET Rows /\ IsFiniteSet(S)
  BY RowsApart
<1>2. \A i \in S : row(i) \in ReconRow
  BY <1>1, RowsTyped
<1>3. \A i \in S : IF row(i).type = "payment"
                   THEN row(i).credit = row(i).amount - row(i).fee - x[i]
                   ELSE x[i] = 0
  <2>1. \A i \in S : x[i] = IF inside THEN 0 ELSE row(i).tax
    OBVIOUS
  <2> HIDE DEF x
  <2> QED
    BY <1>1, <2>1, ConventionFound
<1>4. \A i \in S : x[i] \in Int /\ n[i] \in Int /\ f[i] \in Int /\ t[i] \in Int /\ u[i] \in Int
  BY <1>2 DEF ReconRow, net_paise
<1>5. \A i \in S : g[i] = n[i] + u[i]
  <2> SUFFICES ASSUME NEW i \in S
               PROVE  g[i] = n[i] + u[i]
    OBVIOUS
  <2>1. row(i).credit \in Nat /\ row(i).debit \in Nat /\ row(i).amount \in Nat /\ row(i).fee \in Nat
    BY <1>2 DEF ReconRow
  <2>2. n[i] = row(i).credit - row(i).debit /\ u[i] = row(i).fee + x[i] /\ x[i] \in Int
    BY <1>4 DEF net_paise
  <2>3. g[i] = IF row(i).type = "payment" THEN row(i).amount - row(i).debit
               ELSE (row(i).credit - row(i).debit) + row(i).fee
    BY DEF net_paise
  <2> HIDE DEF x, n, u, g
  <2> QED
    BY <1>3, <2>1, <2>2, <2>3
<1>6. \A i \in S : u[i] = f[i] + x[i]
  OBVIOUS
<1>7. fee = Total(f, S) /\ tax = Total(t, S) /\ Nets(S) = Total(n, S)
  BY DEF Fees, Taxes, Nets, SumOver
<1>8. SumOver(S, LAMBDA r : IF r.type = "payment" THEN r.amount - r.debit
                             ELSE net_paise(r) + r.fee) = Total(g, S)
  BY DEF SumOver
<1>9. fee \in Nat /\ tax \in Nat
  BY <1>1, RowSums
<1>10. Total(x, S) = IF inside THEN 0 ELSE tax
  <2>1. CASE inside
    <3>1. \A i \in S : x[i] \in Int /\ x[i] = x[i] + x[i]
      BY <2>1
    <3> HIDE DEF x
    <3>2. Total(x, S) = Total(x, S) + Total(x, S)
      BY <1>1, <3>1, TotalAdd
    <3>3. Total(x, S) \in Int
      BY <1>1, <3>1, TotalType
    <3>4. \A z \in Int : z = z + z => z = 0
      OBVIOUS
    <3> HIDE DEF inside, tax
    <3> QED
      BY <2>1, <3>2, <3>3, <3>4
  <2>2. CASE ~inside
    <3>1. \A i \in S : x[i] = t[i]
      BY <2>2
    <3> HIDE DEF x, t
    <3>2. Total(x, S) = Total(t, S)
      BY <1>1, <3>1, TotalAgree
    <3> QED
      BY <1>7, <2>2, <3>2
  <2> QED
    BY <2>1, <2>2
<1>11. JournalEntry(l).clearing = Nets(S) + (mdr + tax)
  <2>1. JournalEntry(l).clearing = CoveredNet(covered[l]) + (mdr + tax)
    BY VoucherBalances
  <2> QED
    BY <2>1, NetOfRows
<1> HIDE DEF n, f, t, x, u, g, fee, tax, inside
<1>12. Total(g, S) = Total(n, S) + Total(u, S)
  BY <1>1, <1>4, <1>5, TotalAdd
<1>13. Total(u, S) = Total(f, S) + Total(x, S)
  BY <1>1, <1>4, <1>6, TotalAdd
<1>14. mdr + tax = Total(u, S)
  BY <1>7, <1>9, <1>10, <1>13
<1> QED
  BY <1>7, <1>8, <1>11, <1>12, <1>14

\* The ledger is told of a wrong amount for a reason.
LEMMA WrongAmountsAreWrong ==
    ASSUME CloseInv, NEW o \in LedgerFindings.amount,
           \A i \in Payments(AllCovered, o), j \in Rows : Key(i) = Key(j) => i = j
    PROVE  \E b \in Bookings(o) :
              AbsPaise(books.ledger[b].amount - Amounts(Payments(AllCovered, o))) > DriftTolerance
<1>1. LedgerFindings = reconcile_ledger
  BY DEF LedgerFindings, NoFindings
<1>2. /\ Cardinality(Bookings(o)) = 1
      /\ AbsPaise(books.ledger[CHOOSE b \in Bookings(o) : TRUE].amount
                    - Amounts(Payments(LedgerRows, o))) > DriftTolerance
  BY <1>1 DEF reconcile_ledger
<1>3. Payments(LedgerRows, o) = Payments(AllCovered, o)
  <2>1. LedgerRows = {i \in AllCovered : \A j \in Rows : Key(j) = Key(i) => j = i}
    BY RowsApart DEF LedgerRows
  <2> QED
    BY <2>1 DEF Payments
<1>4. Bookings(o) # {}
  <2>1. Cardinality({}) = 0
    BY FS_EmptySet
  <2> QED
    BY <1>2, <2>1
<1> DEFINE b == CHOOSE b \in Bookings(o) : TRUE
<1>5. b \in Bookings(o)
  BY <1>4
<1> HIDE DEF b
<1> QED
  BY <1>2, <1>3, <1>5 DEF b

\* The books agree in every report that build_report completes: the GST of the matched fees is
\* the tax of the rows covered, each once, and the input tax of the vouchers; every voucher
\* balances, and relieves clearing of the gross of its payments less the deductions; and the
\* ledger is told of a wrong amount only where the payments covered differ from the booking.
THEOREM BooksAgreeAlways == CloseSpec => []BooksAgree
<1>1. CloseInv => BooksAgree
  <2> SUFFICES ASSUME CloseInv, Built PROVE BooksAgree
    BY DEF BooksAgree
  <2>1. /\ report.fee_gst = fee_gst /\ report.ledger = LedgerFindings
        /\ report.journal = build_journal_entries
        /\ \A l \in Reconciled : Resolvable(l)
    BY DEF CloseInv, ReportIsCurrent, Built, Listed, Planned, Packed
  <2>2. report.fee_gst = Taxes(AllCovered)
    BY <2>1, FeesOfAll
  <2>3. report.fee_gst =
          Total([l \in Reconciled |-> report.journal[l].cgst + report.journal[l].sgst], Reconciled)
    BY <2>1, InputTaxAgrees
  <2>4. ASSUME NEW l \in Reconciled
        PROVE  LET e == report.journal[l]
                   S == UNION {RowsOf(s) : s \in Members(covered[l])}
               IN  /\ e.bank + e.rounding + e.mdr + e.cgst + e.sgst = e.clearing
                   /\ OneConvention(S) => e.clearing =
                        SumOver(S, LAMBDA r : IF r.type = "payment" THEN r.amount - r.debit
                                              ELSE net_paise(r) + r.fee)
    <3>1. report.journal[l] = JournalEntry(l)
      BY <2>1 DEF build_journal_entries
    <3>2. UNION {RowsOf(s) : s \in Members(covered[l])} = CoveredRows(l)
      BY DEF CoveredRows
    <3>3. JournalEntry(l).bank + JournalEntry(l).rounding + JournalEntry(l).mdr
            + JournalEntry(l).cgst + JournalEntry(l).sgst = JournalEntry(l).clearing
      BY VoucherBalances
    <3>4. OneConvention(CoveredRows(l)) => JournalEntry(l).clearing =
                        SumOver(CoveredRows(l), LAMBDA r : IF r.type = "payment" THEN r.amount - r.debit
                                              ELSE net_paise(r) + r.fee)
      BY <2>1, ClearingIsGross
    <3> QED
      BY <3>1, <3>2, <3>3, <3>4
  <2>5. ASSUME NEW o \in report.ledger.amount
        PROVE  LET all == Payments(AllCovered, o)
               IN  (\A i \in all, j \in Rows : Key(i) = Key(j) => i = j)
                   => \E b \in Bookings(o) : AbsPaise(books.ledger[b].amount - Amounts(all)) > DriftTolerance
    BY <2>1, WrongAmountsAreWrong
  <2> QED
    BY <2>2, <2>3, <2>4, <2>5 DEF BooksAgree
<1> QED
  BY <1>1, CloseInvariant, PTL

(***************************************************************************)
(* The recovery plan.                                                      *)
(***************************************************************************)
\* The accumulators of the merging of windows w, one after another.
Merges(g, w, n) == g = [k \in 0 .. n |-> IF k = 0 THEN <<>> ELSE AddWindow(g[k - 1], w[k])]

\* There are such accumulators, however many windows there are.
LEMMA MergesExist ==
    ASSUME NEW w, NEW n \in Nat
    PROVE  \E g : Merges(g, w, n)
<1> DEFINE G == {m \in Nat : \E g : Merges(g, w, m)}
<1>1. 0 \in G
  <2> DEFINE g == [k \in 0 .. 0 |-> <<>>]
  <2>1. Merges(g, w, 0)
    BY DEF Merges
  <2> QED
    BY <2>1
<1>2. ASSUME NEW m \in Nat, m \in G
      PROVE  m + 1 \in G
  <2>1. PICK g : Merges(g, w, m)
    BY <1>2
  <2> DEFINE h == [k \in 0 .. m + 1 |-> IF k = m + 1 THEN AddWindow(g[m], w[m + 1]) ELSE g[k]]
  <2>2. \A k \in 0 .. m : g[k] = IF k = 0 THEN <<>> ELSE AddWindow(g[k - 1], w[k])
    BY <2>1 DEF Merges
  <2>3. ASSUME NEW k \in 0 .. m + 1
        PROVE  h[k] = IF k = 0 THEN <<>> ELSE AddWindow(h[k - 1], w[k])
    <3>1. CASE k = m + 1
      <4>1. k # 0 /\ k - 1 = m /\ m \in 0 .. m + 1 /\ m # m + 1
        BY <3>1
      <4>2. h[m] = g[m] /\ h[k] = AddWindow(g[m], w[m + 1])
        BY <3>1, <4>1
      <4> HIDE DEF h
      <4> QED
        BY <3>1, <4>1, <4>2
    <3>2. CASE k # m + 1
      <4>1. k \in 0 .. m
        BY <3>2
      <4>2. h[k] = g[k]
        BY <3>2
      <4>3. k # 0 => h[k - 1] = g[k - 1]
        <5>1. k # 0 => k - 1 \in 0 .. m + 1 /\ k - 1 # m + 1
          BY <4>1
        <5> QED
          BY <5>1
      <4> HIDE DEF h
      <4> QED
        BY <2>2, <4>1, <4>2, <4>3
    <3> QED
      BY <3>1, <3>2
  <2>4. h = [k \in 0 .. m + 1 |-> h[k]]
    OBVIOUS
  <2> HIDE DEF h
  <2>5. Merges(h, w, m + 1)
    BY <2>3, <2>4 DEF Merges
  <2> QED
    BY <2>5
<1>3. Nat \subseteq G
  <2> HIDE DEF G
  <2> QED
    BY <1>1, <1>2, NaturalsIn
<1> QED
  BY <1>3

\* MergeWindows has the last of the accumulators: all windows merged.
LEMMA MergeIs ==
    ASSUME NEW w, Len(w) \in Nat
    PROVE  \E g : Merges(g, w, Len(w)) /\ MergeWindows(w) = g[Len(w)]
<1> DEFINE g == CHOOSE g : Merges(g, w, Len(w))
<1>1. \E h : Merges(h, w, Len(w))
  BY MergesExist
<1>2. Merges(g, w, Len(w))
  BY <1>1
<1>3. MergeWindows(w) = g[Len(w)]
  BY DEF MergeWindows, Merges
<1> HIDE DEF g
<1> QED
  BY <1>2, <1>3

\* A request to export the settlement report for some lines and days.
ExportWindow ==
    [params : [type : {"export_settlement_report"}, from : Int, to : Int, amount : {0}, ref : {None}],
     resolves : SUBSET Exports]

\* The days of a request cover the window around every line that it is to resolve.
Covers(win) ==
    \A l \in win.resolves : /\ win.params.from <= books.line[l].date - EXPORT_WINDOW
                            /\ win.params.to >= books.line[l].date + EXPORT_WINDOW

\* What has been merged of the first k lines in the order of their windows.
Gathers(acc, order, k) ==
    /\ acc \in Seq(ExportWindow)
    /\ \A j \in 1 .. Len(acc) : acc[j].resolves # {} /\ Covers(acc[j])
    /\ \A i, j \in 1 .. Len(acc) : i # j => acc[i].resolves \cap acc[j].resolves = {}
    /\ \A l : (\E j \in 1 .. Len(acc) : l \in acc[j].resolves) <=> (\E i \in 1 .. k : l = order[i])
    /\ \A j \in 1 .. Len(acc) : \E i \in 1 .. k : acc[j].params.from = Window(order[i]).params.from

\* The window of an export line.
LEMMA WindowIs ==
    ASSUME CloseInv, NEW l \in Exports
    PROVE  /\ Window(l) \in ExportWindow /\ Window(l).resolves = {l} /\ Covers(Window(l))
           /\ Window(l).params.from \in Int
<1>1. l \in Lines /\ _map_blocking_to_action(l).type = "export_settlement_report"
  BY DEF Exports, Unresolved
<1>2. books.line[l].date \in Int /\ EXPORT_WINDOW \in Nat
  BY <1>1, LinesTyped, RecoveryAssumption DEF BankCreditLine
<1>3. _map_blocking_to_action(l) =
        [type |-> "export_settlement_report", from |-> books.line[l].date - EXPORT_WINDOW,
         to |-> books.line[l].date + EXPORT_WINDOW, amount |-> 0, ref |-> None]
  BY <1>1 DEF _map_blocking_to_action
<1>4. Window(l) = [params |-> _map_blocking_to_action(l), resolves |-> {l}]
  BY DEF Window
<1> QED
  BY <1>2, <1>3, <1>4 DEF ExportWindow, Covers

\* What merging a window into the last one makes of it.
LEMMA MergedIs ==
    ASSUME NEW last \in ExportWindow, NEW item \in ExportWindow
    PROVE  LET m == Merged(last, item)
           IN  /\ m \in ExportWindow /\ m.resolves = last.resolves \cup item.resolves
               /\ m.params.from = last.params.from
               /\ m.params.to >= last.params.to /\ m.params.to >= item.params.to
<1> DEFINE m == Merged(last, item)
<1>1. m = [last EXCEPT !.params.to = IF item.params.to > @ THEN item.params.to ELSE @,
                       !.resolves = @ \cup item.resolves]
  BY DEF Merged
<1> HIDE DEF m
<1>2. m \in ExportWindow
  BY <1>1 DEF ExportWindow
<1>3. /\ m.params = [last.params EXCEPT !.to = IF item.params.to > @ THEN item.params.to ELSE @]
      /\ m.resolves = last.resolves \cup item.resolves
  BY <1>1 DEF ExportWindow
<1>4. /\ m.params.from = last.params.from
      /\ m.params.to = IF item.params.to > last.params.to THEN item.params.to ELSE last.params.to
      /\ last.params.to \in Int /\ item.params.to \in Int
  BY <1>3 DEF ExportWindow
<1> QED
  BY <1>2, <1>3, <1>4 DEF m

\* One more window: it extends the last one or is added after it.
LEMMA OneMoreWindow ==
    ASSUME CloseInv, NEW order, NEW k \in Nat, NEW acc, Gathers(acc, order, k),
           order[k + 1] \in Exports, \A i \in 1 .. k : order[i] \in Exports,
           \A i \in 1 .. k : order[i] # order[k + 1] /\
                Window(order[i]).params.from <= Window(order[k + 1]).params.from
    PROVE  Gathers(AddWindow(acc, Window(order[k + 1])), order, k + 1)
<1> DEFINE l == order[k + 1]
           item == Window(l)
           n == Len(acc)
           last == acc[n]
<1>1. item \in ExportWindow /\ item.resolves = {l} /\ Covers(item) /\ item.params.from \in Int
  BY WindowIs
<1>2. acc \in Seq(ExportWindow) /\ n \in Nat /\ \A j \in 1 .. n : acc[j] \in ExportWindow
  BY DEF Gathers
<1>3. \A j \in 1 .. n : /\ l \notin acc[j].resolves
                        /\ acc[j].params.from \in Int
                        /\ acc[j].params.from <= item.params.from
  <2> SUFFICES ASSUME NEW j \in 1 .. n
               PROVE  /\ l \notin acc[j].resolves
                      /\ acc[j].params.from \in Int
                      /\ acc[j].params.from <= item.params.from
    OBVIOUS
  <2>1. \A x \in acc[j].resolves : \E i \in 1 .. k : x = order[i]
    BY DEF Gathers
  <2>2. PICK i \in 1 .. k : acc[j].params.from = Window(order[i]).params.from
    BY DEF Gathers
  <2>3. Window(order[i]).params.from \in Int
    BY WindowIs
  <2> QED
    BY <2>1, <2>2, <2>3
<1>4. \A x : (\E i \in 1 .. k + 1 : x = order[i]) <=> (\E i \in 1 .. k : x = order[i]) \/ x = l
  <2>1. \A i \in 1 .. k + 1 : i \in 1 .. k \/ i = k + 1
    OBVIOUS
  <2>2. k + 1 \in 1 .. k + 1 /\ \A i \in 1 .. k : i \in 1 .. k + 1
    OBVIOUS
  <2> QED
    BY <2>1, <2>2
<1> HIDE DEF l, item
<1>5. CASE acc # <<>> /\ last.params.to >= item.params.from
  <2> DEFINE m == Merged(last, item)
             new == [acc EXCEPT ![n] = m]
  <2>1. n \in 1 .. n
    BY <1>2, <1>5
  <2>2. last \in ExportWindow /\ last.resolves # {} /\ Covers(last)
    BY <1>2, <2>1 DEF Gathers
  <2>3. /\ m \in ExportWindow /\ m.resolves = last.resolves \cup {l}
        /\ m.params.from = last.params.from
        /\ m.params.to >= last.params.to /\ m.params.to >= item.params.to
    BY <1>1, <2>2, MergedIs
  <2>4. Covers(m)
    <3>1. \A x \in Exports : books.line[x].date \in Int
      BY LinesTyped DEF Exports, Unresolved, BankCreditLine
    <3>2. /\ m.params.from \in Int /\ m.params.to \in Int /\ last.params.from \in Int
          /\ last.params.to \in Int /\ item.params.from \in Int /\ item.params.to \in Int
          /\ m.resolves \subseteq Exports
      BY <1>1, <2>2, <2>3 DEF ExportWindow
    <3>3. last.params.from <= item.params.from
      BY <1>3, <2>1
    <3> HIDE DEF m, last
    <3> SUFFICES ASSUME NEW x \in m.resolves
                 PROVE  /\ m.params.from <= books.line[x].date - EXPORT_WINDOW
                        /\ m.params.to >= books.line[x].date + EXPORT_WINDOW
      BY DEF Covers
    <3>4. books.line[x].date \in Int /\ EXPORT_WINDOW \in Nat
      BY <3>1, <3>2, RecoveryAssumption
    <3>5. \/ /\ last.params.from <= books.line[x].date - EXPORT_WINDOW
             /\ last.params.to >= books.line[x].date + EXPORT_WINDOW
          \/ /\ item.params.from <= books.line[x].date - EXPORT_WINDOW
             /\ item.params.to >= books.line[x].date + EXPORT_WINDOW
      BY <1>1, <2>2, <2>3 DEF Covers
    <3> QED
      BY <2>3, <3>2, <3>3, <3>4, <3>5
  <2> HIDE DEF m, last
  <2>5. AddWindow(acc, item) = new
    BY <1>5 DEF AddWindow, m, last
  <2>6. new \in Seq(ExportWindow) /\ Len(new) = n
    BY <1>2, <2>1, <2>3
  <2>7. \A j \in 1 .. n : new[j] = IF j = n THEN m ELSE acc[j]
    BY <1>2, <2>1
  <2> HIDE DEF new
  <2>8. \A j \in 1 .. n : new[j].resolves # {} /\ Covers(new[j])
    BY <2>2, <2>3, <2>4, <2>7 DEF Gathers
  <2>9. \A i, j \in 1 .. n : i # j => new[i].resolves \cap new[j].resolves = {}
    <3>1. \A i, j \in 1 .. n : i # j => acc[i].resolves \cap acc[j].resolves = {}
      BY DEF Gathers
    <3> QED
      BY <1>3, <2>1, <2>3, <2>7, <3>1 DEF last
  <2>10. \A x : (\E j \in 1 .. n : x \in new[j].resolves) <=> (\E i \in 1 .. k + 1 : x = order[i])
    <3>1. \A x : (\E j \in 1 .. n : x \in new[j].resolves)
                   <=> (\E j \in 1 .. n : x \in acc[j].resolves) \/ x = l
      BY <2>1, <2>3, <2>7 DEF last
    <3>2. \A x : (\E j \in 1 .. n : x \in acc[j].resolves) <=> (\E i \in 1 .. k : x = order[i])
      BY DEF Gathers
    <3> SUFFICES ASSUME NEW x
                 PROVE  (\E j \in 1 .. n : x \in new[j].resolves)
                          <=> (\E i \in 1 .. k + 1 : x = order[i])
      OBVIOUS
    <3> DEFINE A == \E j \in 1 .. n : x \in new[j].resolves
               B == \E j \in 1 .. n : x \in acc[j].resolves
               C == \E i \in 1 .. k : x = order[i]
               D == \E i \in 1 .. k + 1 : x = order[i]
    <3>4. (A <=> B \/ x = l) /\ (B <=> C) /\ (D <=> C \/ x = l)
      BY <1>4, <3>1, <3>2
    <3> HIDE DEF A, B, C, D
    <3>5. A <=> D
      BY <3>4
    <3> QED
      BY <3>5 DEF A, D
  <2>11. \A j \in 1 .. n : \E i \in 1 .. k + 1 : new[j].params.from = Window(order[i]).params.from
    <3> SUFFICES ASSUME NEW j \in 1 .. n
                 PROVE  \E i \in 1 .. k + 1 : new[j].params.from = Window(order[i]).params.from
      OBVIOUS
    <3>1. new[j].params.from = acc[j].params.from
      BY <2>3, <2>7 DEF last
    <3>2. PICK i \in 1 .. k : acc[j].params.from = Window(order[i]).params.from
      BY DEF Gathers
    <3> QED
      BY <3>1, <3>2
  <2>12. Gathers(new, order, k + 1)
    BY <2>6, <2>8, <2>9, <2>10, <2>11 DEF Gathers
  <2> QED
    BY <2>5, <2>12 DEF item, l
<1>6. CASE ~(acc # <<>> /\ last.params.to >= item.params.from)
  <2> DEFINE new == Append(acc, item)
  <2>1. AddWindow(acc, item) = new
    BY <1>6 DEF AddWindow
  <2>2. new \in Seq(ExportWindow) /\ Len(new) = n + 1
    BY <1>1, <1>2
  <2>3. \A j \in 1 .. n + 1 : new[j] = IF j = n + 1 THEN item ELSE acc[j]
    BY <1>1, <1>2
  <2>4. \A j \in 1 .. n + 1 : j = n + 1 \/ j \in 1 .. n
    BY <1>2
  <2> HIDE DEF new
  <2>5. \A j \in 1 .. n + 1 : new[j].resolves # {} /\ Covers(new[j])
    BY <1>1, <2>3, <2>4 DEF Gathers
  <2>6. \A i, j \in 1 .. n + 1 : i # j => new[i].resolves \cap new[j].resolves = {}
    <3>1. \A i, j \in 1 .. n : i # j => acc[i].resolves \cap acc[j].resolves = {}
      BY DEF Gathers
    <3>2. \A j \in 1 .. n : new[j] = acc[j] /\ acc[j].resolves \cap item.resolves = {}
      <4>1. \A j \in 1 .. n : j \in 1 .. n + 1 /\ j # n + 1
        BY <1>2
      <4>2. \A j \in 1 .. n : new[j] = acc[j]
        BY <2>3, <4>1
      <4> QED
        BY <1>1, <1>3, <4>2
    <3>3. new[n + 1] = item
      <4>1. n + 1 \in 1 .. n + 1
        BY <1>2
      <4> QED
        BY <2>3, <4>1
    <3> QED
      BY <2>4, <3>1, <3>2, <3>3
  <2>7. \A x : (\E j \in 1 .. n + 1 : x \in new[j].resolves) <=> (\E i \in 1 .. k + 1 : x = order[i])
    <3>1. n + 1 \in 1 .. n + 1 /\ \A j \in 1 .. n : j \in 1 .. n + 1 /\ j # n + 1
      BY <1>2
    <3>2. \A x : (\E j \in 1 .. n + 1 : x \in new[j].resolves)
                   <=> (\E j \in 1 .. n : x \in acc[j].resolves) \/ x = l
      BY <1>1, <2>3, <2>4, <3>1
    <3>3. \A x : (\E j \in 1 .. n : x \in acc[j].resolves) <=> (\E i \in 1 .. k : x = order[i])
      BY DEF Gathers
    <3> SUFFICES ASSUME NEW x
                 PROVE  (\E j \in 1 .. n + 1 : x \in new[j].resolves)
                          <=> (\E i \in 1 .. k + 1 : x = order[i])
      OBVIOUS
    <3> DEFINE A == \E j \in 1 .. n + 1 : x \in new[j].resolves
               B == \E j \in 1 .. n : x \in acc[j].resolves
               C == \E i \in 1 .. k : x = order[i]
               D == \E i \in 1 .. k + 1 : x = order[i]
    <3>4. (A <=> B \/ x = l) /\ (B <=> C) /\ (D <=> C \/ x = l)
      BY <1>4, <3>2, <3>3
    <3> HIDE DEF A, B, C, D
    <3>5. A <=> D
      BY <3>4
    <3> QED
      BY <3>5 DEF A, D
  <2>8. \A j \in 1 .. n + 1 : \E i \in 1 .. k + 1 : new[j].params.from = Window(order[i]).params.from
    <3> SUFFICES ASSUME NEW j \in 1 .. n + 1
                 PROVE  \E i \in 1 .. k + 1 : new[j].params.from = Window(order[i]).params.from
      OBVIOUS
    <3>1. CASE j = n + 1
      <4>1. k + 1 \in 1 .. k + 1 /\ new[j].params.from = Window(order[k + 1]).params.from
        BY <2>3, <3>1 DEF item, l
      <4> QED
        BY <4>1
    <3>2. CASE j \in 1 .. n
      <4>1. PICK i \in 1 .. k : acc[j].params.from = Window(order[i]).params.from
        BY <3>2 DEF Gathers
      <4>2. i \in 1 .. k + 1 /\ new[j] = acc[j]
        BY <1>2, <2>3, <3>2
      <4> QED
        BY <4>1, <4>2
    <3> QED
      BY <2>4, <3>1, <3>2
  <2>9. Gathers(new, order, k + 1)
    BY <2>2, <2>5, <2>6, <2>7, <2>8 DEF Gathers
  <2> QED
    BY <2>1, <2>9 DEF item, l
<1> QED
  BY <1>5, <1>6

\* The export lines are ordered by their windows' start.
LEMMA StartsOrder ==
    ASSUME CloseInv
    PROVE  Orders({p \in Exports \X Exports : StartsBefore(p[1], p[2])}, Exports)
<1> DEFINE R == {p \in Exports \X Exports : StartsBefore(p[1], p[2])}
           from(l) == Window(l).params.from
<1>1. IsFiniteSet(Exports)
  BY LinesTyped, FS_Subset DEF Exports, Unresolved
<1>2. \A l \in Exports : l \in Nat /\ from(l) \in Int
  BY WindowIs, LinesAssumption DEF Exports, Unresolved, Lines
<1>3. \A l, m \in Exports : <<l, m>> \in R <=> (from(l) < from(m) \/ (from(l) = from(m) /\ l < m))
  BY DEF StartsBefore
<1> HIDE DEF R, from
<1>4. \A l, m \in Exports : l # m => <<l, m>> \in R \/ <<m, l>> \in R
  BY <1>2, <1>3
<1>5. \A l, m, n \in Exports : <<l, m>> \in R /\ <<m, n>> \in R => <<l, n>> \in R
  BY <1>2, <1>3
<1>6. Orders(R, Exports)
  BY <1>1, <1>4, <1>5 DEF Orders
<1> QED
  BY <1>6 DEF R

\* The merged windows have every export line once.
LEMMA ExportsGathered ==
    ASSUME CloseInv
    PROVE  /\ MergedExports \in Seq(ExportWindow)
           /\ \A j \in 1 .. Len(MergedExports) :
                 MergedExports[j].resolves # {} /\ Covers(MergedExports[j])
           /\ \A i, j \in 1 .. Len(MergedExports) :
                 i # j => MergedExports[i].resolves \cap MergedExports[j].resolves = {}
           /\ \A l : (\E j \in 1 .. Len(MergedExports) : l \in MergedExports[j].resolves) <=> l \in Exports
<1> DEFINE R == {p \in Exports \X Exports : StartsBefore(p[1], p[2])}
           order == Sorted(Exports, R)
           n == Cardinality(Exports)
           w == [k \in 1 .. n |-> Window(order[k])]
<1>1. InOrder(order, Exports, R)
  <2>1. Orders(R, Exports)
    BY StartsOrder
  <2> HIDE DEF R
  <2> QED
    BY <2>1, SortedIs
<1>2. n \in Nat
  <2>1. IsFiniteSet(Exports)
    BY StartsOrder DEF Orders
  <2> QED
    BY <2>1, FS_CardinalityType
<1>3. MergedExports = MergeWindows(w)
  BY DEF MergedExports
<1>4. Len(w) = n
  BY <1>2
<1>5. PICK g : Merges(g, w, n) /\ MergedExports = g[n]
  <2> HIDE DEF w, n
  <2> QED
    BY <1>2, <1>3, <1>4, MergeIs
<1>6. \A k \in 1 .. n : w[k] = Window(order[k])
  OBVIOUS
<1>7. /\ \A k \in 1 .. n : order[k] \in Exports
      /\ DOMAIN order = 1 .. n
      /\ \A i, j \in 1 .. n : i < j => <<order[i], order[j]>> \in R
      /\ \A l \in Exports : \E i \in 1 .. n : l = order[i]
  <2> HIDE DEF order, R
  <2>1. order \in [1 .. n -> Exports] /\ Range(order) = Exports
    BY <1>1 DEF InOrder
  <2>2. \A l \in Exports : \E i \in 1 .. n : l = order[i]
    BY <2>1 DEF Range
  <2> QED
    BY <1>1, <2>1, <2>2 DEF InOrder
<1>8. \A i, j \in 1 .. n : i < j => /\ order[i] # order[j]
                                    /\ Window(order[i]).params.from <= Window(order[j]).params.from
  <2> SUFFICES ASSUME NEW i \in 1 .. n, NEW j \in 1 .. n, i < j
               PROVE  /\ order[i] # order[j]
                      /\ Window(order[i]).params.from <= Window(order[j]).params.from
    OBVIOUS
  <2>1. StartsBefore(order[i], order[j]) /\ order[i] \in Exports /\ order[j] \in Exports
    BY <1>7
  <2>2. Window(order[i]).params.from \in Int /\ Window(order[j]).params.from \in Int
    BY <2>1, WindowIs
  <2>3. order[i] \in Nat /\ order[j] \in Nat
    BY <2>1, LinesAssumption DEF Exports, Unresolved, Lines
  <2> HIDE DEF order
  <2> QED
    BY <2>1, <2>2, <2>3 DEF StartsBefore
<1> HIDE DEF order, w, n, R
<1>9. \A k \in 0 .. n : g[k] = IF k = 0 THEN <<>> ELSE AddWindow(g[k - 1], w[k])
  BY <1>5 DEF Merges
<1>10. Gathers(g[n], order, n)
  <2> DEFINE G == {k \in Nat : k <= n => Gathers(g[k], order, k)}
  <2>1. 0 \in G
    <3>1. g[0] = <<>>
      BY <1>2, <1>9
    <3>2. Gathers(<<>>, order, 0)
      BY DEF Gathers
    <3> QED
      BY <3>1, <3>2
  <2>2. ASSUME NEW k \in Nat, k \in G
        PROVE  k + 1 \in G
    <3> SUFFICES ASSUME k + 1 <= n
                 PROVE  Gathers(g[k + 1], order, k + 1)
      OBVIOUS
    <3>1. k + 1 \in 0 .. n /\ k + 1 # 0 /\ (k + 1) - 1 = k /\ k <= n /\ k + 1 \in 1 .. n
      BY <1>2
    <3>2. g[k + 1] = AddWindow(g[k], Window(order[k + 1]))
      BY <1>6, <1>9, <3>1
    <3>3. Gathers(g[k], order, k)
      BY <2>2, <3>1
    <3>4. \A i \in 1 .. k : i \in 1 .. n /\ i < k + 1
      BY <1>2, <3>1
    <3>5. /\ order[k + 1] \in Exports /\ \A i \in 1 .. k : order[i] \in Exports
          /\ \A i \in 1 .. k : order[i] # order[k + 1] /\
                Window(order[i]).params.from <= Window(order[k + 1]).params.from
      BY <1>7, <1>8, <3>1, <3>4
    <3>6. Gathers(AddWindow(g[k], Window(order[k + 1])), order, k + 1)
      BY <3>3, <3>5, OneMoreWindow
    <3> QED
      BY <3>2, <3>6
  <2>3. Nat \subseteq G
    <3> HIDE DEF G
    <3> QED
      BY <2>1, <2>2, NaturalsIn
  <2> QED
    BY <1>2, <2>3
<1>11. Gathers(MergedExports, order, n)
  BY <1>5, <1>10
<1>12. \A l : (\E i \in 1 .. n : l = order[i]) <=> l \in Exports
  BY <1>7
<1> QED
  BY <1>11, <1>12 DEF Gathers

\* The groups of lines that an action is made for.
Groups == Range(MergedExports) \cup OtherGroups

\* The types an action may have.
Types == {"classify_counterparty", "confirm_utr_with_bank", "export_settlement_report",
          "provide_settlement_ids"}

\* Every unresolved line is in one group.
LEMMA GroupsPartition ==
    ASSUME CloseInv
    PROVE  /\ \A g \in Groups : /\ g.resolves # {} /\ g.resolves \subseteq Unresolved
                                /\ g.params.type \in Types
                                /\ g.params.type = "export_settlement_report" => Covers(g)
           /\ \A g, h \in Groups : g # h => g.resolves \cap h.resolves = {}
           /\ \A l \in Unresolved : \E g \in Groups : l \in g.resolves
<1> DEFINE M == Range(MergedExports)
           n == Len(MergedExports)
<1>1. MergedExports \in Seq(ExportWindow) /\ n \in Nat
  BY ExportsGathered
<1>2. \A g \in M : \E j \in 1 .. n : g = MergedExports[j]
  BY <1>1 DEF Range
<1>3. \A j \in 1 .. n : MergedExports[j] \in M /\ MergedExports[j] \in ExportWindow
  BY <1>1 DEF Range
<1>4. \A g \in M : /\ g \in ExportWindow /\ g.resolves # {} /\ Covers(g) /\ g.resolves \subseteq Exports
                   /\ g.params.type = "export_settlement_report"
  <2>1. \A g \in M : g \in ExportWindow /\ g.resolves # {} /\ Covers(g)
    BY <1>2, <1>3, ExportsGathered
  <2> QED
    BY <2>1 DEF ExportWindow
<1>5. \A g, h \in M : g # h => g.resolves \cap h.resolves = {}
  BY <1>2, ExportsGathered
<1>6. \A l \in Exports : \E g \in M : l \in g.resolves
  BY <1>3, ExportsGathered
<1>7. Exports \subseteq Unresolved
  BY DEF Exports
<1> DEFINE a(l) == _map_blocking_to_action(l)
           O == Unresolved \ Exports
           S(p) == {l \in O : a(l) = p}
           Q == {a(l) : l \in O}
<1>8. OtherGroups = {[params |-> p, resolves |-> S(p)] : p \in Q}
  BY DEF OtherGroups
<1>9. \A l : a(l).type \in Types
  BY DEF _map_blocking_to_action, ActionFor, Types
<1>10. \A l \in O : a(l).type # "export_settlement_report"
  BY DEF Exports
<1> HIDE DEF M, a
<1>11. \A g \in OtherGroups : \E p \in Q : g = [params |-> p, resolves |-> S(p)]
  BY <1>8
<1>12. \A g \in OtherGroups : /\ g.resolves # {} /\ g.resolves \subseteq O
                              /\ g.params.type \in Types
                              /\ g.params.type # "export_settlement_report"
  <2> SUFFICES ASSUME NEW g \in OtherGroups
               PROVE  /\ g.resolves # {} /\ g.resolves \subseteq O
                      /\ g.params.type \in Types
                      /\ g.params.type # "export_settlement_report"
    OBVIOUS
  <2>1. PICK l \in O : g = [params |-> a(l), resolves |-> S(a(l))]
    BY <1>11
  <2>2. g.params = a(l) /\ g.resolves = S(a(l)) /\ l \in S(a(l))
    BY <2>1
  <2> QED
    BY <1>9, <1>10, <2>2
<1>13. \A g, h \in OtherGroups : g # h => g.resolves \cap h.resolves = {}
  <2> SUFFICES ASSUME NEW g \in OtherGroups, NEW h \in OtherGroups, g # h
               PROVE  g.resolves \cap h.resolves = {}
    OBVIOUS
  <2>1. PICK p \in Q : g = [params |-> p, resolves |-> S(p)]
    BY <1>11
  <2>2. PICK q \in Q : h = [params |-> q, resolves |-> S(q)]
    BY <1>11
  <2>3. p # q
    BY <2>1, <2>2
  <2>4. g.resolves = S(p) /\ h.resolves = S(q)
    BY <2>1, <2>2
  <2> QED
    BY <2>3, <2>4
<1>14. \A l \in O : \E g \in OtherGroups : l \in g.resolves
  <2> SUFFICES ASSUME NEW l \in O
               PROVE  \E g \in OtherGroups : l \in g.resolves
    OBVIOUS
  <2> DEFINE g == [params |-> a(l), resolves |-> S(a(l))]
  <2>1. g \in OtherGroups
    BY <1>8
  <2>2. l \in g.resolves
    OBVIOUS
  <2> HIDE DEF g
  <2> QED
    BY <2>1, <2>2
<1>15. Groups = M \cup OtherGroups
  BY DEF Groups, M
<1>16. O = Unresolved \ Exports
  OBVIOUS
<1> HIDE DEF S, Q, O
<1>17. \A g \in Groups : /\ g.resolves # {} /\ g.resolves \subseteq Unresolved
                         /\ g.params.type \in Types
                         /\ g.params.type = "export_settlement_report" => Covers(g)
  BY <1>4, <1>7, <1>12, <1>15, <1>16 DEF Types
<1>18. \A g, h \in Groups : g # h => g.resolves \cap h.resolves = {}
  BY <1>4, <1>5, <1>12, <1>13, <1>15, <1>16
<1>19. \A l \in Unresolved : \E g \in Groups : l \in g.resolves
  BY <1>6, <1>14, <1>15, <1>16
<1> QED
  BY <1>17, <1>18, <1>19

\* The actions are one for each group, and keep its lines apart from the others'.
LEMMA ActionsPartition ==
    ASSUME CloseInv
    PROVE  /\ \A a \in AllActions :
                 /\ a.resolves # {} /\ a.resolves \subseteq Unresolved
                 /\ a.params.type \in Types
                 /\ a.params.type = "export_settlement_report" => Covers(a)
                 /\ a.recoverable = SumPositive(a.resolves)
                 /\ a.gain = SumPositive(a.resolves) * (12 \div ACTION_COSTS[a.params.type])
           /\ \A a, b \in AllActions : a # b => a.resolves \cap b.resolves = {}
           /\ \A l \in Unresolved : \E a \in AllActions : l \in a.resolves
<1> DEFINE A(g) == RecoveryAction(g.params, g.resolves)
<1>1. AllActions = {A(g) : g \in Groups}
  BY DEF AllActions, Groups
<1>2. \A g : /\ A(g).params = g.params /\ A(g).resolves = g.resolves
             /\ A(g).recoverable = SumPositive(g.resolves)
             /\ A(g).gain = SumPositive(g.resolves) * (12 \div ACTION_COSTS[g.params.type])
             /\ Covers(g) => Covers(A(g))
  BY DEF RecoveryAction, Covers
<1> HIDE DEF A
<1>3. \A a \in AllActions : \E g \in Groups : a = A(g)
  BY <1>1
<1>4. \A a \in AllActions :
                 /\ a.resolves # {} /\ a.resolves \subseteq Unresolved
                 /\ a.params.type \in Types
                 /\ a.params.type = "export_settlement_report" => Covers(a)
                 /\ a.recoverable = SumPositive(a.resolves)
                 /\ a.gain = SumPositive(a.resolves) * (12 \div ACTION_COSTS[a.params.type])
  <2> SUFFICES ASSUME NEW a \in AllActions
               PROVE  /\ a.resolves # {} /\ a.resolves \subseteq Unresolved
                      /\ a.params.type \in Types
                      /\ a.params.type = "export_settlement_report" => Covers(a)
                      /\ a.recoverable = SumPositive(a.resolves)
                      /\ a.gain = SumPositive(a.resolves) * (12 \div ACTION_COSTS[a.params.type])
    OBVIOUS
  <2>1. PICK g \in Groups : a = A(g)
    BY <1>3
  <2>2. /\ g.resolves # {} /\ g.resolves \subseteq Unresolved /\ g.params.type \in Types
        /\ g.params.type = "export_settlement_report" => Covers(g)
    BY GroupsPartition
  <2>3. /\ a.params = g.params /\ a.resolves = g.resolves /\ (Covers(g) => Covers(a))
        /\ a.recoverable = SumPositive(g.resolves)
        /\ a.gain = SumPositive(g.resolves) * (12 \div ACTION_COSTS[g.params.type])
    BY <1>2, <2>1
  <2> QED
    BY <2>2, <2>3
<1>5. \A a, b \in AllActions : a # b => a.resolves \cap b.resolves = {}
  BY <1>2, <1>3, GroupsPartition
<1>6. \A l \in Unresolved : \E a \in AllActions : l \in a.resolves
  BY <1>1, <1>2, GroupsPartition
<1> QED
  BY <1>4, <1>5, <1>6

\* A line that is unresolved is a line of the statement, and what it is worth is a natural.
LEMMA Worth ==
    ASSUME CloseInv, NEW S \in SUBSET Unresolved
    PROVE  /\ S \in SUBSET Lines /\ IsFiniteSet(S)
           /\ SumPositive(S) = Total([l \in Lines |-> IF amount_paise(l) > 0 THEN amount_paise(l) ELSE 0], S)
           /\ SumPositive(S) \in Nat
<1> DEFINE p == [l \in Lines |-> IF amount_paise(l) > 0 THEN amount_paise(l) ELSE 0]
           q == [l \in S |-> IF amount_paise(l) > 0 THEN amount_paise(l) ELSE 0]
<1>1. S \in SUBSET Lines
  BY DEF Unresolved
<1>2. IsFiniteSet(S)
  BY <1>1, LinesTyped, FS_Subset
<1>3. SumPositive(S) = Total(q, S)
  BY DEF SumPositive
<1>4. \A l \in S : q[l] = p[l] /\ p[l] \in Nat
  BY <1>1, LinesTyped
<1> HIDE DEF p, q
<1>5. Total(q, S) = Total(p, S)
  BY <1>2, <1>4, TotalAgree
<1>6. Total(p, S) \in Nat
  BY <1>2, <1>4, TotalNat
<1> QED
  BY <1>1, <1>2, <1>3, <1>5, <1>6 DEF p

\* The types rank in the order they are listed.
LEMMA RankOfType == \A t \in Types : TypeRank(t) \in 1 .. 4
<1>1. DOMAIN ActionTypes = 1 .. 4
  BY DEF ActionTypes
<1>2. ASSUME NEW t \in Types
      PROVE  \E k \in 1 .. 4 : ActionTypes[k] = t
  BY DEF ActionTypes, Types
<1> QED
  BY <1>1, <1>2 DEF TypeRank

\* The lexicographic order of the keys of the ranking.
Precedes(a, b) ==
    \/ a[1] < b[1]
    \/ a[1] = b[1] /\ a[2] < b[2]
    \/ a[1] = b[1] /\ a[2] = b[2] /\ a[3] < b[3]
    \/ a[1] = b[1] /\ a[2] = b[2] /\ a[3] = b[3] /\ a[4] < b[4]

\* The sorting key of an action.
Rank(a) == <<-a.gain, -a.recoverable, TypeRank(a.params.type), Min(a.resolves)>>

\* The ranking is an order on the actions: two of them never tie, since they have no line in
\* common.
LEMMA RankingOrders ==
    ASSUME CloseInv
    PROVE  /\ Orders({p \in AllActions \X AllActions : RanksAbove(p[1], p[2])}, AllActions)
           /\ \A a, b \in AllActions : /\ a.gain \in Int /\ b.gain \in Int
                                       /\ RanksAbove(a, b) => a.gain >= b.gain
<1> DEFINE R == {p \in AllActions \X AllActions : RanksAbove(p[1], p[2])}
<1>1. \A a \in AllActions : /\ a.gain \in Int /\ a.recoverable \in Int
                            /\ TypeRank(a.params.type) \in Int
                            /\ Min(a.resolves) \in a.resolves /\ Min(a.resolves) \in Nat
  <2> SUFFICES ASSUME NEW a \in AllActions
               PROVE  /\ a.gain \in Int /\ a.recoverable \in Int
                      /\ TypeRank(a.params.type) \in Int
                      /\ Min(a.resolves) \in a.resolves /\ Min(a.resolves) \in Nat
    OBVIOUS
  <2>1. /\ a.resolves # {} /\ a.resolves \in SUBSET Unresolved /\ a.params.type \in Types
        /\ a.recoverable = SumPositive(a.resolves)
        /\ a.gain = SumPositive(a.resolves) * (12 \div ACTION_COSTS[a.params.type])
    BY ActionsPartition
  <2>2. SumPositive(a.resolves) \in Nat /\ a.resolves \in SUBSET Lines
    BY <2>1, Worth
  <2>3. a.resolves \in SUBSET Nat
    BY <2>2, LinesAssumption DEF Lines
  <2>4. Min(a.resolves) \in a.resolves
    BY <2>1, <2>3, MinIs
  <2>5. 12 \div ACTION_COSTS[a.params.type] \in Nat
    <3>1. \A m \in {1, 2, 3, 4} : 12 \div m \in Nat
      OBVIOUS
    <3>2. ACTION_COSTS[a.params.type] \in {1, 2, 3, 4}
      BY <2>1 DEF ACTION_COSTS, Types
    <3> QED
      BY <3>1, <3>2
  <2>6. a.gain \in Int
    <3> DEFINE x == SumPositive(a.resolves)
               y == 12 \div ACTION_COSTS[a.params.type]
    <3>1. x \in Nat /\ y \in Nat /\ a.gain = x * y
      BY <2>1, <2>2, <2>5
    <3> HIDE DEF x, y
    <3> QED
      BY <3>1
  <2>7. TypeRank(a.params.type) \in Int
    BY <2>1, RankOfType
  <2> QED
    BY <2>1, <2>2, <2>3, <2>4, <2>6, <2>7
<1>2. \A a, b \in AllActions : RanksAbove(a, b) <=> Precedes(Rank(a), Rank(b))
  <2> SUFFICES ASSUME NEW a \in AllActions, NEW b \in AllActions
               PROVE  RanksAbove(a, b) <=> Precedes(Rank(a), Rank(b))
    OBVIOUS
  <2>1. RanksAbove(a, b) <=> \E i \in 1 .. 4 : /\ Rank(a)[i] < Rank(b)[i]
                                               /\ \A j \in 1 .. i - 1 : Rank(a)[j] = Rank(b)[j]
    BY DEF RanksAbove, Rank
  <2> DEFINE ka == Rank(a)
             kb == Rank(b)
  <2> HIDE DEF ka, kb
  <2>2. (\E i \in 1 .. 4 : /\ ka[i] < kb[i]
                           /\ \A j \in 1 .. i - 1 : ka[j] = kb[j]) <=> Precedes(ka, kb)
    <3>1. \A j \in 1 .. 3 : j = 1 \/ j = 2 \/ j = 3
      OBVIOUS
    <3> QED
      BY <3>1 DEF Precedes
  <2> QED
    BY <2>1, <2>2 DEF ka, kb
<1>3. \A a \in AllActions : Rank(a) = <<Rank(a)[1], Rank(a)[2], Rank(a)[3], Rank(a)[4]>>
                            /\ Rank(a)[1] = -a.gain /\ Rank(a)[4] = Min(a.resolves)
                            /\ \A i \in 1 .. 4 : Rank(a)[i] \in Int
  BY <1>1 DEF Rank
<1>4. \A a, b \in AllActions : a # b => Rank(a)[4] # Rank(b)[4]
  BY <1>1, <1>3, ActionsPartition
<1>5. \A a, b \in AllActions : <<a, b>> \in R <=> Precedes(Rank(a), Rank(b))
  BY <1>2
<1>6. IsFiniteSet(AllActions)
  <2> DEFINE f == [a \in AllActions |-> Min(a.resolves)]
  <2>1. f \in Injection(AllActions, Lines)
    <3>1. \A a \in AllActions : Min(a.resolves) \in Lines
      BY <1>1, ActionsPartition DEF Unresolved
    <3>2. \A a, b \in AllActions : a # b => Min(a.resolves) # Min(b.resolves)
      BY <1>3, <1>4
    <3> QED
      BY <3>1, <3>2 DEF Injection, IsInjective
  <2> HIDE DEF f
  <2> QED
    BY <2>1, LinesTyped, FS_Injection
<1> HIDE DEF R
<1>7. \A a, b \in AllActions : a # b => <<a, b>> \in R \/ <<b, a>> \in R
  <2> SUFFICES ASSUME NEW a \in AllActions, NEW b \in AllActions, a # b
               PROVE  <<a, b>> \in R \/ <<b, a>> \in R
    OBVIOUS
  <2>1. /\ Rank(a)[1] \in Int /\ Rank(a)[2] \in Int /\ Rank(a)[3] \in Int /\ Rank(a)[4] \in Int
        /\ Rank(b)[1] \in Int /\ Rank(b)[2] \in Int /\ Rank(b)[3] \in Int /\ Rank(b)[4] \in Int
    BY <1>3
  <2> QED
    BY <1>4, <1>5, <2>1 DEF Precedes
<1>8. \A a, b, c \in AllActions : <<a, b>> \in R /\ <<b, c>> \in R => <<a, c>> \in R
  <2> SUFFICES ASSUME NEW a \in AllActions, NEW b \in AllActions, NEW c \in AllActions,
                      <<a, b>> \in R, <<b, c>> \in R
               PROVE  <<a, c>> \in R
    OBVIOUS
  <2>1. /\ Rank(a)[1] \in Int /\ Rank(a)[2] \in Int /\ Rank(a)[3] \in Int /\ Rank(a)[4] \in Int
        /\ Rank(b)[1] \in Int /\ Rank(b)[2] \in Int /\ Rank(b)[3] \in Int /\ Rank(b)[4] \in Int
        /\ Rank(c)[1] \in Int /\ Rank(c)[2] \in Int /\ Rank(c)[3] \in Int /\ Rank(c)[4] \in Int
    BY <1>3
  <2>2. Precedes(Rank(a), Rank(b)) /\ Precedes(Rank(b), Rank(c))
    BY <1>5
  <2>3. Precedes(Rank(a), Rank(c))
    BY <2>1, <2>2 DEF Precedes
  <2> QED
    BY <1>5, <2>3
<1>9. Orders(R, AllActions)
  BY <1>6, <1>7, <1>8 DEF Orders
<1>10. \A a, b \in AllActions : RanksAbove(a, b) => a.gain >= b.gain
  <2> SUFFICES ASSUME NEW a \in AllActions, NEW b \in AllActions, RanksAbove(a, b)
               PROVE  a.gain >= b.gain
    OBVIOUS
  <2>1. Rank(a)[1] < Rank(b)[1] \/ Rank(a)[1] = Rank(b)[1]
    BY <1>2 DEF Precedes
  <2>2. Rank(a)[1] = -a.gain /\ Rank(b)[1] = -b.gain /\ a.gain \in Int /\ b.gain \in Int
    BY <1>1, <1>3
  <2> QED
    BY <2>1, <2>2
<1> QED
  BY <1>1, <1>9, <1>10 DEF R

\* The actions kept are the first ones of the ranking.
LEMMA PlanKeepsFirst ==
    ASSUME CloseInv
    PROVE  LET plan == build_recovery_plan
               acts == Range(plan.actions)
           IN  /\ acts \subseteq AllActions
               /\ plan.capped \/ acts = AllActions
               /\ \A a \in acts, b \in AllActions \ acts : a.gain >= b.gain
               /\ plan.recoverable_if_actioned = SumPositive(UNION {a.resolves : a \in acts})
               /\ plan.unresolved_credit = SumPositive(Unresolved)
<1> DEFINE R == {p \in AllActions \X AllActions : RanksAbove(p[1], p[2])}
           ranked == Sorted(AllActions, R)
           n == Cardinality(AllActions)
           m == IF Len(ranked) > MAX_ACTIONS THEN MAX_ACTIONS ELSE Len(ranked)
           kept == SubSeq(ranked, 1, m)
           plan == build_recovery_plan
<1>1. InOrder(ranked, AllActions, R)
  <2>1. Orders(R, AllActions)
    BY RankingOrders
  <2> HIDE DEF R
  <2> QED
    BY <2>1, SortedIs
<1>2. /\ plan.actions = kept /\ plan.capped = (Len(ranked) > MAX_ACTIONS)
      /\ plan.unresolved_credit = SumPositive(Unresolved)
      /\ plan.recoverable_if_actioned = SumPositive(UNION {a.resolves : a \in Range(kept)})
  BY DEF build_recovery_plan
<1>3. n \in Nat
  <2>1. IsFiniteSet(AllActions)
    BY RankingOrders DEF Orders
  <2> QED
    BY <2>1, FS_CardinalityType
<1>4. \A i, j \in 1 .. n : i < j => <<ranked[i], ranked[j]>> \in R
  <2> HIDE DEF ranked, R, n
  <2>1. DOMAIN ranked = 1 .. n
    BY <1>1 DEF InOrder, n
  <2> QED
    BY <1>1, <2>1 DEF InOrder
<1>5. \A i, j \in 1 .. n : i < j => RanksAbove(ranked[i], ranked[j])
  <2> HIDE DEF ranked, n
  <2> QED
    BY <1>4
<1> HIDE DEF ranked, n, R
<1>6. ranked \in [1 .. n -> AllActions] /\ Range(ranked) = AllActions
  BY <1>1 DEF InOrder, n
<1>7. ranked \in Seq(AllActions) /\ Len(ranked) = n
  BY <1>3, <1>6
<1>8. m \in 0 .. n /\ (n > MAX_ACTIONS \/ m = n)
  BY <1>3, <1>7, RecoveryAssumption
<1> HIDE DEF m
<1>9. Len(kept) = m /\ \A i \in 1 .. m : kept[i] = ranked[i]
  BY <1>3, <1>7, <1>8
<1>10. DOMAIN kept = 1 .. m
  <2>1. kept \in Seq(AllActions)
    BY <1>3, <1>7, <1>8
  <2> HIDE DEF kept
  <2> QED
    BY <1>9, <2>1
<1> HIDE DEF kept, plan
<1>11. \A a : a \in Range(kept) <=> \E i \in 1 .. m : a = ranked[i]
  BY <1>9, <1>10 DEF Range
<1>12. \A a \in AllActions : \E i \in 1 .. n : a = ranked[i]
  BY <1>6 DEF Range
<1>13. Range(kept) \subseteq AllActions
  BY <1>3, <1>6, <1>8, <1>11
<1>14. plan.capped \/ Range(kept) = AllActions
  BY <1>2, <1>7, <1>8, <1>11, <1>12, <1>13
<1>15. ASSUME NEW a \in Range(kept), NEW b \in AllActions \ Range(kept)
       PROVE  a.gain >= b.gain
  <2>1. PICK i \in 1 .. m : a = ranked[i]
    BY <1>11
  <2>2. PICK j \in 1 .. n : b = ranked[j]
    BY <1>12
  <2>3. j \notin 1 .. m
    BY <1>11, <2>2
  <2>4. i \in 1 .. n /\ i < j
    BY <1>3, <1>8, <2>3
  <2>5. RanksAbove(a, b)
    BY <1>5, <2>1, <2>2, <2>4
  <2> QED
    BY <1>13, <2>5, RankingOrders
<1> QED
  BY <1>2, <1>13, <1>14, <1>15 DEF plan

\* What the kept actions resolve adds up, and to no more than all that is unresolved.
LEMMA PlanAddsUp ==
    ASSUME CloseInv, NEW acts \in SUBSET AllActions
    PROVE  LET actioned == UNION {a.resolves : a \in acts}
           IN  /\ SumPositive(actioned) = Total([a \in acts |-> a.recoverable], acts)
               /\ SumPositive(actioned) <= SumPositive(Unresolved)
<1> DEFINE F == [a \in acts |-> a.resolves]
           h == [a \in acts |-> a.recoverable]
           p == [l \in Lines |-> IF amount_paise(l) > 0 THEN amount_paise(l) ELSE 0]
           U == UNION {F[a] : a \in acts}
           D == Unresolved \ U
<1>1. \A a \in acts : a.resolves \in SUBSET Unresolved /\ a.recoverable = SumPositive(a.resolves)
  BY ActionsPartition
<1>2. U = UNION {a.resolves : a \in acts} /\ U \in SUBSET Unresolved
  BY <1>1
<1>3. \A a \in acts : IsFiniteSet(F[a]) /\ h[a] = Total(p, F[a]) /\ F[a] \in SUBSET Lines
  BY <1>1, Worth
<1>4. \A l \in Lines : p[l] \in Nat
  BY LinesTyped
<1>5. \A a, b \in acts : a # b => F[a] \cap F[b] = {}
  BY ActionsPartition
<1>6. IsFiniteSet(acts)
  BY RankingOrders, FS_Subset DEF Orders
<1>7. D \in SUBSET Unresolved /\ Unresolved = U \cup D /\ U \cap D = {}
  BY <1>2
<1>8. /\ SumPositive(U) = Total(p, U) /\ SumPositive(D) = Total(p, D)
      /\ SumPositive(Unresolved) = Total(p, Unresolved)
      /\ SumPositive(U) \in Nat /\ SumPositive(D) \in Nat
      /\ IsFiniteSet(U) /\ IsFiniteSet(D) /\ U \in SUBSET Lines /\ D \in SUBSET Lines
  <2> HIDE DEF U, D
  <2> QED
    BY <1>2, <1>7, Worth
<1> HIDE DEF F, h, p, D
<1>9. Total(h, acts) = Total(p, U)
  <2>1. SumsOf(h, p, acts, F)
    BY <1>3, <1>4, <1>5, <1>6 DEF SumsOf
  <2> QED
    BY <2>1, TotalFamily
<1> HIDE DEF U
<1>10. Total(p, U \cup D) = Total(p, U) + Total(p, D)
  <2>1. \A l \in U \cup D : p[l] \in Int
    BY <1>4, <1>8
  <2> QED
    BY <1>7, <1>8, <2>1, TotalUnion
<1>11. SumPositive(U) <= SumPositive(Unresolved)
  BY <1>7, <1>8, <1>10
<1> QED
  BY <1>2, <1>8, <1>9, <1>11 DEF h

\* The plan counts every unresolved credit once: its actions have no line in common, all of
\* them together resolve all that is unresolved unless the plan was capped, what they recover
\* adds up to no more than what is unresolved, no action left out gains more than one kept, and
\* the days of an export request, merged as they are, cover the window of each of its lines.
THEOREM PlansCountOnce == CloseSpec => []PlanCountsOnce
<1>1. CloseInv => PlanCountsOnce
  <2> SUFFICES ASSUME CloseInv, Built PROVE PlanCountsOnce
    BY DEF PlanCountsOnce
  <2>1. report.plan = build_recovery_plan
    BY DEF CloseInv, ReportIsCurrent, Built, Listed, Planned, Packed
  <2> DEFINE plan == report.plan
             acts == Range(plan.actions)
             in_plan == UNION {a.resolves : a \in acts}
  <2>2. /\ acts \subseteq AllActions
        /\ plan.capped \/ acts = AllActions
        /\ \A a \in acts, b \in AllActions \ acts : a.gain >= b.gain
        /\ plan.recoverable_if_actioned = SumPositive(in_plan)
        /\ plan.unresolved_credit = SumPositive(Unresolved)
    BY <2>1, PlanKeepsFirst
  <2> HIDE DEF acts
  <2>3. \A a, b \in acts : a # b => a.resolves \cap b.resolves = {}
    BY <2>2, ActionsPartition
  <2>4. plan.capped \/ in_plan = Unresolved
    <3>1. acts = AllActions => in_plan = Unresolved
      BY ActionsPartition
    <3> QED
      BY <2>2, <3>1
  <2>5. /\ plan.recoverable_if_actioned = Total([a \in acts |-> a.recoverable], acts)
        /\ plan.recoverable_if_actioned <= plan.unresolved_credit
    BY <2>2, PlanAddsUp
  <2>6. \A a \in acts : a.params.type = "export_settlement_report" =>
                 \A l \in a.resolves : /\ a.params.from <= books.line[l].date - EXPORT_WINDOW
                                       /\ a.params.to >= books.line[l].date + EXPORT_WINDOW
    BY <2>2, ActionsPartition DEF Covers
  <2> QED
    BY <2>2, <2>3, <2>4, <2>5, <2>6 DEF PlanCountsOnce, acts
<1> QED
  BY <1>1, CloseInvariant, PTL
==============================================================================
