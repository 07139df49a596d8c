------------------------- MODULE AttributionProofs -------------------------
(***************************************************************************)
(* Theorems about Attribution and the search of Solver, for any statement, *)
(* any settlements and any budget.                                         *)
(*                                                                         *)
(*   - sums over finite sets, costs and their order, assignments and what  *)
(*     they cost, and what a completed call of the search has found;       *)
(*   - the candidate graph, one component, and components put together;    *)
(*   - the steps of the pipeline and the invariants they keep: of the      *)
(*     solver, of split reconstruction and of the proof gate.              *)
(***************************************************************************)
EXTENDS Attribution, FiniteSetTheorems, WellFoundedInduction, TLAPS

(***************************************************************************)
(* Induction, and sums over finite sets.                                   *)
(***************************************************************************)
\* Induction over the naturals, for a set of naturals.
LEMMA NaturalsIn ==
    ASSUME NEW G, 0 \in G, \A n \in Nat : n \in G => n + 1 \in G
    PROVE  Nat \subseteq G
<1> DEFINE Rest == Nat \ G
           Less == OpToRel(<, Nat)
<1> SUFFICES ASSUME Rest # {}
             PROVE  FALSE
  OBVIOUS
<1>1. PICK n \in Rest : \A m \in Rest : <<m, n>> \notin Less
  <2>1. Rest \subseteq Nat /\ Rest # {}
    OBVIOUS
  <2> HIDE DEF Rest
  <2> QED
    BY <2>1, NatLessThanWellFounded, WFMin
<1>2. n # 0 /\ n - 1 \in Nat
  OBVIOUS
<1>3. n - 1 \in Rest
  BY <1>2
<1>4. <<n - 1, n>> \in Less
  BY <1>2 DEF OpToRel
<1> QED
  BY <1>1, <1>3, <1>4

\* Induction over the subsets of a finite set, for a set of them.
LEMMA SubsetsIn ==
    ASSUME NEW S, IsFiniteSet(S), NEW G, {} \in G,
           \A T \in SUBSET S : T # {} /\ (\A x \in T : T \ {x} \in G) => T \in G
    PROVE  SUBSET S \subseteq G
<1> DEFINE N == {n \in Nat : \A T \in SUBSET S : Cardinality(T) <= n => T \in G}
<1>0. \A T \in SUBSET S : IsFiniteSet(T) /\ Cardinality(T) \in Nat
  BY FS_Subset, FS_CardinalityType
<1>1. 0 \in N
  BY <1>0, FS_EmptySet
<1>2. \A n \in Nat : n \in N => n + 1 \in N
  <2> SUFFICES ASSUME NEW n \in N, NEW T \in SUBSET S, Cardinality(T) <= n + 1
               PROVE  T \in G
    OBVIOUS
  <2>1. CASE T = {}
    BY <2>1
  <2>2. CASE T # {}
    <3>1. ASSUME NEW x \in T
          PROVE  T \ {x} \in G
      <4>1. Cardinality(T \ {x}) = Cardinality(T) - 1
        BY <1>0, FS_RemoveElement
      <4>2. T \ {x} \in SUBSET S /\ Cardinality(T \ {x}) <= n
        BY <1>0, <4>1
      <4> QED
        BY <4>2
    <3> QED
      BY <2>2, <3>1
  <2> QED
    BY <2>1, <2>2
<1>3. Nat \subseteq N
  <2> HIDE DEF N
  <2> QED
    BY <1>1, <1>2, NaturalsIn
<1> QED
  BY <1>0, <1>3

\* The member that a sum over s takes first, and the sum from that of the rest.
Chosen(s) == CHOOSE x \in s : TRUE
SumStep(f, g, s) == IF s = {} THEN 0 ELSE f[Chosen(s)] + g[s \ {Chosen(s)}]

\* g is the sum of f over every subset of S.
IsSum(f, S, g) == g = [s \in SUBSET S |-> SumStep(f, g, s)]

\* Every finite set has a function with the sums of its subsets, so that the recursive
\* function in Total is one and not an arbitrary value.
LEMMA SumExists ==
    ASSUME NEW f, NEW S, IsFiniteSet(S)
    PROVE  \E g : IsSum(f, S, g)
<1> DEFINE Sized(n) == {s \in SUBSET S : Cardinality(s) <= n}
           N == {n \in Nat : \E g : g = [s \in Sized(n) |-> SumStep(f, g, s)]}
<1>0. \A T \in SUBSET S : IsFiniteSet(T) /\ Cardinality(T) \in Nat
  BY FS_Subset, FS_CardinalityType
<1>1. 0 \in N
  <2> DEFINE g == [s \in Sized(0) |-> 0]
  <2>1. \A s \in Sized(0) : s = {}
    BY <1>0, FS_EmptySet
  <2>2. \A s \in Sized(0) : SumStep(f, g, s) = 0
    BY <2>1 DEF SumStep
  <2> QED
    BY <2>2
<1>2. \A n \in Nat : n \in N => n + 1 \in N
  <2> SUFFICES ASSUME NEW n \in Nat, n \in N
               PROVE  n + 1 \in N
    OBVIOUS
  <2>1. PICK g : g = [s \in Sized(n) |-> SumStep(f, g, s)]
    OBVIOUS
  <2> DEFINE h == [s \in Sized(n + 1) |-> SumStep(f, g, s)]
  <2>2. \A s \in Sized(n) : s \in Sized(n + 1) /\ h[s] = g[s]
    <3> SUFFICES ASSUME NEW s \in Sized(n)
                 PROVE  s \in Sized(n + 1) /\ h[s] = g[s]
      OBVIOUS
    <3>1. s \in Sized(n + 1)
      BY <1>0
    <3>2. g[s] = SumStep(f, g, s)
      BY <2>1
    <3> QED
      BY <3>1, <3>2
  <2>3. \A s \in Sized(n + 1) : SumStep(f, h, s) = SumStep(f, g, s)
    <3> SUFFICES ASSUME NEW s \in Sized(n + 1), s # {}
                 PROVE  h[s \ {Chosen(s)}] = g[s \ {Chosen(s)}]
      <4> HIDE DEF h, Sized
      <4> QED BY DEF SumStep
    <3>1. Chosen(s) \in s
      BY DEF Chosen
    <3>2. Cardinality(s \ {Chosen(s)}) = Cardinality(s) - 1
      BY <1>0, <3>1, FS_RemoveElement
    <3>3. s \ {Chosen(s)} \in Sized(n)
      BY <1>0, <3>2
    <3> QED
      BY <2>2, <3>3
  <2>4. h = [s \in Sized(n + 1) |-> SumStep(f, h, s)]
    BY <2>3
  <2>5. \E k : k = [s \in Sized(n + 1) |-> SumStep(f, k, s)]
    <3> WITNESS h
    <3> QED
      BY <2>4
  <2> HIDE DEF h, Sized
  <2> QED
    BY <2>5
<1>3. Nat \subseteq N
  <2> HIDE DEF N
  <2> QED
    BY <1>1, <1>2, NaturalsIn
<1>4. Sized(Cardinality(S)) = SUBSET S
  BY <1>0, FS_Subset
<1>5. PICK g : g = [s \in Sized(Cardinality(S)) |-> SumStep(f, g, s)]
  BY <1>0, <1>3
<1> HIDE DEF Sized
<1> QED
  BY <1>4, <1>5 DEF IsSum

\* There is one such function, whichever the set it is given for.
LEMMA SumUnique ==
    ASSUME NEW f, NEW S, IsFiniteSet(S), NEW U, NEW g, NEW h, IsSum(f, S, g), IsSum(f, U, h)
    PROVE  \A T \in SUBSET S : T \in SUBSET U => g[T] = h[T]
<1> DEFINE G == {T \in SUBSET S : T \in SUBSET U => g[T] = h[T]}
<1>1. /\ \A T \in SUBSET S : g[T] = SumStep(f, g, T)
      /\ \A T \in SUBSET U : h[T] = SumStep(f, h, T)
  BY DEF IsSum
<1>2. {} \in G
  BY <1>1 DEF SumStep
<1>3. ASSUME NEW T \in SUBSET S, T # {}, \A x \in T : T \ {x} \in G
      PROVE  T \in G
  <2> SUFFICES ASSUME T \in SUBSET U
               PROVE  g[T] = h[T]
    OBVIOUS
  <2>1. Chosen(T) \in T
    BY <1>3 DEF Chosen
  <2>2. g[T \ {Chosen(T)}] = h[T \ {Chosen(T)}]
    BY <1>3, <2>1
  <2> QED
    BY <1>1, <1>3, <2>2 DEF SumStep
<1>4. SUBSET S \subseteq G
  <2> HIDE DEF G
  <2> QED
    BY <1>2, <1>3, SubsetsIn
<1> QED
  BY <1>4

\* Total is such a function.
LEMMA TotalIsSum ==
    ASSUME NEW f, NEW S, IsFiniteSet(S)
    PROVE  \E g : IsSum(f, S, g) /\ Total(f, S) = g[S]
<1> DEFINE g == CHOOSE g : IsSum(f, S, g)
<1>1. IsSum(f, S, g)
  BY SumExists
<1>2. Total(f, S) = g[S]
  BY DEF Total, MapThenSumSet, MapThenFoldSet, IsSum, SumStep, Chosen
<1> HIDE DEF g
<1> QED
  BY <1>1, <1>2

\* The sum over nothing is 0: what Python's sum() of no rows returns.
LEMMA TotalEmpty ==
    ASSUME NEW f
    PROVE  Total(f, {}) = 0
<1>1. PICK g : IsSum(f, {}, g) /\ Total(f, {}) = g[{}]
  BY TotalIsSum, FS_EmptySet
<1> QED
  BY <1>1 DEF IsSum, SumStep

\* The sum over a set is the chosen member's and that of the rest.
LEMMA TotalChosen ==
    ASSUME NEW f, NEW S, IsFiniteSet(S), S # {}
    PROVE  Total(f, S) = f[Chosen(S)] + Total(f, S \ {Chosen(S)})
<1> DEFINE R == S \ {Chosen(S)}
<1>1. PICK g : IsSum(f, S, g) /\ Total(f, S) = g[S]
  BY TotalIsSum
<1>2. IsFiniteSet(R) /\ R \in SUBSET S
  BY FS_Subset
<1>3. PICK h : IsSum(f, R, h) /\ Total(f, R) = h[R]
  BY <1>2, TotalIsSum
<1>4. g[R] = h[R]
  BY <1>1, <1>2, <1>3, SumUnique
<1>5. g[S] = SumStep(f, g, S)
  BY <1>1 DEF IsSum
<1> QED
  BY <1>1, <1>3, <1>4, <1>5 DEF SumStep

\* A sum of integers is an integer.
LEMMA TotalType ==
    ASSUME NEW f, NEW S, IsFiniteSet(S), \A i \in S : f[i] \in Int
    PROVE  Total(f, S) \in Int
<1> DEFINE G == {T \in SUBSET S : Total(f, T) \in Int}
<1>1. {} \in G
  BY TotalEmpty
<1>2. ASSUME NEW T \in SUBSET S, T # {}, \A x \in T : T \ {x} \in G
      PROVE  T \in G
  <2>1. Chosen(T) \in T
    BY <1>2 DEF Chosen
  <2>2. Total(f, T) = f[Chosen(T)] + Total(f, T \ {Chosen(T)})
    BY <1>2, FS_Subset, TotalChosen
  <2>3. f[Chosen(T)] \in Int /\ Total(f, T \ {Chosen(T)}) \in Int
    BY <1>2, <2>1
  <2> QED
    BY <2>2, <2>3
<1>3. SUBSET S \subseteq G
  <2> HIDE DEF G
  <2> QED
    BY <1>1, <1>2, SubsetsIn
<1> QED
  BY <1>3

\* Any member of the set can be taken out of its sum.
LEMMA TotalRemove ==
    ASSUME NEW f, NEW S, IsFiniteSet(S), \A i \in S : f[i] \in Int, NEW x \in S
    PROVE  Total(f, S) = f[x] + Total(f, S \ {x})
<1> DEFINE G == {T \in SUBSET S : \A y \in T : Total(f, T) = f[y] + Total(f, T \ {y})}
<1>0. \A T \in SUBSET S : IsFiniteSet(T) /\ Total(f, T) \in Int
  BY FS_Subset, TotalType
<1>1. {} \in G
  OBVIOUS
<1>2. ASSUME NEW T \in SUBSET S, T # {}, \A z \in T : T \ {z} \in G
      PROVE  T \in G
  <2> SUFFICES ASSUME NEW y \in T
               PROVE  Total(f, T) = f[y] + Total(f, T \ {y})
    OBVIOUS
  <2> DEFINE c == Chosen(T)
  <2>1. c \in T
    BY <1>2 DEF Chosen
  <2>2. Total(f, T) = f[c] + Total(f, T \ {c})
    BY <1>0, <1>2, TotalChosen
  <2>3. CASE y # c
    <3>1. Total(f, T \ {c}) = f[y] + Total(f, (T \ {c}) \ {y})
      BY <1>2, <2>1, <2>3
    <3>2. (T \ {c}) \ {y} = (T \ {y}) \ {c}
      OBVIOUS
    <3>3. Total(f, T \ {y}) = f[c] + Total(f, (T \ {c}) \ {y})
      BY <1>2, <2>1, <2>3, <3>2
    <3> DEFINE rest == Total(f, (T \ {c}) \ {y})
               fc == f[c]
               fy == f[y]
    <3>4. rest \in Int /\ fy \in Int /\ fc \in Int
      BY <1>0, <2>1
    <3>5. Total(f, T) = fc + (fy + rest) /\ fy + Total(f, T \ {y}) = fy + (fc + rest)
      BY <2>2, <3>1, <3>3
    <3> HIDE DEF rest, fc, fy
    <3>6. fc + (fy + rest) = fy + (fc + rest)
      BY <3>4
    <3> QED
      BY <3>5, <3>6 DEF fy
  <2> QED
    BY <2>2, <2>3
<1>3. SUBSET S \subseteq G
  <2> HIDE DEF G
  <2> QED
    BY <1>1, <1>2, SubsetsIn
<1> QED
  BY <1>3

\* Sums of functions that agree are equal.
LEMMA TotalAgree ==
    ASSUME NEW f, NEW g, NEW S, IsFiniteSet(S), \A i \in S : f[i] = g[i]
    PROVE  Total(f, S) = Total(g, S)
<1> DEFINE G == {T \in SUBSET S : Total(f, T) = Total(g, T)}
<1>1. {} \in G
  BY TotalEmpty
<1>2. ASSUME NEW T \in SUBSET S, T # {}, \A x \in T : T \ {x} \in G
      PROVE  T \in G
  <2>1. Chosen(T) \in T
    BY <1>2 DEF Chosen
  <2>2. /\ Total(f, T) = f[Chosen(T)] + Total(f, T \ {Chosen(T)})
        /\ Total(g, T) = g[Chosen(T)] + Total(g, T \ {Chosen(T)})
    BY <1>2, FS_Subset, TotalChosen
  <2>3. f[Chosen(T)] = g[Chosen(T)] /\ Total(f, T \ {Chosen(T)}) = Total(g, T \ {Chosen(T)})
    BY <1>2, <2>1
  <2> QED
    BY <2>2, <2>3
<1>3. SUBSET S \subseteq G
  <2> HIDE DEF G
  <2> QED
    BY <1>1, <1>2, SubsetsIn
<1> QED
  BY <1>3

\* The sum over two sets without a common member.
LEMMA TotalUnion ==
    ASSUME NEW f, NEW S, IsFiniteSet(S), NEW U, IsFiniteSet(U), S \cap U = {},
           \A i \in S \cup U : f[i] \in Int
    PROVE  Total(f, S \cup U) = Total(f, S) + Total(f, U)
<1> DEFINE G == {T \in SUBSET S : Total(f, T \cup U) = Total(f, T) + Total(f, U)}
<1>0. \A T \in SUBSET S : /\ IsFiniteSet(T) /\ IsFiniteSet(T \cup U)
                           /\ Total(f, T) \in Int /\ Total(f, T \cup U) \in Int
  <2> SUFFICES ASSUME NEW T \in SUBSET S
               PROVE  /\ IsFiniteSet(T) /\ IsFiniteSet(T \cup U)
                      /\ Total(f, T) \in Int /\ Total(f, T \cup U) \in Int
    OBVIOUS
  <2>1. IsFiniteSet(T) /\ IsFiniteSet(T \cup U)
    BY FS_Subset, FS_Union
  <2> QED
    BY <2>1, TotalType
<1>01. Total(f, U) \in Int
  BY TotalType
<1>1. {} \in G
  <2>1. {} \cup U = U
    OBVIOUS
  <2> QED
    BY <1>01, <2>1, TotalEmpty
<1>2. ASSUME NEW T \in SUBSET S, T # {}, \A x \in T : T \ {x} \in G
      PROVE  T \in G
  <2>1. PICK x \in T : TRUE
    BY <1>2
  <2>2. (T \cup U) \ {x} = (T \ {x}) \cup U
    OBVIOUS
  <2>3. Total(f, T \cup U) = f[x] + Total(f, (T \ {x}) \cup U)
    <3>1. IsFiniteSet(T \cup U) /\ x \in T \cup U /\ \A i \in T \cup U : f[i] \in Int
      BY <1>0
    <3> QED
      BY <2>2, <3>1, TotalRemove
  <2>4. Total(f, T) = f[x] + Total(f, T \ {x})
    <3>1. IsFiniteSet(T) /\ \A i \in T : f[i] \in Int
      BY <1>0
    <3> QED
      BY <3>1, TotalRemove
  <2>5. Total(f, (T \ {x}) \cup U) = Total(f, T \ {x}) + Total(f, U)
    BY <1>2
  <2>6. f[x] \in Int /\ Total(f, T \ {x}) \in Int
    BY <1>0
  <2> QED
    BY <1>01, <2>3, <2>4, <2>5, <2>6
<1>3. SUBSET S \subseteq G
  <2> HIDE DEF G
  <2> QED
    BY <1>1, <1>2, SubsetsIn
<1>4. S \in G
  BY <1>3
<1> QED
  BY <1>4

(***************************************************************************)
(* Sums of naturals, and sums of one, two and three terms.                 *)
(***************************************************************************)
\* A sum of naturals is one.
LEMMA TotalNat ==
    ASSUME NEW f, NEW S, IsFiniteSet(S), \A i \in S : f[i] \in Nat
    PROVE  Total(f, S) \in Nat
<1> DEFINE G == {T \in SUBSET S : Total(f, T) \in Nat}
<1>1. {} \in G
  BY TotalEmpty
<1>2. ASSUME NEW T \in SUBSET S, T # {}, \A x \in T : T \ {x} \in G
      PROVE  T \in G
  <2>1. Chosen(T) \in T
    BY <1>2 DEF Chosen
  <2>2. Total(f, T) = f[Chosen(T)] + Total(f, T \ {Chosen(T)})
    BY <1>2, FS_Subset, TotalChosen
  <2>3. f[Chosen(T)] \in Nat /\ Total(f, T \ {Chosen(T)}) \in Nat
    BY <1>2, <2>1
  <2> QED
    BY <2>2, <2>3
<1>3. SUBSET S \subseteq G
  <2> HIDE DEF G
  <2> QED
    BY <1>1, <1>2, SubsetsIn
<1> QED
  BY <1>3

\* The sums of one, two and three terms: the pairs and triples of find_legacy_subsets.
LEMMA TotalOne ==
    ASSUME NEW f, NEW x, f[x] \in Int
    PROVE  Total(f, {x}) = f[x]
<1>1. IsFiniteSet({x}) /\ x \in {x} /\ {x} \ {x} = {} /\ \A i \in {x} : f[i] \in Int
  BY FS_Singleton
<1>2. Total(f, {x}) = f[x] + Total(f, {x} \ {x})
  BY <1>1, TotalRemove
<1> QED
  BY <1>1, <1>2, TotalEmpty

\* Two terms.
LEMMA TotalTwo ==
    ASSUME NEW f, NEW x, NEW y, x # y, f[x] \in Int, f[y] \in Int
    PROVE  Total(f, {x, y}) = f[x] + f[y]
<1>1. IsFiniteSet({x, y}) /\ {x, y} \ {x} = {y}
  <2>1. {x, y} = {y} \cup {x} /\ IsFiniteSet({y})
    BY FS_Singleton
  <2> QED
    BY <2>1, FS_AddElement
<1>2. Total(f, {x, y}) = f[x] + Total(f, {x, y} \ {x})
  BY <1>1, TotalRemove
<1> QED
  BY <1>1, <1>2, TotalOne

\* Three terms.
LEMMA TotalThree ==
    ASSUME NEW f, NEW x, NEW y, NEW z, x # y, x # z, y # z,
           f[x] \in Int, f[y] \in Int, f[z] \in Int
    PROVE  Total(f, {x, y, z}) = f[x] + f[y] + f[z]
<1>1. IsFiniteSet({y, z}) /\ {x, y, z} = {y, z} \cup {x} /\ {x, y, z} \ {x} = {y, z}
  <2>1. {y, z} = {z} \cup {y} /\ IsFiniteSet({z})
    BY FS_Singleton
  <2> QED
    BY <2>1, FS_AddElement
<1>2. IsFiniteSet({x, y, z})
  BY <1>1, FS_AddElement
<1>3. Total(f, {x, y, z}) = f[x] + Total(f, {y, z})
  <2>1. x \in {x, y, z} /\ \A i \in {x, y, z} : f[i] \in Int
    OBVIOUS
  <2> QED
    BY <1>1, <1>2, <2>1, TotalRemove
<1>4. Total(f, {y, z}) = f[y] + f[z]
  BY TotalTwo
<1> QED
  BY <1>3, <1>4

(***************************************************************************)
(* The order of costs, and the order in which candidates are tried.        *)
(***************************************************************************)
\* One cost is below another: what LexLess says of five parts, part by part.
Below(a, b) ==
    \/ a[1] < b[1]
    \/ a[1] = b[1] /\ a[2] < b[2]
    \/ a[1] = b[1] /\ a[2] = b[2] /\ a[3] < b[3]
    \/ a[1] = b[1] /\ a[2] = b[2] /\ a[3] = b[3] /\ a[4] < b[4]
    \/ a[1] = b[1] /\ a[2] = b[2] /\ a[3] = b[3] /\ a[4] = b[4] /\ a[5] < b[5]

\* Python's comparison of cost tuples, and of their first two parts.
LEMMA LexIsBelow ==
    ASSUME NEW a \in Cost, NEW b \in Cost
    PROVE  /\ LexLess(a, b, 5) <=> Below(a, b)
           /\ LexLess(a, b, 2) <=> a[1] < b[1] \/ (a[1] = b[1] /\ a[2] < b[2])
<1> DEFINE P(i) == a[i] < b[i] /\ \A j \in 1 .. i - 1 : a[j] = b[j]
<1>1. LexLess(a, b, 5) <=> P(1) \/ P(2) \/ P(3) \/ P(4) \/ P(5)
  <2>1. LexLess(a, b, 5) <=> \E i \in 1 .. 5 : P(i)
    BY DEF LexLess
  <2>2. 1 .. 5 = {1, 2, 3, 4, 5}
    OBVIOUS
  <2> HIDE DEF P
  <2> QED
    BY <2>1, <2>2
<1>2. LexLess(a, b, 2) <=> P(1) \/ P(2)
  <2>1. LexLess(a, b, 2) <=> \E i \in 1 .. 2 : P(i)
    BY DEF LexLess
  <2>2. 1 .. 2 = {1, 2}
    OBVIOUS
  <2> HIDE DEF P
  <2> QED
    BY <2>1, <2>2
<1>3. P(1) <=> a[1] < b[1]
  OBVIOUS
<1>4. P(2) <=> a[1] = b[1] /\ a[2] < b[2]
  <2>1. 1 .. 2 - 1 = {1}
    OBVIOUS
  <2> QED
    BY <2>1
<1>5. P(3) <=> a[1] = b[1] /\ a[2] = b[2] /\ a[3] < b[3]
  <2>1. 1 .. 3 - 1 = {1, 2}
    OBVIOUS
  <2> QED
    BY <2>1
<1>6. P(4) <=> a[1] = b[1] /\ a[2] = b[2] /\ a[3] = b[3] /\ a[4] < b[4]
  <2>1. 1 .. 4 - 1 = {1, 2, 3}
    OBVIOUS
  <2> QED
    BY <2>1
<1>7. P(5) <=> a[1] = b[1] /\ a[2] = b[2] /\ a[3] = b[3] /\ a[4] = b[4] /\ a[5] < b[5]
  <2>1. 1 .. 5 - 1 = {1, 2, 3, 4}
    OBVIOUS
  <2> QED
    BY <2>1
<1> HIDE DEF P
<1> QED
  BY <1>1, <1>2, <1>3, <1>4, <1>5, <1>6, <1>7 DEF Below

\* The parts of a cost are integers.
LEMMA CostParts ==
    ASSUME NEW a \in Cost
    PROVE  a[1] \in Int /\ a[2] \in Int /\ a[3] \in Int /\ a[4] \in Int /\ a[5] \in Int
BY DEF Cost

\* The sum of two costs, part by part.
LEMMA AddedParts ==
    ASSUME NEW a \in Cost, NEW b \in Cost
    PROVE  /\ _add_costs(a, b) \in Cost
           /\ \A i \in 1 .. 5 : _add_costs(a, b)[i] = a[i] + b[i]
BY DEF Cost, _add_costs

\* Costs are totally ordered.
LEMMA BelowOrders ==
    ASSUME NEW a \in Cost, NEW b \in Cost, NEW c \in Cost
    PROVE  /\ ~Below(a, a)
           /\ Below(a, b) => ~Below(b, a)
           /\ Below(a, b) /\ Below(b, c) => Below(a, c)
           /\ ~Below(a, b) /\ ~Below(b, c) => ~Below(a, c)
           /\ ~Below(a, b) /\ Below(c, b) => Below(c, a)
<1> DEFINE a1 == a[1]  a2 == a[2]  a3 == a[3]  a4 == a[4]  a5 == a[5]
           b1 == b[1]  b2 == b[2]  b3 == b[3]  b4 == b[4]  b5 == b[5]
           c1 == c[1]  c2 == c[2]  c3 == c[3]  c4 == c[4]  c5 == c[5]
<1>1. /\ a1 \in Int /\ a2 \in Int /\ a3 \in Int /\ a4 \in Int /\ a5 \in Int
      /\ b1 \in Int /\ b2 \in Int /\ b3 \in Int /\ b4 \in Int /\ b5 \in Int
      /\ c1 \in Int /\ c2 \in Int /\ c3 \in Int /\ c4 \in Int /\ c5 \in Int
  BY CostParts
<1> QED
  BY <1>1 DEF Below

\* Adding costs keeps their order: what is not better in either part is not better in all.
LEMMA BelowAdds ==
    ASSUME NEW a \in Cost, NEW b \in Cost, NEW c \in Cost, NEW d \in Cost,
           ~Below(a, c), ~Below(b, d)
    PROVE  ~Below(_add_costs(a, b), _add_costs(c, d))
<1> DEFINE a1 == a[1]  a2 == a[2]  a3 == a[3]  a4 == a[4]  a5 == a[5]
           b1 == b[1]  b2 == b[2]  b3 == b[3]  b4 == b[4]  b5 == b[5]
           c1 == c[1]  c2 == c[2]  c3 == c[3]  c4 == c[4]  c5 == c[5]
           d1 == d[1]  d2 == d[2]  d3 == d[3]  d4 == d[4]  d5 == d[5]
<1>1. /\ a1 \in Int /\ a2 \in Int /\ a3 \in Int /\ a4 \in Int /\ a5 \in Int
      /\ b1 \in Int /\ b2 \in Int /\ b3 \in Int /\ b4 \in Int /\ b5 \in Int
      /\ c1 \in Int /\ c2 \in Int /\ c3 \in Int /\ c4 \in Int /\ c5 \in Int
      /\ d1 \in Int /\ d2 \in Int /\ d3 \in Int /\ d4 \in Int /\ d5 \in Int
  BY CostParts
<1> DEFINE s == _add_costs(a, b)
           t == _add_costs(c, d)
<1>2. /\ s[1] = a1 + b1 /\ s[2] = a2 + b2 /\ s[3] = a3 + b3 /\ s[4] = a4 + b4 /\ s[5] = a5 + b5
      /\ t[1] = c1 + d1 /\ t[2] = c2 + d2 /\ t[3] = c3 + d3 /\ t[4] = c4 + d4 /\ t[5] = c5 + d5
  BY AddedParts
<1>3. /\ ~(\/ a1 < c1 \/ (a1 = c1 /\ a2 < c2) \/ (a1 = c1 /\ a2 = c2 /\ a3 < c3)
           \/ (a1 = c1 /\ a2 = c2 /\ a3 = c3 /\ a4 < c4)
           \/ (a1 = c1 /\ a2 = c2 /\ a3 = c3 /\ a4 = c4 /\ a5 < c5))
      /\ ~(\/ b1 < d1 \/ (b1 = d1 /\ b2 < d2) \/ (b1 = d1 /\ b2 = d2 /\ b3 < d3)
           \/ (b1 = d1 /\ b2 = d2 /\ b3 = d3 /\ b4 < d4)
           \/ (b1 = d1 /\ b2 = d2 /\ b3 = d3 /\ b4 = d4 /\ b5 < d5))
  BY DEF Below
<1> HIDE DEF s, t, a1, a2, a3, a4, a5, b1, b2, b3, b4, b5, c1, c2, c3, c4, c5, d1, d2, d3,
  d4, d5
<1>4. ~Below(s, t)
  BY <1>1, <1>2, <1>3 DEF Below
<1> QED
  BY <1>4 DEF s, t

\* Sums that tie in the first three parts, of parts neither of which is better, tie in each.
LEMMA TiesSplit ==
    ASSUME NEW a \in Cost, NEW b \in Cost, NEW c \in Cost, NEW d \in Cost,
           ~Below(a, c), ~Below(b, d),
           \A i \in 1 .. 3 : _add_costs(a, b)[i] = _add_costs(c, d)[i]
    PROVE  /\ \A i \in 1 .. 3 : a[i] = c[i] /\ b[i] = d[i]
           /\ a[4] >= c[4] /\ b[4] >= d[4]
<1> DEFINE a1 == a[1]  a2 == a[2]  a3 == a[3]  a4 == a[4]
           b1 == b[1]  b2 == b[2]  b3 == b[3]  b4 == b[4]
           c1 == c[1]  c2 == c[2]  c3 == c[3]  c4 == c[4]
           d1 == d[1]  d2 == d[2]  d3 == d[3]  d4 == d[4]
<1>1. /\ a1 \in Int /\ a2 \in Int /\ a3 \in Int /\ a4 \in Int
      /\ b1 \in Int /\ b2 \in Int /\ b3 \in Int /\ b4 \in Int
      /\ c1 \in Int /\ c2 \in Int /\ c3 \in Int /\ c4 \in Int
      /\ d1 \in Int /\ d2 \in Int /\ d3 \in Int /\ d4 \in Int
  BY CostParts
<1>2. a1 + b1 = c1 + d1 /\ a2 + b2 = c2 + d2 /\ a3 + b3 = c3 + d3
  <2>1. \A i \in 1 .. 3 : a[i] + b[i] = c[i] + d[i]
    BY AddedParts
  <2> QED
    BY <2>1
<1>3. /\ ~(\/ a1 < c1 \/ (a1 = c1 /\ a2 < c2) \/ (a1 = c1 /\ a2 = c2 /\ a3 < c3)
           \/ (a1 = c1 /\ a2 = c2 /\ a3 = c3 /\ a4 < c4))
      /\ ~(\/ b1 < d1 \/ (b1 = d1 /\ b2 < d2) \/ (b1 = d1 /\ b2 = d2 /\ b3 < d3)
           \/ (b1 = d1 /\ b2 = d2 /\ b3 = d3 /\ b4 < d4))
  BY DEF Below
<1>4. 1 .. 3 = {1, 2, 3}
  OBVIOUS
<1> HIDE DEF a1, a2, a3, a4, b1, b2, b3, b4, c1, c2, c3, c4, d1, d2, d3, d4
<1>5. /\ a1 = c1 /\ a2 = c2 /\ a3 = c3 /\ a4 >= c4
      /\ b1 = d1 /\ b2 = d2 /\ b3 = d3 /\ b4 >= d4
  BY <1>1, <1>2, <1>3
<1> QED
  BY <1>4, <1>5 DEF a1, a2, a3, a4, b1, b2, b3, b4, c1, c2, c3, c4, d1, d2, d3, d4

\* A set of naturals that is not empty has a smallest member.
LEMMA SmallestOf ==
    ASSUME NEW S \in SUBSET Nat, S # {}
    PROVE  \E x \in S : \A y \in S : x <= y
<1> DEFINE Less == OpToRel(<, Nat)
<1>1. PICK x \in S : \A y \in S : <<y, x>> \notin Less
  BY NatLessThanWellFounded, WFMin
<1>2. \A y \in S : ~(y < x)
  BY <1>1 DEF OpToRel
<1> HIDE DEF Less
<1>3. \A y \in S : x <= y
  BY <1>2
<1> QED
  BY <1>3

\* Tuples of credits compare like Python's tuples of keys: no tuple before itself, and what
\* is before one that is before a third is before the third.
LEMMA CreditsOrder ==
    ASSUME NEW S \in SUBSET Nat, NEW T \in SUBSET Nat, NEW U \in SUBSET Nat
    PROVE  /\ ~CreditsBefore(S, S)
           /\ CreditsBefore(S, T) /\ CreditsBefore(T, U) => CreditsBefore(S, U)
<1>1. ~CreditsBefore(S, S)
  BY DEF CreditsBefore
<1>2. ASSUME CreditsBefore(S, T), CreditsBefore(T, U)
      PROVE  CreditsBefore(S, U)
  <2>1. PICK i \in S \cup T :
            /\ \A j \in S \cup T : j < i => (j \in S <=> j \in T)
            /\ \/ i \notin T /\ \E j \in T : j > i
               \/ i \notin S /\ \A j \in S : j < i
    BY <1>2 DEF CreditsBefore
  <2>2. PICK k \in T \cup U :
            /\ \A j \in T \cup U : j < k => (j \in T <=> j \in U)
            /\ \/ k \notin U /\ \E j \in U : j > k
               \/ k \notin T /\ \A j \in T : j < k
    BY <1>2 DEF CreditsBefore
  <2>3. i \in Nat /\ k \in Nat
    OBVIOUS
  <2>4. CASE i < k
    <3>1. i \in S \cup U /\ \A j \in S \cup U : j < i => (j \in S <=> j \in U)
      <4>1. i \in S \cup U
        BY <2>1, <2>2, <2>4
      <4>2. ASSUME NEW j \in S \cup U, j < i
            PROVE  j \in S <=> j \in U
        <5>1. j \in Nat /\ j < k
          BY <2>3, <2>4, <4>2
        <5> QED
          BY <2>1, <2>2, <4>2, <5>1
      <4> QED
        BY <4>1, <4>2
    <3>2. CASE i \notin T /\ \E j \in T : j > i
      <4>1. i \notin U
        BY <2>2, <2>4, <3>2
      <4>2. PICK t \in T : t > i
        BY <3>2
      <4>3. \E j \in U : j > i
        <5>1. CASE t < k
          BY <2>2, <4>2, <5>1
        <5>2. CASE ~(t < k)
          <6>1. CASE k \notin U /\ \E j \in U : j > k
            <7>1. PICK j \in U : j > k
              BY <6>1
            <7>2. j \in Nat /\ j > i
              BY <2>3, <2>4, <7>1
            <7> QED
              BY <7>2
          <6>2. CASE k \notin T /\ \A j \in T : j < k
            BY <4>2, <5>2, <6>2
          <6> QED
            BY <2>2, <6>1, <6>2
        <5> QED
          BY <5>1, <5>2
      <4> QED
        BY <3>1, <4>1, <4>3 DEF CreditsBefore
    <3>3. CASE i \notin S /\ \A j \in S : j < i
      BY <3>1, <3>3 DEF CreditsBefore
    <3> QED
      BY <2>1, <3>2, <3>3
  <2>5. CASE i = k
    <3>1. i \in T /\ i \notin S /\ i \notin U /\ \A j \in S : j < i
      BY <2>1, <2>2, <2>3, <2>5
    <3>2. \E j \in U : j > i
      BY <2>2, <2>5, <3>1
    <3> DEFINE More == {j \in U : j > i}
    <3>3. PICK m \in More : \A y \in More : m <= y
      BY <3>2, SmallestOf
    <3>4. m \in U /\ m \in Nat /\ m > i /\ m \notin S /\ \A j \in S : j < m
      <4>1. m \in U /\ m \in Nat /\ m > i
        BY <3>3
      <4>2. \A j \in S : j \in Nat /\ j < m
        BY <2>3, <3>1, <4>1
      <4> QED
        BY <4>1, <4>2
    <3>5. ASSUME NEW j \in S \cup U, j < m
          PROVE  j \in S <=> j \in U
      <4>1. j < i
        <5>1. CASE j \in S
          BY <3>1, <5>1
        <5>2. CASE j \in U
          <6>1. j \notin More /\ j \in Nat
            BY <3>3, <3>4, <3>5
          <6>2. ~(j > i) /\ j # i
            BY <3>1, <5>2, <6>1
          <6> QED
            BY <2>3, <6>1, <6>2
        <5> QED
          BY <5>1, <5>2
      <4> QED
        BY <2>1, <2>2, <2>5, <4>1
    <3> QED
      BY <3>4, <3>5 DEF CreditsBefore
  <2>6. CASE k < i
    <3>1. ASSUME NEW j \in S \cup U, j < k
          PROVE  j \in S <=> j \in U
      <4>1. j \in Nat /\ j < i
        BY <2>3, <2>6, <3>1
      <4> QED
        BY <2>1, <2>2, <3>1, <4>1
    <3>2. CASE k \notin U /\ \E j \in U : j > k
      <4>1. k \in S
        BY <2>1, <2>2, <2>6, <3>2
      <4> QED
        BY <3>1, <3>2, <4>1 DEF CreditsBefore
    <3>3. CASE k \notin T /\ \A j \in T : j < k
      <4>1. FALSE
        <5>1. i \notin T
          BY <2>3, <2>6, <3>3
        <5>2. PICK t \in T : t > i
          BY <2>1, <5>1
        <5>3. t \in Nat /\ t < k
          BY <3>3
        <5> QED
          BY <2>3, <2>6, <5>2, <5>3
      <4> QED
        BY <4>1
    <3> QED
      BY <2>2, <3>2, <3>3
  <2> QED
    BY <2>3, <2>4, <2>5, <2>6
<1> QED
  BY <1>1, <1>2

\* What the search needs of a set of candidates: each is for some of the credits and has a
\* cost, and none lowers the first two parts of it.
Edges(D) ==
    /\ IsFiniteSet(D)
    /\ \A c \in D : /\ c.credits \in SUBSET Credits /\ c.credits # {}
                    /\ c.target \in Int /\ c.target >= ABSTAIN /\ c.cost \in Cost
                    /\ c.cost[1] >= 0 /\ c.cost[2] >= 0

\* Credits are numbered lines.
LEMMA CreditsAreNat == Credits \subseteq Nat /\ IsFiniteSet(Credits)
<1>1. Credits \subseteq 1 .. NumLines
  BY DEF Credits, Lines
<1>2. IsFiniteSet(1 .. NumLines)
  <2>1. \A n \in Nat : IsFiniteSet(1 .. n)
    BY FS_Interval
  <2> QED
    BY <2>1, EvidenceAssumption
<1>3. Credits \subseteq Nat
  BY <1>1
<1>4. IsFiniteSet(Credits)
  BY <1>1, <1>2, FS_Subset
<1> QED
  BY <1>3, <1>4

\* The order in which the search sorts candidates is one.
LEMMA TriedOrder ==
    ASSUME NEW D, Edges(D), NEW a \in D, NEW b \in D, NEW c \in D
    PROVE  /\ ~TriedBefore(a, a)
           /\ TriedBefore(a, b) /\ TriedBefore(b, c) => TriedBefore(a, c)
<1>1. /\ a.cost \in Cost /\ b.cost \in Cost /\ c.cost \in Cost
      /\ a.target \in Int /\ b.target \in Int /\ c.target \in Int
      /\ a.credits \in SUBSET Nat /\ b.credits \in SUBSET Nat /\ c.credits \in SUBSET Nat
  BY CreditsAreNat DEF Edges
<1> DEFINE less(x, y) == LexLess(x.cost, y.cost, 5)
           before(x, y) == CreditsBefore(x.credits, y.credits)
<1>2. ~less(a, a) /\ (less(a, b) /\ less(b, c) => less(a, c))
  BY <1>1, LexIsBelow, BelowOrders
<1>3. ~before(a, a) /\ (before(a, b) /\ before(b, c) => before(a, c))
  BY <1>1, CreditsOrder
<1>4. \A x, y : TriedBefore(x, y) <=>
          \/ less(x, y)
          \/ x.cost = y.cost /\ (before(x, y) \/ (x.credits = y.credits /\ x.target < y.target))
  BY DEF TriedBefore
<1>5. /\ (a.cost = b.cost /\ less(b, c) => less(a, c))
      /\ (less(a, b) /\ b.cost = c.cost => less(a, c))
      /\ (a.credits = b.credits /\ before(b, c) => before(a, c))
      /\ (before(a, b) /\ b.credits = c.credits => before(a, c))
  OBVIOUS
<1> HIDE DEF less, before
<1> QED
  BY <1>1, <1>2, <1>3, <1>4, <1>5

\* So every set of candidates has one that is tried last.
LEMMA LastIsTried ==
    ASSUME NEW D, Edges(D), NEW T \in SUBSET D, T # {}
    PROVE  LastTried(T) \in T
<1> DEFINE G == {V \in SUBSET D : V # {} => \E c \in V : \A d \in V : ~TriedBefore(c, d)}
<1>1. {} \in G
  OBVIOUS
<1>2. ASSUME NEW V \in SUBSET D, V # {}, \A x \in V : V \ {x} \in G
      PROVE  V \in G
  <2>1. PICK z \in V : TRUE
    BY <1>2
  <2>2. CASE V \ {z} = {}
    <3>1. V = {z}
      BY <2>2
    <3>2. ~TriedBefore(z, z)
      BY TriedOrder
    <3> QED
      BY <3>1, <3>2
  <2>3. CASE V \ {z} # {}
    <3>1. PICK c \in V \ {z} : \A d \in V \ {z} : ~TriedBefore(c, d)
      BY <1>2, <2>3
    <3>2. CASE ~TriedBefore(c, z)
      BY <3>1, <3>2
    <3>3. CASE TriedBefore(c, z)
      <4>1. ASSUME NEW d \in V, TriedBefore(z, d)
            PROVE  FALSE
        <5>1. d # z
          BY <4>1, TriedOrder
        <5>2. TriedBefore(c, d)
          BY <3>3, <4>1, TriedOrder
        <5> QED
          BY <3>1, <5>1, <5>2
      <4> QED
        BY <4>1
    <3> QED
      BY <3>2, <3>3
  <2> QED
    BY <2>2, <2>3
<1>3. SUBSET D \subseteq G
  <2>1. IsFiniteSet(D)
    BY DEF Edges
  <2> HIDE DEF G
  <2> QED
    BY <1>1, <1>2, <2>1, SubsetsIn
<1>4. \E c \in T : \A d \in T : ~TriedBefore(c, d)
  BY <1>3
<1> QED
  BY <1>4 DEF LastTried

(***************************************************************************)
(* Assignments and what they cost.                                         *)
(***************************************************************************)
\* Candidates that can be chosen together: no credit and no settlement is used twice.
Compatible(A) ==
    \A c, d \in A : c # d => /\ c.credits \cap d.credits = {}
                             /\ c.target = d.target => c.target < 1

\* The ways to assign the credits U, and those that take no settlement of K.
Assigned(D, U) == {A \in SUBSET D : UNION {c.credits : c \in A} = U /\ Compatible(A)}
Open(D, U, K) == {A \in Assigned(D, U) : \A c \in A : c.target \notin K}

\* The cost of a set of candidates is a cost, 0 for none of them.
LEMMA CostType ==
    ASSUME NEW D, Edges(D), NEW A \in SUBSET D
    PROVE  /\ TotalCost(A) \in Cost
           /\ TotalCost(A)[1] >= 0 /\ TotalCost(A)[2] >= 0
<1>1. IsFiniteSet(A)
  BY FS_Subset DEF Edges
<1>2. \A i \in 1 .. 5 : TotalCost(A)[i] = Total([c \in A |-> c.cost[i]], A)
  BY DEF TotalCost
<1>3. ASSUME NEW i \in 1 .. 5
      PROVE  Total([c \in A |-> c.cost[i]], A) \in Int
  <2> DEFINE f == [c \in A |-> c.cost[i]]
  <2>1. \A c \in A : f[c] \in Int
    BY DEF Edges, Cost
  <2> HIDE DEF f
  <2>2. Total(f, A) \in Int
    BY <1>1, <2>1, TotalType
  <2> QED
    BY <2>2 DEF f
<1>4. ASSUME NEW i \in 1 .. 2
      PROVE  Total([c \in A |-> c.cost[i]], A) \in Nat
  <2> DEFINE f == [c \in A |-> c.cost[i]]
  <2>1. \A c \in A : f[c] \in Nat
    <3>1. 1 .. 2 = {1, 2}
      OBVIOUS
    <3>2. \A c \in A : c.cost[1] \in Nat /\ c.cost[2] \in Nat
      BY CostParts DEF Edges
    <3> QED
      BY <3>1, <3>2
  <2> HIDE DEF f
  <2>2. Total(f, A) \in Nat
    BY <1>1, <2>1, TotalNat
  <2> QED
    BY <2>2 DEF f
<1>5. TotalCost(A) \in Cost
  BY <1>3 DEF TotalCost, Cost
<1>6. TotalCost(A)[1] \in Nat /\ TotalCost(A)[2] \in Nat
  BY <1>2, <1>4
<1> QED
  BY <1>5, <1>6

\* Adding costs in any grouping.
LEMMA AddGroups ==
    ASSUME NEW a \in Cost, NEW b \in Cost, NEW c \in Cost
    PROVE  _add_costs(_add_costs(a, b), c) = _add_costs(a, _add_costs(b, c))
<1>1. \A i \in 1 .. 5 : (a[i] + b[i]) + c[i] = a[i] + (b[i] + c[i])
  BY DEF Cost
<1> QED
  BY <1>1 DEF _add_costs

\* Nothing costs nothing.
LEMMA CostNothing ==
    /\ TotalCost({}) \in Cost
    /\ \A a \in Cost : _add_costs(a, TotalCost({})) = a /\ _add_costs(TotalCost({}), a) = a
<1>1. \A i \in 1 .. 5 : TotalCost({})[i] = 0
  BY TotalEmpty DEF TotalCost
<1>2. TotalCost({}) = [i \in 1 .. 5 |-> TotalCost({})[i]]
  BY DEF TotalCost
<1>3. TotalCost({}) \in Cost
  BY <1>1, <1>2 DEF Cost
<1>4. ASSUME NEW a \in Cost
      PROVE  _add_costs(a, TotalCost({})) = a /\ _add_costs(TotalCost({}), a) = a
  <2>1. \A i \in 1 .. 5 : a[i] + TotalCost({})[i] = a[i] /\ TotalCost({})[i] + a[i] = a[i]
    BY <1>1 DEF Cost
  <2>2. a = [i \in 1 .. 5 |-> a[i]]
    BY DEF Cost
  <2> QED
    BY <2>1, <2>2 DEF _add_costs
<1> QED
  BY <1>3, <1>4

\* The cost of two sets without a common candidate.
LEMMA CostUnion ==
    ASSUME NEW D, Edges(D), NEW A \in SUBSET D, NEW B \in SUBSET D, A \cap B = {}
    PROVE  TotalCost(A \cup B) = _add_costs(TotalCost(A), TotalCost(B))
<1>1. IsFiniteSet(A) /\ IsFiniteSet(B) /\ IsFiniteSet(A \cup B)
  <2>1. A \cup B \in SUBSET D
    OBVIOUS
  <2> QED
    BY <2>1, FS_Subset DEF Edges
<1>2. ASSUME NEW i \in 1 .. 5
      PROVE  Total([c \in A \cup B |-> c.cost[i]], A \cup B)
               = Total([c \in A |-> c.cost[i]], A) + Total([c \in B |-> c.cost[i]], B)
  <2> DEFINE f == [c \in A \cup B |-> c.cost[i]]
             g == [c \in A |-> c.cost[i]]
             h == [c \in B |-> c.cost[i]]
  <2>1. \A c \in A \cup B : f[c] \in Int
    BY DEF Edges, Cost
  <2>2. (\A c \in A : f[c] = g[c]) /\ (\A c \in B : f[c] = h[c])
    OBVIOUS
  <2> HIDE DEF f, g, h
  <2>3. Total(f, A \cup B) = Total(f, A) + Total(f, B)
    BY <1>1, <2>1, TotalUnion
  <2>4. Total(f, A) = Total(g, A) /\ Total(f, B) = Total(h, B)
    BY <1>1, <2>2, TotalAgree
  <2>5. Total(f, A \cup B) = Total(g, A) + Total(h, B)
    BY <2>3, <2>4
  <2> QED
    BY <2>5 DEF f, g, h
<1> QED
  BY <1>2 DEF TotalCost, _add_costs

\* The cost of one candidate.
LEMMA CostOne ==
    ASSUME NEW D, Edges(D), NEW c \in D
    PROVE  TotalCost({c}) = c.cost
<1>1. ASSUME NEW i \in 1 .. 5
      PROVE  Total([d \in {c} |-> d.cost[i]], {c}) = c.cost[i]
  <2> DEFINE f == [d \in {c} |-> d.cost[i]]
  <2>1. f[c] \in Int /\ f[c] = c.cost[i]
    BY DEF Edges, Cost
  <2> HIDE DEF f
  <2>2. Total(f, {c}) = f[c]
    BY <2>1, TotalOne
  <2> QED
    BY <2>1, <2>2 DEF f
<1>2. c.cost = [i \in 1 .. 5 |-> c.cost[i]]
  BY DEF Edges, Cost
<1> QED
  BY <1>1, <1>2 DEF TotalCost

\* An assignment is a candidate for the first credit, chosen as the search does, and an
\* assignment of the credits that it leaves.
LEMMA TakeOne ==
    ASSUME NEW D, Edges(D), NEW U \in SUBSET Credits, NEW K, NEW A \in Open(D, U, K),
           NEW c \in A
    PROVE  A \ {c} \in Open(D, U \ c.credits, K \cup ({c.target} \ {ABSTAIN, RAIL}))
<1>1. A \in SUBSET D /\ UNION {d.credits : d \in A} = U /\ Compatible(A)
  BY DEF Open, Assigned
<1>2. Compatible(A \ {c})
  BY <1>1 DEF Compatible
<1>3. UNION {d.credits : d \in A \ {c}} = U \ c.credits
  <2>1. \A d \in A \ {c} : d.credits \cap c.credits = {}
    BY <1>1 DEF Compatible
  <2>2. ASSUME NEW x
        PROVE  x \in UNION {d.credits : d \in A \ {c}} <=> x \in U \ c.credits
    <3>1. x \in UNION {d.credits : d \in A \ {c}} <=> \E d \in A \ {c} : x \in d.credits
      OBVIOUS
    <3>2. x \in U <=> \E d \in A : x \in d.credits
      BY <1>1
    <3> QED
      BY <2>1, <3>1, <3>2
  <2> QED
    BY <2>2
<1>4. ASSUME NEW d \in A \ {c}
      PROVE  d.target \notin K \cup ({c.target} \ {ABSTAIN, RAIL})
  <2>1. d.target \notin K
    BY DEF Open
  <2>2. d.target = c.target => d.target < 1 /\ d.target \in Int /\ d.target >= ABSTAIN
    BY <1>1 DEF Compatible, Edges
  <2>3. d.target = c.target => d.target \in {ABSTAIN, RAIL}
    BY <2>2 DEF ABSTAIN, RAIL
  <2> QED
    BY <2>1, <2>3
<1> QED
  BY <1>1, <1>2, <1>3, <1>4 DEF Open, Assigned

\* The other way around.
LEMMA PutOne ==
    ASSUME NEW D, Edges(D), NEW U \in SUBSET Credits, NEW K, NEW c \in ValidCands(D, U, K),
           NEW B \in Open(D, U \ c.credits, K \cup ({c.target} \ {ABSTAIN, RAIL}))
    PROVE  /\ c \notin B
           /\ {c} \cup B \in Open(D, U, K)
<1>1. /\ B \in SUBSET D /\ UNION {d.credits : d \in B} = U \ c.credits /\ Compatible(B)
      /\ \A d \in B : d.target \notin K \cup ({c.target} \ {ABSTAIN, RAIL})
  BY DEF Open, Assigned
<1>2. c \in D /\ c.credits \subseteq U /\ c.target \notin K /\ c.credits # {}
  BY DEF ValidCands, Edges
<1>3. \A d \in B : d.credits \cap c.credits = {}
  BY <1>1
<1>4. c \notin B
  BY <1>2, <1>3
<1>5. Compatible({c} \cup B)
  <2>1. \A d \in B : d.target = c.target => c.target < 1
    <3>1. \A d \in B : d.target = c.target => c.target \in {ABSTAIN, RAIL}
      BY <1>1
    <3> QED
      BY <3>1 DEF ABSTAIN, RAIL
  <2> QED
    BY <1>1, <1>3, <2>1 DEF Compatible
<1>6. UNION {d.credits : d \in {c} \cup B} = U
  <2>1. ASSUME NEW x
        PROVE  x \in UNION {d.credits : d \in {c} \cup B} <=> x \in U
    <3>1. x \in UNION {d.credits : d \in {c} \cup B} <=> x \in c.credits
          \/ \E d \in B : x \in d.credits
      OBVIOUS
    <3>2. x \in U \ c.credits <=> \E d \in B : x \in d.credits
      BY <1>1
    <3> QED
      BY <1>2, <3>1, <3>2
  <2> QED
    BY <2>1
<1>7. \A d \in {c} \cup B : d.target \notin K
  BY <1>1, <1>2
<1>8. {c} \cup B \in SUBSET D
  BY <1>1, <1>2
<1> QED
  BY <1>4, <1>5, <1>6, <1>7, <1>8 DEF Open, Assigned

\* The first of some credits is one of them.
LEMMA FirstCredit ==
    ASSUME NEW U \in SUBSET Credits, U # {}
    PROVE  Min(U) \in U
<1>1. \E x \in U : \A y \in U : x <= y
  BY CreditsAreNat, SmallestOf
<1> QED
  BY <1>1 DEF Min

\* Every assignment begins with a candidate that the search tries.
LEMMA SomeTried ==
    ASSUME NEW D, NEW U \in SUBSET Credits, U # {}, NEW K, NEW A \in Open(D, U, K)
    PROVE  A \cap ValidCands(D, U, K) # {}
<1>1. /\ A \in SUBSET D /\ UNION {d.credits : d \in A} = U
      /\ \A d \in A : d.target \notin K
  BY DEF Open, Assigned
<1>2. PICK c \in A : Min(U) \in c.credits
  BY <1>1, FirstCredit
<1>3. c \in ValidCands(D, U, K)
  BY <1>1, <1>2 DEF ValidCands
<1> QED
  BY <1>3

\* With nothing left to assign there is nothing left to choose.
LEMMA NothingOpen ==
    ASSUME NEW D, Edges(D), NEW K
    PROVE  Open(D, {}, K) = {{}}
<1>1. ASSUME NEW A \in Open(D, {}, K)
      PROVE  A = {}
  <2>1. A \in SUBSET D /\ UNION {d.credits : d \in A} = {}
    BY DEF Open, Assigned
  <2>2. \A d \in A : d.credits = {}
    BY <2>1
  <2> QED
    BY <2>1, <2>2 DEF Edges
<1>2. {} \in Open(D, {}, K)
  BY DEF Open, Assigned, Compatible
<1> QED
  BY <1>1, <1>2

(***************************************************************************)
(* The search.                                                             *)
(***************************************************************************)
\* A call has nothing but settlements among those taken.
Proper(D, call) == call \in Call(D) /\ ABSTAIN \notin call.taken /\ RAIL \notin call.taken

\* The assignments that a call can complete its choice with, and the cost it then has.
Completions(D, call) == Open(D, call.unassigned, call.taken)
With(call, A) == _add_costs(call.cost, TotalCost(A))

\* The best that a call leaves is the one it was given or a completion of its choice.
Derived(D, call, p, r) ==
    \/ r.cost = p.cost /\ r.best = p.best
    \/ \E A \in Completions(D, call) : r.cost = With(call, A) /\ r.best = call.chosen \cup A

\* What a call leaves after the candidates of T: never something worse than it was given,
\* and nothing that a completion with one of T beats, unless the budget is spent.
Leaves(D, call, p, T, r) ==
    /\ r \in Progress(D)
    /\ ~Below(p.cost, r.cost)
    /\ Derived(D, call, p, r)
    /\ \/ r.exceeded
       \/ \A A \in Completions(D, call) : A \cap T # {} => ~Below(With(call, A), r.cost)

\* What it leaves in the end.
Completes(D, call, r) ==
    /\ r \in Progress(D)
    /\ ~Below(call.progress.cost, r.cost)
    /\ Derived(D, call, call.progress, r)
    /\ r.exceeded \/ \A A \in Completions(D, call) : ~Below(With(call, A), r.cost)

\* next does so for every call with fewer than k credits to assign.
Searches(D, next, k) ==
    \A call \in Call(D) :
        Proper(D, call) /\ Cardinality(call.unassigned) < k => Completes(D, call, next[call])

\* The call that a turn of the loop makes.
Deeper(call, c, p) ==
    [unassigned |-> call.unassigned \ c.credits,
     taken |-> call.taken \cup ({c.target} \ {ABSTAIN, RAIL}),
     chosen |-> call.chosen \cup {c}, cost |-> _add_costs(call.cost, c.cost), progress |-> p]

\* A call e with fewer credits, whose completions are those of call with c.
Extends(D, call, c, e) ==
    /\ Proper(D, e) /\ Cardinality(e.unassigned) < Cardinality(call.unassigned)
    /\ \A A \in Completions(D, call) : c \in A =>
           A \ {c} \in Completions(D, e) /\ With(call, A) = With(e, A \ {c})
    /\ \A B \in Completions(D, e) :
           {c} \cup B \in Completions(D, call) /\ With(call, {c} \cup B) = With(e, B)

\* That call is one.
LEMMA DeeperIs ==
    ASSUME NEW D, Edges(D), NEW call, Proper(D, call), call.unassigned # {},
           NEW c \in ValidCands(D, call.unassigned, call.taken), NEW p \in Progress(D)
    PROVE  Extends(D, call, c, Deeper(call, c, p))
<1> DEFINE U == call.unassigned
           K == call.taken
           V == U \ c.credits
           L == K \cup ({c.target} \ {ABSTAIN, RAIL})
           e == Deeper(call, c, p)
<1>1. /\ U \in SUBSET Credits /\ K \in SUBSET Int /\ call.chosen \in SUBSET D
      /\ call.cost \in Cost
      /\ ABSTAIN \notin K /\ RAIL \notin K
  BY DEF Proper, Call
<1>2. /\ c \in D /\ c.credits \subseteq U /\ c.credits # {} /\ c.target \in Int
      /\ c.cost \in Cost
  BY DEF ValidCands, Edges
<1>3. /\ e.unassigned = V /\ e.taken = L /\ e.cost = _add_costs(call.cost, c.cost)
      /\ e.chosen = call.chosen \cup {c} /\ e.progress = p
  BY DEF Deeper
<1>4. _add_costs(call.cost, c.cost) \in Cost
  BY <1>1, <1>2, AddedParts
<1>5. Proper(D, e)
  <2>1. V \in SUBSET Credits /\ L \in SUBSET Int /\ call.chosen \cup {c} \in SUBSET D
    BY <1>1, <1>2
  <2>2. e \in Call(D)
    BY <1>4, <2>1 DEF Deeper, Call
  <2>3. ABSTAIN \notin L /\ RAIL \notin L
    BY <1>1
  <2> QED
    BY <1>3, <2>2, <2>3 DEF Proper
<1>6. Cardinality(V) < Cardinality(U)
  <2>1. IsFiniteSet(U)
    BY <1>1, CreditsAreNat, FS_Subset
  <2>2. PICK x \in c.credits : TRUE
    BY <1>2
  <2>3. x \in U /\ V \subseteq U \ {x}
    BY <1>2, <2>2
  <2>4. IsFiniteSet(U \ {x}) /\ Cardinality(U \ {x}) = Cardinality(U) - 1
    BY <2>1, <2>3, FS_RemoveElement
  <2>5. Cardinality(V) <= Cardinality(U \ {x}) /\ IsFiniteSet(V)
    BY <2>3, <2>4, FS_Subset
  <2>6. Cardinality(V) \in Nat /\ Cardinality(U) \in Nat
    BY <2>1, <2>5, FS_CardinalityType
  <2> QED
    BY <2>4, <2>5, <2>6
<1>7. ASSUME NEW A \in SUBSET D, c \in A
      PROVE  With(call, A) = With(e, A \ {c})
  <2>1. A \ {c} \in SUBSET D /\ {c} \in SUBSET D /\ {c} \cap (A \ {c}) = {}
        /\ {c} \cup (A \ {c}) = A
    BY <1>2, <1>7
  <2>2. TotalCost(A) = _add_costs(TotalCost({c}), TotalCost(A \ {c}))
    BY <2>1, CostUnion
  <2>3. TotalCost(A) = _add_costs(c.cost, TotalCost(A \ {c}))
    BY <1>2, <2>2, CostOne
  <2>4. TotalCost(A \ {c}) \in Cost
    BY <2>1, CostType
  <2> QED
    BY <1>1, <1>2, <1>3, <2>3, <2>4, AddGroups DEF With
<1>8. ASSUME NEW A \in Completions(D, call), c \in A
      PROVE  A \ {c} \in Completions(D, e) /\ With(call, A) = With(e, A \ {c})
  <2>1. A \in Open(D, U, K) /\ A \in SUBSET D
    BY DEF Completions, Open, Assigned
  <2>2. A \ {c} \in Open(D, V, L)
    BY <1>1, <1>8, <2>1, TakeOne
  <2> QED
    BY <1>3, <1>7, <1>8, <2>1, <2>2 DEF Completions
<1>9. ASSUME NEW B \in Completions(D, e)
      PROVE  {c} \cup B \in Completions(D, call) /\ With(call, {c} \cup B) = With(e, B)
  <2>1. B \in Open(D, V, L)
    BY <1>3 DEF Completions
  <2>2. c \notin B /\ {c} \cup B \in Open(D, U, K)
    BY <1>1, <2>1, PutOne
  <2>3. ({c} \cup B) \ {c} = B /\ {c} \cup B \in SUBSET D
    BY <2>2 DEF Open, Assigned
  <2> QED
    BY <1>7, <2>2, <2>3 DEF Completions
<1> HIDE DEF e
<1>10. Extends(D, call, c, e)
  BY <1>3, <1>5, <1>6, <1>8, <1>9 DEF Extends
<1> QED
  BY <1>10 DEF e

\* A branch that is worse in the first two parts of its cost holds nothing better: the
\* pruning loses nothing.
LEMMA PruningIsSafe ==
    ASSUME NEW D, Edges(D), NEW call, Proper(D, call), call.unassigned # {},
           NEW c \in ValidCands(D, call.unassigned, call.taken), NEW p \in Progress(D),
           Pruned(_add_costs(call.cost, c.cost), p.cost),
           NEW A \in Completions(D, call), c \in A
    PROVE  ~Below(With(call, A), p.cost)
<1> DEFINE e == Deeper(call, c, p)
           x == _add_costs(call.cost, c.cost)
           y == TotalCost(A \ {c})
           z == _add_costs(x, y)
           b == p.cost
<1>1. Proper(D, e) /\ A \ {c} \in Completions(D, e) /\ With(call, A) = With(e, A \ {c})
  BY DeeperIs DEF Extends
<1>2. x \in Cost
  BY <1>1 DEF Proper, Call, Deeper
<1>3. A \ {c} \in SUBSET D
  BY DEF Completions, Open, Assigned
<1>4. y \in Cost /\ y[1] >= 0 /\ y[2] >= 0
  BY <1>3, CostType
<1>5. With(call, A) = z
  BY <1>1 DEF With, Deeper
<1>6. b \in Cost
  BY DEF Progress
<1>7. z \in Cost /\ z[1] = x[1] + y[1] /\ z[2] = x[2] + y[2]
  BY <1>2, <1>4, AddedParts
<1>8. b[1] < x[1] \/ (b[1] = x[1] /\ b[2] < x[2])
  BY <1>2, <1>6, LexIsBelow DEF Pruned
<1> HIDE DEF x, y, z, b
<1>9. ~Below(z, b)
  <2>1. /\ x[1] \in Int /\ x[2] \in Int /\ y[1] \in Int /\ y[2] \in Int /\ b[1] \in Int
        /\ b[2] \in Int
    BY <1>2, <1>4, <1>6, CostParts
  <2>2. b[1] < z[1] \/ (b[1] = z[1] /\ b[2] < z[2])
    BY <1>4, <1>7, <1>8, <2>1
  <2>3. z[1] \in Int /\ z[2] \in Int
    BY <1>7, CostParts
  <2> QED
    BY <2>1, <2>2, <2>3 DEF Below
<1> QED
  BY <1>5, <1>9 DEF b

\* One turn of the loop over the candidates.
LEMMA OneTurn ==
    ASSUME NEW D, Edges(D), NEW call, Proper(D, call), call.unassigned # {},
           NEW next, Searches(D, next, Cardinality(call.unassigned)),
           NEW p \in Progress(D), NEW T,
           NEW c \in ValidCands(D, call.unassigned, call.taken), c \in T,
           NEW q, Leaves(D, call, p, T \ {c}, q)
    PROVE  Leaves(D, call, p, T, Try(next, call, c, q))
<1>0. q \in Progress(D) /\ q.cost \in Cost /\ p.cost \in Cost
  BY DEF Leaves, Progress
<1> DEFINE e == Deeper(call, c, q)
<1>7. Extends(D, call, c, e)
  BY <1>0, DeeperIs
<1> DEFINE x == _add_costs(call.cost, c.cost)
           r == Try(next, call, c, q)
<1>1. r = IF q.exceeded \/ Pruned(x, q.cost) THEN q ELSE next[e]
  BY DEF Try, Deeper
<1>2. \A A \in Completions(D, call) : With(call, A) \in Cost
  <2> SUFFICES ASSUME NEW A \in Completions(D, call)
               PROVE  With(call, A) \in Cost
    OBVIOUS
  <2>1. A \in SUBSET D /\ call.cost \in Cost
    BY DEF Completions, Open, Assigned, Proper, Call
  <2> QED
    BY <2>1, CostType, AddedParts DEF With
<1>3. \A A : A \cap T # {} => c \in A \/ A \cap (T \ {c}) # {}
  OBVIOUS
<1>4. CASE q.exceeded
  <2>1. r = q
    BY <1>1, <1>4
  <2> QED
    BY <1>4, <2>1 DEF Leaves
<1>5. CASE ~q.exceeded /\ Pruned(x, q.cost)
  <2>1. r = q
    BY <1>1, <1>5
  <2>2. \A A \in Completions(D, call) : c \in A => ~Below(With(call, A), q.cost)
    BY <1>0, <1>5, PruningIsSafe
  <2>3. \A A \in Completions(D, call) : A \cap T # {} => ~Below(With(call, A), q.cost)
    BY <1>3, <1>5, <2>2 DEF Leaves
  <2> QED
    BY <2>1, <2>3 DEF Leaves
<1>6. CASE ~q.exceeded /\ ~Pruned(x, q.cost)
  <2>1. r = next[e]
    BY <1>1, <1>6
  <2>3. e.progress = q /\ e.chosen = call.chosen \cup {c}
    BY DEF Deeper
  <2> HIDE DEF r, e, x
  <2>4. Completes(D, e, r)
    BY <1>7, <2>1 DEF Extends, Searches, Proper
  <2>5. r \in Progress(D) /\ r.cost \in Cost /\ ~Below(q.cost, r.cost)
    BY <2>3, <2>4 DEF Completes, Progress
  <2>6. ~Below(p.cost, r.cost)
    BY <1>0, <2>5, BelowOrders DEF Leaves
  <2>7. Derived(D, call, p, r)
    <3>1. CASE r.cost = q.cost /\ r.best = q.best
      BY <3>1 DEF Leaves, Derived
    <3>2. CASE \E B \in Completions(D, e) : r.cost = With(e, B) /\ r.best = e.chosen \cup B
      <4>1. PICK B \in Completions(D, e) : r.cost = With(e, B) /\ r.best = e.chosen \cup B
        BY <3>2
      <4>2. {c} \cup B \in Completions(D, call) /\ r.cost = With(call, {c} \cup B)
        BY <1>7, <4>1 DEF Extends
      <4>3. r.best = call.chosen \cup ({c} \cup B)
        BY <2>3, <4>1
      <4> QED
        BY <4>2, <4>3 DEF Derived
    <3> QED
      BY <2>3, <2>4, <3>1, <3>2 DEF Completes, Derived
  <2>8. ASSUME ~r.exceeded, NEW A \in Completions(D, call), A \cap T # {}
        PROVE  ~Below(With(call, A), r.cost)
    <3>1. CASE c \in A
      BY <1>7, <2>4, <2>8, <3>1 DEF Extends, Completes
    <3>2. CASE A \cap (T \ {c}) # {}
      <4>1. ~Below(With(call, A), q.cost)
        BY <1>6, <3>2 DEF Leaves
      <4> QED
        BY <1>0, <1>2, <2>5, <4>1, BelowOrders
    <3> QED
      BY <1>3, <2>8, <3>1, <3>2
  <2>9. Leaves(D, call, p, T, r)
    BY <2>5, <2>6, <2>7, <2>8 DEF Leaves
  <2> QED
    BY <2>9 DEF r
<1> HIDE DEF r, x
<1> QED
  BY <1>4, <1>5, <1>6 DEF r

\* One value of the recursive function in TryAll, from those of smaller sets.
Turn(next, call, p, g, T) ==
    IF T = {} THEN p ELSE Try(next, call, LastTried(T), g[T \ {LastTried(T)}])

\* That function exists: it is defined by recursion over finite sets.
LEMMA TurnsExist ==
    ASSUME NEW D, Edges(D), NEW S \in SUBSET D, NEW next, NEW call, NEW p
    PROVE  \E g : g = [T \in SUBSET S |-> Turn(next, call, p, g, T)]
<1> DEFINE Sized(n) == {T \in SUBSET S : Cardinality(T) <= n}
           N == {n \in Nat : \E g : g = [T \in Sized(n) |-> Turn(next, call, p, g, T)]}
<1>0. IsFiniteSet(S) /\ \A T \in SUBSET S : IsFiniteSet(T) /\ Cardinality(T) \in Nat
  <2>1. IsFiniteSet(S)
    BY FS_Subset DEF Edges
  <2> QED
    BY <2>1, FS_Subset, FS_CardinalityType
<1>1. 0 \in N
  <2> DEFINE g == [T \in Sized(0) |-> p]
  <2>1. \A T \in Sized(0) : T = {}
    BY <1>0, FS_EmptySet
  <2>2. \A T \in Sized(0) : Turn(next, call, p, g, T) = p
    BY <2>1 DEF Turn
  <2> QED
    BY <2>2
<1>2. \A n \in Nat : n \in N => n + 1 \in N
  <2> SUFFICES ASSUME NEW n \in Nat, n \in N
               PROVE  n + 1 \in N
    OBVIOUS
  <2>1. PICK g : g = [T \in Sized(n) |-> Turn(next, call, p, g, T)]
    OBVIOUS
  <2> DEFINE h == [T \in Sized(n + 1) |-> Turn(next, call, p, g, T)]
  <2>2. \A T \in Sized(n) : T \in Sized(n + 1) /\ h[T] = g[T]
    <3> SUFFICES ASSUME NEW T \in Sized(n)
                 PROVE  T \in Sized(n + 1) /\ h[T] = g[T]
      OBVIOUS
    <3>1. T \in Sized(n + 1)
      BY <1>0
    <3>2. g[T] = Turn(next, call, p, g, T)
      BY <2>1
    <3> QED
      BY <3>1, <3>2
  <2>3. \A T \in Sized(n + 1) : Turn(next, call, p, h, T) = Turn(next, call, p, g, T)
    <3> SUFFICES ASSUME NEW T \in Sized(n + 1), T # {}
                 PROVE  h[T \ {LastTried(T)}] = g[T \ {LastTried(T)}]
      <4> HIDE DEF h, Sized
      <4> QED BY DEF Turn
    <3>1. LastTried(T) \in T
      <4>1. T \in SUBSET D /\ T # {}
        OBVIOUS
      <4> QED
        BY <4>1, LastIsTried
    <3>2. Cardinality(T \ {LastTried(T)}) = Cardinality(T) - 1
      BY <1>0, <3>1, FS_RemoveElement
    <3>3. T \ {LastTried(T)} \in Sized(n)
      BY <1>0, <3>2
    <3> QED
      BY <2>2, <3>3
  <2>4. h = [T \in Sized(n + 1) |-> Turn(next, call, p, h, T)]
    BY <2>3
  <2>5. \E k : k = [T \in Sized(n + 1) |-> Turn(next, call, p, k, T)]
    <3> WITNESS h
    <3> QED
      BY <2>4
  <2> HIDE DEF h, Sized
  <2> QED
    BY <2>5
<1>3. Nat \subseteq N
  <2> HIDE DEF N
  <2> QED
    BY <1>1, <1>2, NaturalsIn
<1>4. Sized(Cardinality(S)) = SUBSET S
  BY <1>0, FS_Subset
<1>5. PICK g : g = [T \in Sized(Cardinality(S)) |-> Turn(next, call, p, g, T)]
  BY <1>0, <1>3
<1> HIDE DEF Sized
<1> QED
  BY <1>4, <1>5

\* The loop over the candidates of the first unassigned credit.
LEMMA AllTurns ==
    ASSUME NEW D, Edges(D), NEW call, Proper(D, call), call.unassigned # {},
           NEW next, Searches(D, next, Cardinality(call.unassigned)), NEW p \in Progress(D)
    PROVE  Leaves(D, call, p, ValidCands(D, call.unassigned, call.taken),
                  TryAll(next, call, ValidCands(D, call.unassigned, call.taken), p))
<1> DEFINE S == ValidCands(D, call.unassigned, call.taken)
           g == CHOOSE g : g = [T \in SUBSET S |-> Turn(next, call, p, g, T)]
<1>1. S \in SUBSET D /\ IsFiniteSet(S)
  <2>1. S \in SUBSET D
    BY DEF ValidCands
  <2> QED
    BY <2>1, FS_Subset DEF Edges
<1>2. g = [T \in SUBSET S |-> Turn(next, call, p, g, T)]
  <2> HIDE DEF S
  <2> QED
    BY <1>1, TurnsExist
<1>3. TryAll(next, call, S, p) = g[S]
  BY DEF TryAll, Turn
<1> HIDE DEF g
<1>4. \A T \in SUBSET S : g[T] = Turn(next, call, p, g, T)
  BY <1>2
<1> DEFINE G == {T \in SUBSET S : Leaves(D, call, p, T, g[T])}
<1>5. {} \in G
  <2>1. g[{}] = p
    BY <1>4 DEF Turn
  <2>2. p.cost \in Cost
    BY DEF Progress
  <2>3. ~Below(p.cost, p.cost)
    BY <2>2, BelowOrders
  <2>4. Leaves(D, call, p, {}, p)
    BY <2>3 DEF Leaves, Derived
  <2> QED
    BY <2>1, <2>4
<1>6. ASSUME NEW T \in SUBSET S, T # {}, \A x \in T : T \ {x} \in G
      PROVE  T \in G
  <2> DEFINE c == LastTried(T)
  <2>1. c \in T
    <3>1. T \in SUBSET D /\ T # {}
      BY <1>1, <1>6
    <3> QED
      BY <3>1, LastIsTried
  <2>2. g[T] = Try(next, call, c, g[T \ {c}])
    BY <1>4, <1>6 DEF Turn
  <2>3. Leaves(D, call, p, T \ {c}, g[T \ {c}])
    BY <1>6, <2>1
  <2> HIDE DEF c
  <2>4. c \in ValidCands(D, call.unassigned, call.taken)
    BY <2>1
  <2>5. Leaves(D, call, p, T, Try(next, call, c, g[T \ {c}]))
    <3> HIDE DEF S
    <3> QED
      BY <2>1, <2>3, <2>4, OneTurn
  <2> QED
    BY <2>2, <2>5
<1>7. SUBSET S \subseteq G
  <2> HIDE DEF G, S
  <2> QED
    BY <1>1, <1>5, <1>6, SubsetsIn
<1> QED
  BY <1>3, <1>7

\* The body of the search is right if the search one level down is.
LEMMA VisitCompletes ==
    ASSUME NEW D, Edges(D), NEW limit, NEW call, Proper(D, call),
           NEW next, Searches(D, next, Cardinality(call.unassigned))
    PROVE  Completes(D, call, Visit(D, limit, next, call))
<1> DEFINE o == call.progress
           p == [o EXCEPT !.steps = @ + 1]
           r == Visit(D, limit, next, call)
<1>1. /\ o \in Progress(D) /\ o.cost \in Cost /\ call.cost \in Cost
      /\ call.unassigned \in SUBSET Credits
      /\ call.chosen \in SUBSET D
  BY DEF Proper, Call, Progress
<1>2. p \in Progress(D) /\ p.cost = o.cost /\ p.best = o.best /\ p.exceeded = o.exceeded
  BY <1>1 DEF Progress
<1>3. r = IF p.steps > limit THEN [p EXCEPT !.exceeded = TRUE]
          ELSE IF call.unassigned # {}
               THEN TryAll(next, call, ValidCands(D, call.unassigned, call.taken), p)
          ELSE IF LexLess(call.cost, p.cost, 5)
               THEN [p EXCEPT !.cost = call.cost, !.best = call.chosen]
          ELSE p
  BY DEF Visit
<1>4. ~Below(o.cost, o.cost)
  BY <1>1, BelowOrders
<1> HIDE DEF r, p
<1>5. CASE p.steps > limit
  <2>1. r = [p EXCEPT !.exceeded = TRUE]
    BY <1>3, <1>5
  <2>2. r \in Progress(D) /\ r.cost = o.cost /\ r.best = o.best /\ r.exceeded
    BY <1>2, <2>1 DEF Progress
  <2> QED
    BY <1>4, <2>2 DEF Completes, Derived, r
<1>6. CASE ~(p.steps > limit) /\ call.unassigned # {}
  <2> DEFINE V == ValidCands(D, call.unassigned, call.taken)
  <2>1. r = TryAll(next, call, V, p)
    BY <1>3, <1>6
  <2>2. Leaves(D, call, p, V, r)
    BY <1>2, <1>6, <2>1, AllTurns
  <2>3. \A A \in Completions(D, call) : A \cap V # {}
    BY <1>1, <1>6, SomeTried DEF Completions
  <2> HIDE DEF V
  <2>4. Derived(D, call, o, r)
    BY <1>2, <2>2 DEF Leaves, Derived
  <2> QED
    BY <1>2, <2>2, <2>3, <2>4 DEF Leaves, Completes, r
<1>7. CASE ~(p.steps > limit) /\ call.unassigned = {}
  <2>1. Completions(D, call) = {{}}
    BY <1>7, NothingOpen DEF Completions
  <2>2. With(call, {}) = call.cost
    BY <1>1, CostNothing DEF With
  <2>3. LexLess(call.cost, p.cost, 5) <=> Below(call.cost, o.cost)
    BY <1>1, <1>2, LexIsBelow
  <2>4. CASE Below(call.cost, o.cost)
    <3>1. r = [p EXCEPT !.cost = call.cost, !.best = call.chosen]
      BY <1>3, <1>7, <2>3, <2>4
    <3>2. r \in Progress(D) /\ r.cost = call.cost /\ r.best = call.chosen
      BY <1>1, <1>2, <3>1 DEF Progress
    <3>3. ~Below(o.cost, r.cost) /\ ~Below(call.cost, r.cost)
      BY <1>1, <2>4, <3>2, BelowOrders
    <3>4. Derived(D, call, o, r)
      BY <2>1, <2>2, <3>2 DEF Derived
    <3>5. \A A \in Completions(D, call) : ~Below(With(call, A), r.cost)
      BY <2>1, <2>2, <3>3
    <3> QED
      BY <3>2, <3>3, <3>4, <3>5 DEF Completes, r
  <2>5. CASE ~Below(call.cost, o.cost)
    <3>1. r = p
      BY <1>3, <1>7, <2>3, <2>5
    <3>2. \A A \in Completions(D, call) : ~Below(With(call, A), r.cost)
      BY <1>2, <2>1, <2>2, <2>5, <3>1
    <3>3. Derived(D, call, o, r)
      BY <1>2, <3>1 DEF Derived
    <3> QED
      BY <1>2, <1>4, <3>1, <3>2, <3>3 DEF Completes, r
  <2> QED
    BY <2>4, <2>5
<1> QED
  BY <1>5, <1>6, <1>7

\* The levels of the search: what level[k] is from level[k - 1].
IsLevels(g, D, limit, n) ==
    g = [k \in 0 .. n |-> IF k = 0 THEN << >>
                          ELSE [call \in Call(D) |-> Visit(D, limit, g[k - 1], call)]]

\* They exist for every depth.
LEMMA LevelsExist ==
    ASSUME NEW D, NEW limit, NEW n \in Nat
    PROVE  \E g : IsLevels(g, D, limit, n)
<1> DEFINE F(next) == [call \in Call(D) |-> Visit(D, limit, next, call)]
           G == {m \in Nat : \E g : IsLevels(g, D, limit, m)}
<1>1. 0 \in G
  <2> DEFINE g == [k \in 0 .. 0 |-> << >>]
  <2>1. IsLevels(g, D, limit, 0)
    BY DEF IsLevels
  <2> QED
    BY <2>1
<1>2. ASSUME NEW m \in Nat, m \in G
      PROVE  m + 1 \in G
  <2>1. PICK g : IsLevels(g, D, limit, m)
    BY <1>2
  <2> HIDE DEF F
  <2> DEFINE h == [k \in 0 .. m + 1 |-> IF k = m + 1 THEN F(g[m]) ELSE g[k]]
  <2>2. \A k \in 0 .. m : g[k] = IF k = 0 THEN << >> ELSE F(g[k - 1])
    BY <2>1 DEF IsLevels, F
  <2>3. ASSUME NEW k \in 0 .. m + 1
        PROVE  h[k] = IF k = 0 THEN << >> ELSE F(h[k - 1])
    <3>1. CASE k = m + 1
      <4>1. k # 0 /\ k - 1 = m /\ m \in 0 .. m + 1 /\ m # m + 1
        BY <3>1
      <4>2. h[m] = g[m] /\ h[k] = F(g[m])
        BY <3>1, <4>1
      <4> HIDE DEF h
      <4> QED
        BY <3>1, <4>1, <4>2
    <3>2. CASE k # m + 1
      <4>1. k \in 0 .. m
        BY <3>2
      <4>2. h[k] = g[k]
        BY <3>2
      <4>3. k # 0 => h[k - 1] = g[k - 1]
        <5>1. k # 0 => k - 1 \in 0 .. m + 1 /\ k - 1 # m + 1
          BY <4>1
        <5> QED
          BY <5>1
      <4> HIDE DEF h
      <4> QED
        BY <2>2, <4>1, <4>2, <4>3
    <3> QED
      BY <3>1, <3>2
  <2>4. h = [k \in 0 .. m + 1 |-> h[k]]
    OBVIOUS
  <2> HIDE DEF h
  <2>5. IsLevels(h, D, limit, m + 1)
    BY <2>3, <2>4 DEF IsLevels, F
  <2> QED
    BY <2>5
<1>3. Nat \subseteq G
  <2> HIDE DEF G
  <2> QED
    BY <1>1, <1>2, NaturalsIn
<1> QED
  BY <1>3

\* The search completes every call it has the depth for.
LEMMA SearchCompletes ==
    ASSUME NEW D, Edges(D), NEW limit, NEW depth \in Nat
    PROVE  Searches(D, search(D, limit, depth), depth)
<1> DEFINE g == CHOOSE g : IsLevels(g, D, limit, depth)
<1>1. IsLevels(g, D, limit, depth)
  <2>1. \E h : IsLevels(h, D, limit, depth)
    BY LevelsExist
  <2> QED
    BY <2>1
<1>2. search(D, limit, depth) = g[depth]
  BY DEF search, IsLevels
<1> HIDE DEF g
<1> DEFINE G == {k \in Nat : k <= depth => Searches(D, g[k], k)}
<1>0. \A call \in Call(D) : Cardinality(call.unassigned) \in Nat
  <2> SUFFICES ASSUME NEW call \in Call(D)
               PROVE  Cardinality(call.unassigned) \in Nat
    OBVIOUS
  <2>1. call.unassigned \in SUBSET Credits
    BY DEF Call
  <2> QED
    BY <2>1, CreditsAreNat, FS_Subset, FS_CardinalityType
<1>3. 0 \in G
  <2>1. \A call \in Call(D) : ~(Cardinality(call.unassigned) < 0)
    BY <1>0
  <2> QED
    BY <2>1 DEF Searches
<1>4. ASSUME NEW k \in Nat, k \in G
      PROVE  k + 1 \in G
  <2> SUFFICES ASSUME k + 1 <= depth
               PROVE  Searches(D, g[k + 1], k + 1)
    OBVIOUS
  <2>1. Searches(D, g[k], k)
    BY <1>4
  <2>2. \A call \in Call(D) : g[k + 1][call] = Visit(D, limit, g[k], call)
    <3>1. k + 1 \in 0 .. depth /\ k + 1 # 0 /\ k + 1 - 1 = k
      OBVIOUS
    <3>2. g[k + 1] = [call \in Call(D) |-> Visit(D, limit, g[k + 1 - 1], call)]
      BY <1>1, <3>1 DEF IsLevels
    <3> QED
      BY <3>1, <3>2
  <2>3. ASSUME NEW call \in Call(D), Proper(D, call), Cardinality(call.unassigned) < k + 1
        PROVE  Completes(D, call, g[k + 1][call])
    <3> DEFINE n == Cardinality(call.unassigned)
    <3>1. n \in Nat /\ n <= k
      BY <1>0, <2>3
    <3>2. Searches(D, g[k], n)
      <4>1. \A e \in Call(D) : Cardinality(e.unassigned) < n => Cardinality(e.unassigned) < k
        BY <1>0, <3>1
      <4> QED
        BY <2>1, <4>1 DEF Searches
    <3>3. Completes(D, call, Visit(D, limit, g[k], call))
      BY <2>3, <3>2, VisitCompletes
    <3> QED
      BY <2>2, <3>3
  <2> QED
    BY <2>3 DEF Searches
<1>5. Nat \subseteq G
  <2> HIDE DEF G
  <2> QED
    BY <1>3, <1>4, NaturalsIn
<1> QED
  BY <1>2, <1>5

(***************************************************************************)
(* The candidate graph.                                                    *)
(***************************************************************************)
\* The values of a function on a finite set.
LEMMA ImageFinite ==
    ASSUME NEW S, IsFiniteSet(S), NEW f
    PROVE  IsFiniteSet({f[x] : x \in S})
<1> DEFINE T == {f[x] : x \in S}
           g == [x \in S |-> f[x]]
<1>1. g \in Surjection(S, T)
  BY DEF Surjection
<1> HIDE DEF g, T
<1>2. IsFiniteSet(T)
  BY <1>1, FS_Surjection
<1> QED
  BY <1>2 DEF T

\* One value of the recursive function in Doubt, from that of a smaller set.
DoubtStep(w, g, s) ==
    IF s = {} THEN Scale ELSE (g[s \ {Chosen(s)}] \div 1000) * (1000 - w[Chosen(s)])

\* That function exists.
LEMMA DoubtExists ==
    ASSUME NEW w, NEW S, IsFiniteSet(S)
    PROVE  \E g : g = [s \in SUBSET S |-> DoubtStep(w, g, s)]
<1> DEFINE Sized(n) == {s \in SUBSET S : Cardinality(s) <= n}
           N == {n \in Nat : \E g : g = [s \in Sized(n) |-> DoubtStep(w, g, s)]}
<1>0. \A T \in SUBSET S : IsFiniteSet(T) /\ Cardinality(T) \in Nat
  BY FS_Subset, FS_CardinalityType
<1>1. 0 \in N
  <2> DEFINE g == [s \in Sized(0) |-> Scale]
  <2>1. \A s \in Sized(0) : s = {}
    BY <1>0, FS_EmptySet
  <2>2. \A s \in Sized(0) : DoubtStep(w, g, s) = Scale
    BY <2>1 DEF DoubtStep
  <2> QED
    BY <2>2
<1>2. \A n \in Nat : n \in N => n + 1 \in N
  <2> SUFFICES ASSUME NEW n \in Nat, n \in N
               PROVE  n + 1 \in N
    OBVIOUS
  <2>1. PICK g : g = [s \in Sized(n) |-> DoubtStep(w, g, s)]
    OBVIOUS
  <2> DEFINE h == [s \in Sized(n + 1) |-> DoubtStep(w, g, s)]
  <2>2. \A s \in Sized(n) : s \in Sized(n + 1) /\ h[s] = g[s]
    <3> SUFFICES ASSUME NEW s \in Sized(n)
                 PROVE  s \in Sized(n + 1) /\ h[s] = g[s]
      OBVIOUS
    <3>1. s \in Sized(n + 1)
      BY <1>0
    <3>2. g[s] = DoubtStep(w, g, s)
      BY <2>1
    <3> QED
      BY <3>1, <3>2
  <2>3. \A s \in Sized(n + 1) : DoubtStep(w, h, s) = DoubtStep(w, g, s)
    <3> SUFFICES ASSUME NEW s \in Sized(n + 1), s # {}
                 PROVE  h[s \ {Chosen(s)}] = g[s \ {Chosen(s)}]
      <4> HIDE DEF h, Sized
      <4> QED BY DEF DoubtStep
    <3>1. Chosen(s) \in s
      BY DEF Chosen
    <3>2. Cardinality(s \ {Chosen(s)}) = Cardinality(s) - 1
      BY <1>0, <3>1, FS_RemoveElement
    <3>3. s \ {Chosen(s)} \in Sized(n)
      BY <1>0, <3>2
    <3> QED
      BY <2>2, <3>3
  <2>4. h = [s \in Sized(n + 1) |-> DoubtStep(w, h, s)]
    BY <2>3
  <2>5. \E k : k = [s \in Sized(n + 1) |-> DoubtStep(w, k, s)]
    <3> WITNESS h
    <3> QED
      BY <2>4
  <2> HIDE DEF h, Sized
  <2> QED
    BY <2>5
<1>3. Nat \subseteq N
  <2> HIDE DEF N
  <2> QED
    BY <1>1, <1>2, NaturalsIn
<1>4. Sized(Cardinality(S)) = SUBSET S
  BY <1>0, FS_Subset
<1>5. PICK g : g = [s \in Sized(Cardinality(S)) |-> DoubtStep(w, g, s)]
  BY <1>0, <1>3
<1> HIDE DEF Sized
<1> QED
  BY <1>4, <1>5

\* A noisy or of integers is an integer.
LEMMA DoubtType ==
    ASSUME NEW S, IsFiniteSet(S), NEW w, \A c \in S : w[c] \in Int
    PROVE  Doubt(w, S) \in Int
<1> DEFINE g == CHOOSE g : g = [s \in SUBSET S |-> DoubtStep(w, g, s)]
<1>1. g = [s \in SUBSET S |-> DoubtStep(w, g, s)]
  BY DoubtExists
<1>2. Doubt(w, S) = g[S]
  BY DEF Doubt, FoldSet, MapThenFoldSet, DoubtStep, Chosen
<1> HIDE DEF g
<1> DEFINE G == {T \in SUBSET S : g[T] \in Int}
<1>3. {} \in G
  BY <1>1 DEF DoubtStep, Scale
<1>4. ASSUME NEW T \in SUBSET S, T # {}, \A x \in T : T \ {x} \in G
      PROVE  T \in G
  <2> DEFINE x == Chosen(T)
             a == g[T \ {x}]
             b == 1000 - w[x]
  <2>1. x \in T
    BY <1>4 DEF Chosen
  <2>2. g[T] = (a \div 1000) * b
    <3>1. g[T] = DoubtStep(w, g, T)
      BY <1>1
    <3> QED
      BY <1>4, <3>1 DEF DoubtStep
  <2>3. a \in Int
    BY <1>4, <2>1
  <2>4. b \in Int
    BY <2>1
  <2>5. a \div 1000 \in Int
    <3> HIDE DEF a
    <3> QED BY <2>3
  <2> DEFINE q == a \div 1000
  <2> HIDE DEF a, b, q
  <2>6. q * b \in Int
    BY <2>4, <2>5 DEF q
  <2> QED
    BY <2>2, <2>6 DEF q
<1>5. SUBSET S \subseteq G
  <2> HIDE DEF G
  <2> QED
    BY <1>3, <1>4, SubsetsIn
<1> QED
  BY <1>2, <1>5

\* Evidence: finitely many items with integer weights.
Scored(items) == IsFiniteSet(items) /\ \A e \in items : e.weight \in Int

\* A finite set of integers has a largest member.
LEMMA LargestIn ==
    ASSUME NEW S, IsFiniteSet(S), S \subseteq Int, S # {}
    PROVE  Max(S) \in S
<1> DEFINE G == {T \in SUBSET S : T = {} \/ \E x \in T : \A y \in T : x >= y}
<1>1. {} \in G
  OBVIOUS
<1>2. ASSUME NEW T \in SUBSET S, T # {}, \A x \in T : T \ {x} \in G
      PROVE  T \in G
  <2>1. PICK x \in T : TRUE
    BY <1>2
  <2>2. T \ {x} \in G
    BY <1>2
  <2>3. CASE T \ {x} = {}
    <3>1. \A y \in T : y = x /\ x >= y
      BY <2>3
    <3> QED
      BY <3>1
  <2>4. CASE \E z \in T \ {x} : \A y \in T \ {x} : z >= y
    <3>1. PICK z \in T \ {x} : \A y \in T \ {x} : z >= y
      BY <2>4
    <3>2. CASE x >= z
      <4>1. \A y \in T : x >= y
        BY <3>1, <3>2
      <4> QED
        BY <4>1
    <3>3. CASE z >= x
      <4>1. \A y \in T : z >= y
        BY <3>1, <3>3
      <4> QED
        BY <3>1, <4>1
    <3>4. x \in Int /\ z \in Int
      OBVIOUS
    <3> QED
      BY <3>2, <3>3, <3>4
  <2> QED
    BY <2>2, <2>3, <2>4
<1>3. SUBSET S \subseteq G
  <2> HIDE DEF G
  <2> QED
    BY <1>1, <1>2, SubsetsIn
<1>4. \E x \in S : \A y \in S : x >= y
  BY <1>3
<1> QED
  BY <1>4 DEF Max

\* The weight of a channel is an integer.
LEMMA ChannelType ==
    ASSUME NEW items, Scored(items), items # {}
    PROVE  ChannelWeight(items) \in Int
<1> DEFINE W == {e.weight : e \in items}
           top == Max(W)
           rest == {e \in items : e.weight # top}
           tenth == [e \in items |-> e.weight \div 10]
           sum == Total(tenth, rest)
<1>1. IsFiniteSet(W)
  <2> DEFINE f == [e \in items |-> e.weight]
  <2>1. W = {f[e] : e \in items}
    OBVIOUS
  <2> HIDE DEF W, f
  <2> QED
    BY <2>1, ImageFinite DEF Scored
<1>2. W \subseteq Int /\ W # {}
  BY DEF Scored
<1>3. top \in Int
  <2> HIDE DEF W
  <2>1. Max(W) \in W
    BY <1>1, <1>2, LargestIn
  <2> QED
    BY <1>2, <2>1
<1> HIDE DEF top
<1>4. IsFiniteSet(rest)
  BY FS_Subset DEF Scored
<1>5. \A e \in rest : tenth[e] \in Int
  BY DEF Scored
<1>6. sum \in Int
  <2> HIDE DEF rest, tenth
  <2> QED
    BY <1>4, <1>5, TotalType
<1>7. ChannelWeight(items) = IF Cardinality(items) = 1 THEN top ELSE Smaller(980, top + sum)
  BY DEF ChannelWeight, top
<1> HIDE DEF sum
<1> QED
  BY <1>3, <1>6, <1>7 DEF Smaller

\* A score is an integer.
LEMMA CombineType ==
    ASSUME NEW items, Scored(items)
    PROVE  _combine(items) \in Int
<1> DEFINE ch == {SignalChannel(e.signal) : e \in items}
           Of(c) == {e \in items : SignalChannel(e.signal) = c}
           w == [c \in ch |-> ChannelWeight(Of(c))]
           d == Doubt(w, ch)
<1>1. IsFiniteSet(ch)
  <2> DEFINE f == [e \in items |-> SignalChannel(e.signal)]
  <2>1. ch = {f[e] : e \in items}
    OBVIOUS
  <2> HIDE DEF ch, f
  <2> QED
    BY <2>1, ImageFinite DEF Scored
<1>2. ASSUME NEW c \in ch
      PROVE  w[c] \in Int
  <2>1. Of(c) # {} /\ Of(c) \subseteq items
    OBVIOUS
  <2>2. Scored(Of(c))
    BY FS_Subset DEF Scored
  <2> HIDE DEF Of
  <2>3. ChannelWeight(Of(c)) \in Int
    BY <2>1, <2>2, ChannelType
  <2> QED
    BY <2>3
<1>3. d \in Int
  <2> HIDE DEF w, ch
  <2> QED
    BY <1>1, <1>2, DoubtType
<1>4. _combine(items) = IF items = {} THEN 0 ELSE Smaller(990000000, Scale - d)
  BY DEF _combine
<1> HIDE DEF d
<1> QED
  BY <1>3, <1>4 DEF Smaller, Scale

\* What the statement holds.
LEMMA LineTypes ==
    ASSUME statement \in Statement, NEW l \in Lines
    PROVE  /\ ln(l) \in BankCreditLine
           /\ ln(l).is_credit \in BOOLEAN /\ ln(l).amount \in Nat /\ ln(l).date \in Nat
           /\ ln(l).utr \in Settlements \cup {NoSettlement}
           /\ ln(l).suffix \in Settlements \cup {NoSettlement}
           /\ \A s \in Settlements : settlement_net(s) \in Int /\ settlement_date(s) \in Nat
<1>1. ln(l) \in BankCreditLine
  BY DEF Statement, ln
<1>2. /\ ln(l).is_credit \in BOOLEAN /\ ln(l).amount \in Nat /\ ln(l).date \in Nat
      /\ ln(l).utr \in Settlements \cup {NoSettlement}
      /\ ln(l).suffix \in Settlements \cup {NoSettlement}
  BY <1>1 DEF BankCreditLine
<1>3. \A s \in Settlements : settlement_net(s) \in Int /\ settlement_date(s) \in Nat
  BY DEF Statement, settlement_net, settlement_date
<1> QED
  BY <1>1, <1>2, <1>3

\* The signals that name an identifier, an amount or a resemblance, and what they stand for.
LEMMA IdentifierMeans ==
    ASSUME NEW l, NEW e \in IdentifierSignals(l)
    PROVE  \/ /\ e = Item("utr_exact", 950) /\ ln(l).utr # NoSettlement
           \/ /\ e = Item("utr_suffix", 500) /\ ln(l).suffix # NoSettlement
              /\ \/ Near(l, ln(l).suffix, DATE_WINDOW_DAYS)
                 \/ ln(l).amount = settlement_net(ln(l).suffix)
           \/ /\ e = Item("utr_suffix_weak", 200) /\ ln(l).suffix # NoSettlement
BY DEF IdentifierSignals

\* What an amount signal says of the line: it is a credit, and one settlement has its amount
\* when the signal speaks of no more than one.
LEMMA AmountMeans ==
    ASSUME NEW l, NEW e \in AmountSignals(l)
    PROVE  /\ ln(l).is_credit
           /\ \/ /\ e = Item("amount_corr", 500) \/ e = Item("amount_corr", 300)
                 /\ Cardinality(net_to_settlements(ln(l).amount)) = 1
              \/ e = Item("amount_corr_multi", 500) \/ e = Item("amount_corr_multi", 300)
              \/ e = Item("value_date_proximity", 200)
<1> DEFINE sids == net_to_settlements(ln(l).amount)
           near == \E s \in sids : Near(l, s, DATE_WINDOW_DAYS)
           a == Item(IF Cardinality(sids) = 1 THEN "amount_corr" ELSE "amount_corr_multi",
                     IF near THEN 500 ELSE 300)
<1>1. /\ ln(l).is_credit
      /\ e = a \/ e = Item("value_date_proximity", 200)
  <2> HIDE DEF a
  <2>1. AmountSignals(l) = When(ln(l).is_credit /\ sids # {},
                                {a} \cup When(near, {Item("value_date_proximity", 200)}))
    BY DEF AmountSignals, a
  <2> HIDE DEF sids, near
  <2> QED
    BY <2>1 DEF When
<1> HIDE DEF near, sids
<1>2. e = a => \/ /\ e = Item("amount_corr", 500) \/ e = Item("amount_corr", 300)
                  /\ Cardinality(sids) = 1
               \/ e = Item("amount_corr_multi", 500) \/ e = Item("amount_corr_multi", 300)
  OBVIOUS
<1> QED
  BY <1>1, <1>2 DEF sids

\* What a narration signal of a settlement says of the line.
LEMMA NarrationMeans ==
    ASSUME NEW l, NEW e \in evaluate_rzp_narration_signals(l)
    PROVE  \/ e = Item("narration_brand_rzp", 300) \/ e = Item("narration_brand_rzp", 150)
           \/ e = Item("ifsc_ratn", 250) /\ ln(l).ifsc /\ ~ln(l).decoy
           \/ e = Item("settlement_ref", 500)
BY DEF evaluate_rzp_narration_signals, When

\* What the names of a line's signals say of it.
LEMMA NamesMean ==
    ASSUME NEW l, NEW n \in SignalNames(razorpay_signals(l))
    PROVE  /\ n \in {"utr_exact", "utr_suffix", "utr_suffix_weak", "amount_corr",
                     "amount_corr_multi", "value_date_proximity", "narration_brand_rzp",
                     "ifsc_ratn", "settlement_ref"}
           /\ n = "utr_exact" => ln(l).utr # NoSettlement
           /\ n = "utr_suffix" =>
                 /\ ln(l).suffix # NoSettlement
                 /\ \/ Near(l, ln(l).suffix, DATE_WINDOW_DAYS)
                    \/ ln(l).amount = settlement_net(ln(l).suffix)
           /\ n = "amount_corr" => Cardinality(net_to_settlements(ln(l).amount)) = 1
           /\ n = "ifsc_ratn" => ln(l).ifsc /\ ~ln(l).decoy
<1>1. PICK e \in razorpay_signals(l) : n = e.signal
  BY DEF SignalNames
<1>0. \A sig, w : Item(sig, w).signal = sig
  BY DEF Item
<1>2. CASE e \in IdentifierSignals(l)
  BY <1>0, <1>1, <1>2, IdentifierMeans
<1>3. CASE e \in AmountSignals(l)
  BY <1>0, <1>1, <1>3, AmountMeans
<1>4. CASE e \in evaluate_rzp_narration_signals(l)
  BY <1>0, <1>1, <1>4, NarrationMeans
<1> QED
  BY <1>1, <1>2, <1>3, <1>4 DEF razorpay_signals

\* A conditional set of items is finite.
LEMMA WhenFinite ==
    ASSUME NEW b, NEW S, IsFiniteSet(S)
    PROVE  IsFiniteSet(When(b, S))
BY FS_EmptySet DEF When

\* A set of five items is finite.
LEMMA FiveFinite ==
    ASSUME NEW a, NEW b, NEW c, NEW d, NEW e
    PROVE  IsFiniteSet({a, b, c, d, e})
<1>1. IsFiniteSet({a})
  BY FS_Singleton
<1>2. {a, b} = {a} \cup {b} /\ {a, b, c} = {a, b} \cup {c} /\ {a, b, c, d} = {a, b, c} \cup {d}
      /\ {a, b, c, d, e} = {a, b, c, d} \cup {e}
  OBVIOUS
<1>3. IsFiniteSet({a, b})
  BY <1>1, <1>2, FS_AddElement
<1>4. IsFiniteSet({a, b, c})
  BY <1>2, <1>3, FS_AddElement
<1>5. IsFiniteSet({a, b, c, d})
  BY <1>2, <1>4, FS_AddElement
<1> QED
  BY <1>2, <1>5, FS_AddElement

\* A line's evidence is finite and has integer weights.
LEMMA SignalsScored ==
    ASSUME NEW l
    PROVE  Scored(razorpay_signals(l)) /\ Scored(narration_rail_signals(l))
<1>0. \A sig, w : Item(sig, w).weight = w
  BY DEF Item
<1>1. \A e \in IdentifierSignals(l) : e.weight \in Int
  BY <1>0, IdentifierMeans
<1>2. \A e \in AmountSignals(l) : e.weight \in Int
  BY <1>0, AmountMeans
<1>3. \A e \in evaluate_rzp_narration_signals(l) : e.weight \in Int
  BY <1>0, NarrationMeans
<1>4. \A x : IsFiniteSet({x})
  BY FS_Singleton
<1>5. IsFiniteSet(IdentifierSignals(l))
  <2> DEFINE a == Item("utr_exact", 950)
             b == Item("utr_suffix", 500)
             c == Item("utr_suffix_weak", 200)
             d == Item("utr_suffix_weak", 200)
             f == Item("utr_suffix_weak", 200)
  <2>1. IdentifierSignals(l) \in SUBSET {a, b, c, d, f}
    BY IdentifierMeans
  <2> HIDE DEF a, b, c, d, f
  <2>2. IsFiniteSet({a, b, c, d, f})
    BY FiveFinite
  <2> QED
    BY <2>1, <2>2, FS_Subset
<1>6. IsFiniteSet(AmountSignals(l))
  <2> DEFINE a == Item("amount_corr", 500)
             b == Item("amount_corr", 300)
             c == Item("amount_corr_multi", 500)
             d == Item("amount_corr_multi", 300)
             f == Item("value_date_proximity", 200)
  <2>1. AmountSignals(l) \in SUBSET {a, b, c, d, f}
    BY AmountMeans
  <2> HIDE DEF a, b, c, d, f
  <2>2. IsFiniteSet({a, b, c, d, f})
    BY FiveFinite
  <2> QED
    BY <2>1, <2>2, FS_Subset
<1>7. IsFiniteSet(evaluate_rzp_narration_signals(l))
  <2> DEFINE a == Item("narration_brand_rzp", 300)
             b == Item("narration_brand_rzp", 150)
             c == Item("ifsc_ratn", 250)
             d == Item("settlement_ref", 500)
             f == Item("settlement_ref", 500)
  <2>1. evaluate_rzp_narration_signals(l) \in SUBSET {a, b, c, d, f}
    BY NarrationMeans
  <2> HIDE DEF a, b, c, d, f
  <2>2. IsFiniteSet({a, b, c, d, f})
    BY FiveFinite
  <2> QED
    BY <2>1, <2>2, FS_Subset
<1>8. Scored(razorpay_signals(l))
  <2>1. IsFiniteSet(razorpay_signals(l))
    BY <1>5, <1>6, <1>7, FS_Union DEF razorpay_signals
  <2> QED
    BY <1>1, <1>2, <1>3, <2>1 DEF Scored, razorpay_signals
<1>9. Scored(narration_rail_signals(l))
  <2>1. IsFiniteSet(narration_rail_signals(l))
    BY <1>4, WhenFinite DEF narration_rail_signals
  <2>2. \A e \in narration_rail_signals(l) : e = Item("narration_pattern", 950)
    BY DEF narration_rail_signals, When
  <2> QED
    BY <1>0, <2>1, <2>2 DEF Scored
<1> QED
  BY <1>8, <1>9

\* The edge by which a credit is left alone.
Abstention(l) == Candidate({l}, ABSTAIN, 0, {}, <<0, ln(l).amount, 0, 0, 20>>, FALSE)

\* What the solver relies on: the candidates are edges; every credit may be left alone, in
\* one way; and a candidate without a settlement is for one credit.
Graph(D) ==
    /\ Edges(D)
    /\ \A l \in Credits : Abstention(l) \in D
    /\ \A c \in D : c.target = ABSTAIN => \E l \in Credits : c = Abstention(l)
    /\ \A c \in D : c.target < 1 => \E l \in Credits : c.credits = {l}

\* One edge, as the graph wants it.
Edge(c) ==
    /\ c.credits \in SUBSET Credits /\ c.credits # {}
    /\ c.target \in Int /\ c.target >= ABSTAIN /\ c.cost \in Cost
    /\ c.cost[1] >= 0 /\ c.cost[2] >= 0
    /\ c.target = ABSTAIN => \E l \in Credits : c = Abstention(l)
    /\ c.target < 1 => \E l \in Credits : c.credits = {l}

\* A cost written as a tuple.
LEMMA CostTuple ==
    ASSUME NEW a \in Int, NEW b \in Int, NEW c \in Int, NEW d \in Int, NEW e \in Int
    PROVE  /\ <<a, b, c, d, e>> \in Cost
           /\ <<a, b, c, d, e>>[1] = a /\ <<a, b, c, d, e>>[2] = b
BY DEF Cost

\* An absolute value is natural.
LEMMA AbsType ==
    ASSUME NEW n \in Int
    PROVE  Abs(n) \in Nat
BY DEF Abs

\* A rounded score is an integer.
LEMMA RoundType ==
    ASSUME NEW n \in Int
    PROVE  Round4(n) \in Int /\ -Round4(n) \in Int
<1> DEFINE m == n + 50000
           q == m \div 100000
<1>1. m \in Int
  OBVIOUS
<1> HIDE DEF m
<1>2. q \in Int
  BY <1>1
<1>3. Round4(n) = q
  BY DEF Round4, m
<1> HIDE DEF q
<1> QED
  BY <1>2, <1>3

\* A credit's own edges.
LEMMA AbstainEdge ==
    ASSUME statement \in Statement, NEW l \in Credits
    PROVE  Edge(Abstention(l))
<1>1. l \in Lines /\ ln(l).amount \in Int /\ ln(l).amount >= 0
  BY LineTypes DEF Credits
<1> DEFINE cost == <<0, ln(l).amount, 0, 0, 20>>
           c == Abstention(l)
<1>2. cost \in Cost /\ cost[1] = 0 /\ cost[2] = ln(l).amount
  BY <1>1, CostTuple
<1>3. c.credits = {l} /\ c.target = ABSTAIN /\ c.cost = cost
  BY DEF Abstention, Candidate
<1> HIDE DEF cost, c
<1>4. Edge(c)
  BY <1>1, <1>2, <1>3 DEF Edge, ABSTAIN, c
<1> QED
  BY <1>4 DEF c

\* An edge to another rail is an edge.
LEMMA RailEdge ==
    ASSUME statement \in Statement, NEW l \in Credits, NEW c \in RailEdges(l)
    PROVE  Edge(c) /\ c.target = RAIL
<1> DEFINE items == narration_rail_signals(l)
           score == _combine(items)
           r == -Round4(score)
           cost == <<0, 0, 0, r, 5>>
<1>1. score \in Int
  BY SignalsScored, CombineType
<1>2. r \in Int
  <2> HIDE DEF score
  <2> QED
    BY <1>1, RoundType
<1>3. c = Candidate({l}, RAIL, Round4(score), items, cost, FALSE)
  <2> HIDE DEF score, items, r
  <2> QED
    BY DEF RailEdges, When, score, items, r
<1> HIDE DEF r
<1>4. cost \in Cost /\ cost[1] = 0 /\ cost[2] = 0
  BY <1>2, CostTuple
<1>5. c.credits = {l} /\ c.target = RAIL /\ c.cost = cost
  BY <1>3 DEF Candidate
<1> HIDE DEF cost
<1> QED
  BY <1>4, <1>5 DEF Edge, ABSTAIN, RAIL

\* A credit is only ever tied to settlements of the report.
LEMMA TiedAreSettlements ==
    ASSUME statement \in Statement, NEW l \in Lines
    PROVE  TiedSettlements(l) \subseteq Settlements
<1> DEFINE names == SignalNames(razorpay_signals(l))
<1>1. "utr_exact" \in names => ln(l).utr \in Settlements
  BY NamesMean, LineTypes
<1>2. "utr_suffix" \in names => ln(l).suffix \in Settlements
  BY NamesMean, LineTypes
<1>3. net_to_settlements(ln(l).amount) \subseteq Settlements
  BY DEF net_to_settlements
<1> HIDE DEF names
<1> QED
  BY <1>1, <1>2, <1>3 DEF TiedSettlements, When, names

\* The edge from a credit to a settlement it is tied to is an edge.
LEMMA SettlementEdge ==
    ASSUME statement \in Statement, NEW l \in Credits, NEW s \in TiedSettlements(l)
    PROVE  LET c == EdgeTo(l, s)
           IN  /\ Edge(c) /\ c.target = s /\ c.credits = {l} /\ c.is_split = FALSE
               /\ c.evidence = razorpay_signals(l)
<1> DEFINE items == razorpay_signals(l)
           is_exact == HasSignal(items, {"utr_exact"})
           score == IF is_exact THEN 950000000 ELSE _combine(items)
           conf == Round4(score)
           x == ln(l).amount - settlement_net(s)
           diff == Abs(x)
           neg == -conf
           ops == IF is_exact THEN 0 ELSE 10
           cost == <<0, 0, diff, neg, ops>>
           c == EdgeTo(l, s)
<1>0. l \in Lines
  BY DEF Credits
<1>1. score \in Int
  BY SignalsScored, CombineType
<1>2. neg \in Int
  <2> HIDE DEF score
  <2> QED
    BY <1>1, RoundType
<1>3. s \in Settlements /\ s \in Nat /\ s # NoSettlement
  BY <1>0, TiedAreSettlements, EvidenceAssumption
<1>4. x \in Int
  BY <1>0, <1>3, LineTypes
<1>5. diff \in Int
  <2> HIDE DEF x
  <2> QED
    BY <1>4, AbsType
<1>6. ops \in Int
  OBVIOUS
<1>7. c = Candidate({l}, s, conf, items, cost, FALSE)
  BY DEF EdgeTo
<1> HIDE DEF c, neg, diff, ops, conf, items
<1>8. cost \in Cost /\ cost[1] = 0 /\ cost[2] = 0
  BY <1>2, <1>5, <1>6, CostTuple
<1> HIDE DEF cost
<1>9. c.credits = {l} /\ c.target = s /\ c.cost = cost /\ c.is_split = FALSE
      /\ c.evidence = items
  BY <1>7 DEF Candidate
<1>10. s \in Int /\ s >= ABSTAIN /\ s # ABSTAIN /\ ~(s < 1)
  BY <1>3 DEF ABSTAIN, NoSettlement
<1>11. Edge(c)
  BY <1>8, <1>9, <1>10 DEF Edge
<1> QED
  BY <1>9, <1>11 DEF c, items

\* A split that the graph offers.
LEMMA SplitEdge ==
    ASSUME statement \in Statement, NEW s \in Settlements, NEW legs \in SplitLegs(s)
    PROVE  LET c == SplitTo(legs, s)
           IN  Edge(c) /\ c.is_split = TRUE /\ c.target = s /\ c.credits = legs
<1> DEFINE res == Residual(legs, s)
           diff == Abs(res)
           cost == <<0, 0, diff, -9000, 15>>
           amounts == [l \in Lines |-> ln(l).amount]
           c == SplitTo(legs, s)
<1>2. legs \in SUBSET SplitEligible(s) /\ Cardinality(legs) \in 2 .. SPLIT_MAX_LEGS
  BY DEF SplitLegs, _all_sum_subsets
<1>3. legs \in SUBSET Credits /\ legs \subseteq Lines /\ IsFiniteSet(legs)
  <2>1. legs \in SUBSET Credits
    BY <1>2 DEF SplitEligible
  <2> QED
    BY <2>1, CreditsAreNat, FS_Subset DEF Credits
<1>4. legs # {}
  <2>1. Cardinality(legs) # 0
    BY <1>2, SolverAssumption
  <2> QED
    BY <2>1, FS_EmptySet
<1>5. diff \in Int
  <2>1. \A l \in legs : amounts[l] \in Int
    BY <1>3, LineTypes
  <2>2. Total(amounts, legs) \in Int
    <3> HIDE DEF amounts
    <3> QED
      BY <1>3, <2>1, TotalType
  <2>3. settlement_net(s) \in Int
    BY DEF settlement_net, Statement
  <2>4. res \in Int
    BY <2>2, <2>3 DEF Residual
  <2> HIDE DEF res
  <2> QED
    BY <2>4, AbsType
<1>7. c = Candidate(legs, s, 9000, {Item("split_reconstruction", 900)}, cost, TRUE)
  BY DEF SplitTo
<1> HIDE DEF diff, c
<1>6. cost \in Cost /\ cost[1] = 0 /\ cost[2] = 0
  BY <1>5, CostTuple
<1> HIDE DEF cost
<1>9. c.credits = legs /\ c.target = s /\ c.cost = cost /\ c.is_split = TRUE
  BY <1>7 DEF Candidate
<1>8. s \in Int /\ s >= ABSTAIN /\ s # ABSTAIN /\ ~(s < 1)
  BY EvidenceAssumption DEF ABSTAIN, NoSettlement
<1>10. Edge(c)
  BY <1>3, <1>4, <1>6, <1>8, <1>9 DEF Edge
<1> QED
  BY <1>9, <1>10 DEF c

\* The members of the two unions that the graph is built from.
LEMMA EdgeKinds ==
    /\ \A c \in SplitEdges :
          \E s \in Settlements : \E legs \in SplitLegs(s) : c = SplitTo(legs, s)
    /\ \A l : \A c \in SettlementEdges(l) : \E s \in TiedSettlements(l) : c = EdgeTo(l, s)
<1>1. \A c \in SplitEdges :
         \E s \in Settlements : \E legs \in SplitLegs(s) : c = SplitTo(legs, s)
  BY Zenon DEF SplitEdges
<1>2. \A l : \A c \in SettlementEdges(l) : \E s \in TiedSettlements(l) : c = EdgeTo(l, s)
  BY Zenon DEF SettlementEdges
<1> QED
  BY <1>1, <1>2

\* Every candidate is an edge, and there are finitely many.
LEMMA GraphIs ==
    ASSUME statement \in Statement
    PROVE  Graph(build_candidate_graph)
<1> DEFINE D == build_candidate_graph
           Own(l) == AbstainEdges(l) \cup RailEdges(l) \cup SettlementEdges(l)
           Z == UNION {Own(l) : l \in Credits}
<1>1. D = Z \cup SplitEdges
  BY DEF build_candidate_graph
<1>2. \A l : AbstainEdges(l) = {Abstention(l)}
  BY DEF AbstainEdges, Abstention
<1>3. ASSUME NEW c \in D
      PROVE  Edge(c)
  <2>1. CASE c \in SplitEdges
    <3>1. PICK s \in Settlements : \E legs \in SplitLegs(s) : c = SplitTo(legs, s)
      BY <2>1, EdgeKinds
    <3> QED
      BY <3>1, SplitEdge
  <2>2. CASE \E l \in Credits : c \in Own(l)
    <3>1. PICK l \in Credits : c \in Own(l)
      BY <2>2
    <3> QED
      <4>1. CASE c \in AbstainEdges(l)
        BY <1>2, <4>1, AbstainEdge
      <4>2. CASE c \in RailEdges(l)
        BY <4>2, RailEdge
      <4>3. CASE c \in SettlementEdges(l)
        <5>1. PICK s \in TiedSettlements(l) : c = EdgeTo(l, s)
          BY <4>3, EdgeKinds
        <5> QED
          BY <5>1, SettlementEdge
      <4> QED
        BY <3>1, <4>1, <4>2, <4>3
  <2>3. c \in Z \cup SplitEdges
    BY <1>1
  <2>4. c \in Z => \E l \in Credits : c \in Own(l)
    <3> HIDE DEF Own
    <3> QED
      BY Zenon
  <2> HIDE DEF Z, Own
  <2> QED
    BY <2>1, <2>2, <2>3, <2>4
<1>4. ASSUME NEW l \in Credits
      PROVE  IsFiniteSet(Own(l))
  <2>0. l \in Lines
    BY DEF Credits
  <2>1. IsFiniteSet(AbstainEdges(l))
    BY <1>2, FS_Singleton
  <2>2. IsFiniteSet(RailEdges(l))
    <3>1. \A x : IsFiniteSet({x})
      BY FS_Singleton
    <3> QED
      BY <3>1, WhenFinite DEF RailEdges
  <2>3. IsFiniteSet(TiedSettlements(l))
    BY <2>0, TiedAreSettlements, EvidenceAssumption, FS_Subset
  <2>4. PICK f : SettlementEdges(l) = {f[s] : s \in TiedSettlements(l)}
    <3> DEFINE f == [s \in TiedSettlements(l) |-> EdgeTo(l, s)]
    <3>1. SettlementEdges(l) = {f[s] : s \in TiedSettlements(l)}
      BY DEF SettlementEdges
    <3> HIDE DEF f
    <3> QED
      BY <3>1
  <2>5. IsFiniteSet(SettlementEdges(l))
    BY <2>3, <2>4, ImageFinite
  <2> QED
    BY <2>1, <2>2, <2>5, FS_Union
<1>5. IsFiniteSet(Z)
  <2> DEFINE f == [l \in Credits |-> Own(l)]
  <2> HIDE DEF Own
  <2>1. {Own(l) : l \in Credits} = {f[l] : l \in Credits}
    OBVIOUS
  <2>2. IsFiniteSet({f[l] : l \in Credits})
    <3> HIDE DEF f
    <3> QED
      BY CreditsAreNat, ImageFinite
  <2>3. \A T \in {Own(l) : l \in Credits} : IsFiniteSet(T)
    BY <1>4
  <2> HIDE DEF f
  <2> DEFINE Y == {Own(l) : l \in Credits}
  <2>4. IsFiniteSet(Y) /\ \A T \in Y : IsFiniteSet(T)
    BY <2>1, <2>2, <2>3
  <2> HIDE DEF Y
  <2>5. IsFiniteSet(UNION Y)
    BY <2>4, FS_UNION
  <2> QED
    BY <2>5 DEF Y
<1>6. IsFiniteSet(SplitEdges)
  <2> DEFINE P == Settlements \X SUBSET Credits
             f == [g \in P |-> SplitTo(g[2], g[1])]
  <2>1. IsFiniteSet(P)
    BY CreditsAreNat, EvidenceAssumption, FS_SUBSET, FS_Product
  <2>2. SplitEdges \in SUBSET {f[g] : g \in P}
    <3> SUFFICES ASSUME NEW s \in Settlements, NEW legs \in SplitLegs(s)
                 PROVE  \E g \in P : SplitTo(legs, s) = f[g]
      <4> HIDE DEF f, P
      <4> QED
        BY EdgeKinds
    <3>1. legs \in SUBSET Credits
      BY DEF SplitLegs, _all_sum_subsets, SplitEligible
    <3>2. <<s, legs>> \in P /\ f[<<s, legs>>] = SplitTo(legs, s)
      BY <3>1
    <3> QED
      BY <3>2
  <2> HIDE DEF f, P
  <2>3. IsFiniteSet({f[g] : g \in P})
    BY <2>1, ImageFinite
  <2> QED
    BY <2>2, <2>3, FS_Subset
<1>7. IsFiniteSet(D)
  <2> HIDE DEF D, Z
  <2> QED
    BY <1>1, <1>5, <1>6, FS_Union
<1>8. \A l \in Credits : Abstention(l) \in D
  BY <1>1, <1>2
<1> HIDE DEF D
<1>9. Graph(D)
  BY <1>3, <1>7, <1>8 DEF Graph, Edges, Edge
<1> QED
  BY <1>9 DEF D

(***************************************************************************)
(* One component.                                                          *)
(***************************************************************************)
\* The candidates that _solve_component searches.
Usable(D, comp, E) == {c \in D \ E : c.credits \cap comp # {}}

\* Its answer: a way to assign the credits, the default one if the search was cut, and one
\* that no other beats if it was not.
Solves(D, comp, K, E, r) ==
    /\ r.timed_out \in BOOLEAN
    /\ r.best \in Open(Usable(D, comp, E), comp, K)
    /\ r.cost = TotalCost(r.best)
    /\ r.timed_out => r.best = DefaultChosen(D, comp)
    /\ ~r.timed_out => \A A \in Open(Usable(D, comp, E), comp, K) : ~Below(TotalCost(A), r.cost)

\* To leave every credit of the component alone is one way to assign them.
LEMMA DefaultIs ==
    ASSUME NEW D, Graph(D), NEW comp \in SUBSET Credits, NEW K, ABSTAIN \notin K,
           NEW E, \A c \in E : c.target # ABSTAIN
    PROVE  DefaultChosen(D, comp) \in Open(Usable(D, comp, E), comp, K)
<1> DEFINE A == DefaultChosen(D, comp)
<1>1. \A l : Abstention(l).credits = {l} /\ Abstention(l).target = ABSTAIN
  BY DEF Abstention, Candidate
<1>2. \A c \in A : c \in D /\ c.target = ABSTAIN /\ \E l \in comp : c = Abstention(l)
  BY <1>1 DEF DefaultChosen, Graph
<1>3. \A l \in comp : Abstention(l) \in A
  BY <1>1 DEF DefaultChosen, Graph
<1> HIDE DEF A
<1>4. A \in SUBSET Usable(D, comp, E)
  BY <1>1, <1>2 DEF Usable
<1>5. UNION {c.credits : c \in A} = comp
  <2>1. \A l \in comp : l \in UNION {c.credits : c \in A}
    BY <1>1, <1>3
  <2>2. \A c \in A : c.credits \subseteq comp
    BY <1>1, <1>2
  <2>3. \A l \in UNION {c.credits : c \in A} : l \in comp
    BY <2>2
  <2> QED
    BY <2>1, <2>3
<1>6. Compatible(A)
  BY <1>1, <1>2 DEF Compatible, ABSTAIN
<1>7. A \in Open(Usable(D, comp, E), comp, K)
  BY <1>2, <1>4, <1>5, <1>6 DEF Open, Assigned
<1> QED
  BY <1>7 DEF A

\* _solve_component answers as it should.
LEMMA ComponentSolved ==
    ASSUME NEW D, Graph(D), NEW comp \in SUBSET Credits,
           NEW K \in SUBSET Int, ABSTAIN \notin K, RAIL \notin K,
           NEW E, \A c \in E : c.target # ABSTAIN, NEW limit
    PROVE  Solves(D, comp, K, E, _solve_component(D, comp, K, E, limit))
<1> DEFINE U == Usable(D, comp, E)
           default == DefaultChosen(D, comp)
           p == [steps |-> 0, exceeded |-> FALSE, cost |-> TotalCost(default), best |-> default]
           call == [unassigned |-> comp, taken |-> K, chosen |-> {},
                   cost |-> TotalCost({}), progress |-> p]
           n == Cardinality(comp)
           q == search(U, limit, n + 1)[call]
           r == _solve_component(D, comp, K, E, limit)
<1>1. r = IF q.exceeded THEN FailClosed(D, comp, q)
          ELSE [best |-> q.best, cost |-> q.cost, timed_out |-> FALSE]
  BY DEF _solve_component, Usable
<1>2. default \in Open(U, comp, K)
  BY DefaultIs
<1>3. U \in SUBSET D /\ Edges(U)
  <2>1. U \in SUBSET D /\ Edges(D)
    BY DEF Usable, Graph
  <2>2. IsFiniteSet(U)
    BY <2>1, FS_Subset DEF Edges
  <2> QED
    BY <2>1, <2>2 DEF Edges
<1> HIDE DEF U, default, q, r
<1>4. default \in SUBSET U /\ TotalCost(default) \in Cost
  <2>1. default \in SUBSET U
    BY <1>2 DEF Open, Assigned
  <2> QED
    BY <1>3, <2>1, CostType
<1>5. p \in Progress(U)
  BY <1>4 DEF Progress
<1> HIDE DEF p
<1>6. Proper(U, call)
  <2>1. call \in Call(U)
    BY <1>5, CostNothing DEF Call
  <2> QED
    BY <2>1 DEF Proper
<1>7. /\ call.unassigned = comp /\ call.taken = K /\ call.chosen = {}
      /\ call.cost = TotalCost({})
      /\ call.progress = p /\ p.cost = TotalCost(default) /\ p.best = default
  BY DEF p
<1> HIDE DEF call
<1>8. n \in Nat
  BY CreditsAreNat, FS_Subset, FS_CardinalityType
<1>9. Completes(U, call, q)
  <2>1. Searches(U, search(U, limit, n + 1), n + 1)
    <3>1. n + 1 \in Nat
      BY <1>8
    <3> QED
      BY <1>3, <3>1, SearchCompletes
  <2>2. call \in Call(U)
    BY <1>6 DEF Proper
  <2>3. Cardinality(call.unassigned) < n + 1
    BY <1>7, <1>8
  <2> HIDE DEF n
  <2> QED
    BY <1>6, <2>1, <2>2, <2>3 DEF Searches, q
<1>10. Completions(U, call) = Open(U, comp, K)
  BY <1>7 DEF Completions
<1>11. \A A \in Open(U, comp, K) : With(call, A) = TotalCost(A) /\ TotalCost(A) \in Cost
  <2> SUFFICES ASSUME NEW A \in Open(U, comp, K)
               PROVE  With(call, A) = TotalCost(A) /\ TotalCost(A) \in Cost
    OBVIOUS
  <2>1. A \in SUBSET U
    BY DEF Open, Assigned
  <2>2. TotalCost(A) \in Cost
    BY <1>3, <2>1, CostType
  <2> QED
    BY <1>7, <2>2, CostNothing DEF With
<1>12. q.best \in Open(U, comp, K) /\ q.cost = TotalCost(q.best) /\ q.exceeded \in BOOLEAN
  <2>1. Derived(U, call, p, q) /\ q \in Progress(U)
    BY <1>7, <1>9 DEF Completes
  <2>2. CASE q.cost = p.cost /\ q.best = p.best
    BY <1>2, <1>7, <2>1, <2>2 DEF Progress
  <2>3. CASE \E A \in Completions(U, call) : q.cost = With(call, A)
             /\ q.best = call.chosen \cup A
    <3>1. PICK A \in Open(U, comp, K) : q.cost = With(call, A) /\ q.best = call.chosen \cup A
      BY <1>10, <2>3
    <3>2. q.best = A
      BY <1>7, <3>1
    <3> QED
      BY <1>11, <2>1, <3>1, <3>2 DEF Progress
  <2> QED
    BY <2>1, <2>2, <2>3 DEF Derived
<1>13. CASE q.exceeded
  <2>1. r = FailClosed(D, comp, q)
    BY <1>1, <1>13
  <2>2. r.best = default /\ r.cost = TotalCost(default) /\ r.timed_out = TRUE
    BY <2>1 DEF FailClosed, default
  <2>3. Solves(D, comp, K, E, r)
    BY <1>2, <2>2 DEF Solves, U, default
  <2> QED
    BY <2>3 DEF r
<1>14. CASE ~q.exceeded
  <2>1. r.best = q.best /\ r.cost = q.cost /\ r.timed_out = FALSE
    BY <1>1, <1>14
  <2>2. \A A \in Open(U, comp, K) : ~Below(TotalCost(A), q.cost)
    BY <1>9, <1>10, <1>11, <1>14 DEF Completes
  <2>3. Solves(D, comp, K, E, r)
    BY <1>12, <2>1, <2>2 DEF Solves, U
  <2> QED
    BY <2>3 DEF r
<1> QED
  BY <1>13, <1>14

(***************************************************************************)
(* Components.                                                             *)
(***************************************************************************)
\* No candidate leaves a closed set, and no settlement is wanted both inside and outside it.
LEMMA ClosedHolds ==
    ASSUME NEW D, Graph(D), NEW S \in SUBSET Credits, Closed(D, S)
    PROVE  /\ \A c \in D : c.credits \cap S # {} => c.credits \subseteq S
           /\ \A c, d \in D : /\ c.target = d.target /\ c.target >= 1 /\ d.credits \cap S # {}
                              => c.credits \subseteq S
<1>1. ASSUME NEW c \in D, NEW d \in D, c.target = d.target, c.target >= 1, d.credits \cap S # {}
      PROVE  c.credits \subseteq S
  <2>1. \A x \in c.credits : x \in Linked(D, S)
    BY <1>1 DEF Linked
  <2> QED
    BY <2>1 DEF Closed
<1>2. ASSUME NEW c \in D, c.credits \cap S # {}
      PROVE  c.credits \subseteq S
  <2>1. CASE c.target >= 1
    BY <1>1, <1>2, <2>1
  <2>2. CASE c.target < 1
    <3>1. PICK l \in Credits : c.credits = {l}
      BY <2>2 DEF Graph
    <3> QED
      BY <1>2, <3>1
  <2>3. c.target \in Int
    BY DEF Graph, Edges
  <2> QED
    BY <2>1, <2>2, <2>3
<1> QED
  BY <1>1, <1>2

\* What is linked to some credits: the members of Linked.
LEMMA LinkedMember ==
    ASSUME NEW D, NEW S, NEW x \in Linked(D, S)
    PROVE  \E c, d \in D : /\ x \in c.credits /\ c.target >= 1 /\ d.target = c.target
                           /\ d.credits \cap S # {}
BY DEF Linked

\* All the credits are closed; the common part of two closed sets, and what one of them has
\* and the other has not, are closed too.
LEMMA ClosedSets ==
    ASSUME NEW D, Graph(D)
    PROVE  /\ Closed(D, Credits)
           /\ \A S, T \in SUBSET Credits :
                 Closed(D, S) /\ Closed(D, T) => Closed(D, S \cap T) /\ Closed(D, T \ S)
<1>1. Closed(D, Credits)
  <2> SUFFICES ASSUME NEW x \in Linked(D, Credits)
               PROVE  x \in Credits
    BY DEF Closed
  <2> QED
    BY LinkedMember DEF Graph, Edges
<1>2. ASSUME NEW S \in SUBSET Credits, NEW T \in SUBSET Credits, Closed(D, S), Closed(D, T)
      PROVE  Closed(D, S \cap T) /\ Closed(D, T \ S)
  <2>0. /\ \A c, d \in D : c.target = d.target /\ c.target >= 1 /\ d.credits \cap S # {}
                           => c.credits \subseteq S
        /\ \A c, d \in D : c.target = d.target /\ c.target >= 1 /\ d.credits \cap T # {}
                           => c.credits \subseteq T
    BY <1>2, ClosedHolds
  <2>1. ASSUME NEW x \in Linked(D, S \cap T)
        PROVE  x \in S \cap T
    <3>1. PICK c, d \in D : /\ x \in c.credits /\ c.target >= 1 /\ d.target = c.target
                            /\ d.credits \cap (S \cap T) # {}
      BY LinkedMember
    <3> QED
      BY <2>0, <3>1
  <2>2. ASSUME NEW x \in Linked(D, T \ S)
        PROVE  x \in T \ S
    <3>1. PICK c, d \in D : /\ x \in c.credits /\ c.target >= 1 /\ d.target = c.target
                            /\ d.credits \cap (T \ S) # {}
      BY LinkedMember
    <3>2. x \in T
      BY <2>0, <3>1
    <3>3. x \in S => d.credits \subseteq S
      BY <2>0, <3>1
    <3> QED
      BY <3>1, <3>2, <3>3
  <2> QED
    BY <2>1, <2>2 DEF Closed
<1> QED
  BY <1>1, <1>2

\* Two components have no credit in common.
LEMMA ComponentsApart ==
    ASSUME NEW D, Graph(D), NEW S \in Components(D), NEW T \in Components(D), S # T
    PROVE  S \cap T = {}
<1>1. /\ S \in SUBSET Credits /\ T \in SUBSET Credits /\ Closed(D, S) /\ Closed(D, T)
      /\ \A X \in SUBSET S : X # {} /\ Closed(D, X) => X = S
      /\ \A X \in SUBSET T : X # {} /\ Closed(D, X) => X = T
  BY DEF Components
<1>2. Closed(D, S \cap T)
  BY <1>1, ClosedSets
<1> QED
  BY <1>1, <1>2

\* Every credit is in one.
LEMMA ComponentsCover ==
    ASSUME NEW D, Graph(D)
    PROVE  UNION Components(D) = Credits
<1>1. \A S \in Components(D) : S \subseteq Credits
  BY DEF Components
<1>2. ASSUME NEW l \in Credits
      PROVE  \E S \in Components(D) : l \in S
  <2> DEFINE Around == {S \in SUBSET Credits : l \in S /\ Closed(D, S)}
             N == {n \in Nat : \E S \in Around : Cardinality(S) = n}
  <2>0. \A S \in SUBSET Credits : IsFiniteSet(S) /\ Cardinality(S) \in Nat
    BY CreditsAreNat, FS_Subset, FS_CardinalityType
  <2>1. Credits \in Around
    BY ClosedSets
  <2>2. N \in SUBSET Nat /\ N # {}
    BY <2>0, <2>1
  <2>3. PICK n \in N : \A k \in N : n <= k
    <3> HIDE DEF N
    <3> QED
      BY <2>2, SmallestOf
  <2>4. PICK S \in Around : Cardinality(S) = n
    OBVIOUS
  <2>5. ASSUME NEW T \in Around, T \subseteq S
        PROVE  T = S
    <3>1. Cardinality(T) \in N
      BY <2>0
    <3>2. Cardinality(S) <= Cardinality(T)
      BY <2>3, <2>4, <3>1
    <3>3. S \in SUBSET Credits /\ T \in SUBSET S
      BY <2>5
    <3>4. IsFiniteSet(S) /\ Cardinality(S) \in Nat /\ Cardinality(T) \in Nat
      BY <2>0
    <3>5. Cardinality(T) <= Cardinality(S) /\ (Cardinality(S) = Cardinality(T) => S = T)
      BY <3>3, <3>4, FS_Subset
    <3> QED
      BY <3>2, <3>4, <3>5
  <2>6. S \in SUBSET Credits /\ l \in S /\ Closed(D, S)
    OBVIOUS
  <2>7. ASSUME NEW T \in SUBSET S, T # {}, Closed(D, T)
        PROVE  T = S
    <3>1. CASE l \in T
      <4>1. T \in Around
        BY <2>6, <2>7, <3>1
      <4> QED
        BY <2>5, <4>1
    <3>2. CASE l \notin T
      <4>1. Closed(D, S \ T)
        <5>1. T \in SUBSET Credits
          BY <2>6, <2>7
        <5> QED
          BY <2>6, <2>7, <5>1, ClosedSets
      <4>2. S \ T \in Around
        BY <2>6, <3>2, <4>1
      <4>3. S \ T = S
        <5>1. S \ T \subseteq S
          OBVIOUS
        <5> QED
          BY <2>5, <4>2, <5>1
      <4> QED
        BY <2>7, <4>3
    <3> QED
      BY <3>1, <3>2
  <2>8. S \in Components(D)
    BY <2>6, <2>7 DEF Components
  <2> QED
    BY <2>6, <2>8
<1> QED
  BY <1>1, <1>2

\* What is left of the credits without some components is closed.
LEMMA RestClosed ==
    ASSUME NEW D, Graph(D), NEW X \in SUBSET Components(D)
    PROVE  Closed(D, Credits \ UNION X)
<1> SUFFICES ASSUME NEW x \in Linked(D, Credits \ UNION X)
             PROVE  x \in Credits \ UNION X
  BY DEF Closed
<1>1. PICK c, d \in D : /\ x \in c.credits /\ c.target >= 1 /\ d.target = c.target
                        /\ d.credits \cap (Credits \ UNION X) # {}
  BY LinkedMember
<1>2. x \in Credits
  BY <1>1 DEF Graph, Edges
<1>3. ASSUME NEW S \in X, x \in S
      PROVE  FALSE
  <2>1. S \in SUBSET Credits /\ Closed(D, S)
    BY DEF Components
  <2>2. c.target >= 1 /\ d.target >= 1 /\ c.credits \cap S # {}
    BY <1>1, <1>3
  <2>3. d.credits \subseteq S
    BY <1>1, <2>1, <2>2, ClosedHolds
  <2> QED
    BY <1>1, <2>3
<1> QED
  BY <1>2, <1>3

\* Closed sets apart from each other are assigned apart from each other.
LEMMA JoinAssigned ==
    ASSUME NEW D, Graph(D), NEW S \in SUBSET Credits, NEW T \in SUBSET Credits,
           Closed(D, S), Closed(D, T), S \cap T = {},
           NEW A \in Assigned(D, S), NEW B \in Assigned(D, T)
    PROVE  /\ A \cap B = {}
           /\ A \cup B \in Assigned(D, S \cup T)
<1>1. /\ A \in SUBSET D /\ B \in SUBSET D /\ Compatible(A) /\ Compatible(B)
      /\ UNION {c.credits : c \in A} = S /\ UNION {c.credits : c \in B} = T
  BY DEF Assigned
<1>2. /\ \A c \in A : c.credits \subseteq S
      /\ \A c \in B : c.credits \subseteq T
  BY <1>1
<1>3. \A c \in D : c.credits # {} /\ c.target \in Int
  BY DEF Graph, Edges
<1>4. A \cap B = {}
  BY <1>1, <1>2, <1>3
<1>5. ASSUME NEW c \in A, NEW d \in B
      PROVE  c.credits \cap d.credits = {} /\ (c.target = d.target => c.target < 1)
  <2>1. c.credits \cap d.credits = {}
    BY <1>2
  <2>2. ASSUME c.target = d.target, c.target >= 1
        PROVE  FALSE
    <3>1. d.credits \cap T # {} /\ d \in D /\ c \in D
      BY <1>1, <1>2, <1>3
    <3>2. c.credits \subseteq T
      BY <2>2, <3>1, ClosedHolds
    <3> QED
      BY <1>2, <1>3, <3>1, <3>2
  <2>3. c.target \in Int
    BY <1>1, <1>3
  <2> QED
    BY <2>1, <2>2, <2>3
<1>6. Compatible(A \cup B)
  <2> SUFFICES ASSUME NEW c \in A \cup B, NEW d \in A \cup B, c # d
               PROVE  /\ c.credits \cap d.credits = {}
                      /\ c.target = d.target => c.target < 1
    BY DEF Compatible
  <2>1. CASE (c \in A /\ d \in A) \/ (c \in B /\ d \in B)
    BY <1>1, <2>1 DEF Compatible
  <2>2. CASE c \in A /\ d \in B
    BY <1>5, <2>2
  <2>3. CASE d \in A /\ c \in B
    <3>1. d.credits \cap c.credits = {} /\ (d.target = c.target => d.target < 1)
      BY <1>5, <2>3
    <3> QED
      BY <3>1
  <2> QED
    BY <2>1, <2>2, <2>3
<1>7. UNION {c.credits : c \in A \cup B} = S \cup T
  <2>1. \A x \in S \cup T : x \in UNION {c.credits : c \in A \cup B}
    BY <1>1
  <2>2. \A x \in UNION {c.credits : c \in A \cup B} : x \in S \cup T
    BY <1>2
  <2> QED
    BY <2>1, <2>2
<1> QED
  BY <1>1, <1>4, <1>6, <1>7 DEF Assigned

\* The part of an assignment inside one closed set assigns that set.
LEMMA SplitAssigned ==
    ASSUME NEW D, Graph(D), NEW S \in SUBSET Credits, NEW T \in SUBSET Credits,
           Closed(D, S), Closed(D, T), S \cap T = {}, NEW A \in Assigned(D, S \cup T)
    PROVE  {c \in A : c.credits \subseteq S} \in Assigned(D, S)
<1> DEFINE B == {c \in A : c.credits \subseteq S}
<1>1. A \in SUBSET D /\ Compatible(A) /\ UNION {c.credits : c \in A} = S \cup T
  BY DEF Assigned
<1>2. \A x \in S : \E c \in B : x \in c.credits
  <2> SUFFICES ASSUME NEW x \in S
               PROVE  \E c \in B : x \in c.credits
    OBVIOUS
  <2>1. PICK c \in A : x \in c.credits
    BY <1>1
  <2>2. c \in D /\ c.credits \cap S # {}
    BY <1>1, <2>1
  <2>3. c.credits \subseteq S
    BY <2>2, ClosedHolds
  <2> QED
    BY <2>1, <2>3
<1>3. UNION {c.credits : c \in B} = S
  <2>1. \A x \in UNION {c.credits : c \in B} : x \in S
    OBVIOUS
  <2> HIDE DEF B
  <2> QED
    BY <1>2, <2>1
<1>4. Compatible(B)
  BY <1>1 DEF Compatible
<1>5. B \in SUBSET D
  BY <1>1
<1> HIDE DEF B
<1>6. B \in Assigned(D, S)
  BY <1>3, <1>4, <1>5 DEF Assigned
<1> QED
  BY <1>6 DEF B

\* An assignment of both is one of each, and its cost is theirs.
Parts(D, S, T, C) ==
    \E A \in Assigned(D, S), B \in Assigned(D, T) :
        /\ C = A \cup B /\ A \cap B = {}
        /\ TotalCost(C) = _add_costs(TotalCost(A), TotalCost(B))

\* An assignment of two closed sets falls into one of each, and costs what they cost together.
LEMMA PartsOf ==
    ASSUME NEW D, Graph(D), NEW S \in SUBSET Credits, NEW T \in SUBSET Credits,
           Closed(D, S), Closed(D, T), S \cap T = {}, NEW C \in Assigned(D, S \cup T)
    PROVE  Parts(D, S, T, C)
<1> DEFINE A == {c \in C : c.credits \subseteq S}
           B == {c \in C : c.credits \subseteq T}
<1>1. A \in Assigned(D, S)
  BY SplitAssigned
<1>2. B \in Assigned(D, T)
  <2>1. C \in Assigned(D, T \cup S) /\ T \cap S = {}
    <3>1. S \cup T = T \cup S
      OBVIOUS
    <3> QED
      BY <3>1
  <2> QED
    BY <2>1, SplitAssigned
<1>3. C = A \cup B
  <2> SUFFICES ASSUME NEW c \in C
               PROVE  c.credits \subseteq S \/ c.credits \subseteq T
    OBVIOUS
  <2>1. c \in D /\ c.credits # {} /\ c.credits \subseteq S \cup T
    BY DEF Assigned, Graph, Edges
  <2>2. c.credits \cap S # {} \/ c.credits \cap T # {}
    BY <2>1
  <2> QED
    BY <2>1, <2>2, ClosedHolds
<1> HIDE DEF A, B
<1>4. A \cap B = {}
  BY <1>1, <1>2, JoinAssigned
<1>5. TotalCost(C) = _add_costs(TotalCost(A), TotalCost(B))
  <2>1. A \in SUBSET D /\ B \in SUBSET D /\ Edges(D)
    BY <1>1, <1>2 DEF Assigned, Graph
  <2> QED
    BY <1>3, <1>4, <2>1, CostUnion
<1> QED
  BY <1>1, <1>2, <1>3, <1>4, <1>5 DEF Parts

(***************************************************************************)
(* One turn of the loop over the components.                               *)
(***************************************************************************)
\* No assignment of S beats A.
Optimal(D, S, A) == \A B \in Assigned(D, S) : ~Below(TotalCost(B), TotalCost(A))

\* Assignments that tie on money and come within the margin on evidence.
NearTie(B, A, m) ==
    /\ \A i \in 1 .. 3 : TotalCost(B)[i] = TotalCost(A)[i]
    /\ TotalCost(B)[4] - TotalCost(A)[4] <= m

\* None of them gives up a choice that stands.
Unrivalled(D, S, sol, m) ==
    \A c \in sol.chosen :
        c.target # ABSTAIN /\ c.credits \cap (sol.contested \cup sol.alt_cut) = {}
        => \A B \in Assigned(D, S) : c \notin B => ~NearTie(B, sol.chosen, m)

\* What holds of the solution for the credits S of the components solved so far.
Sound(D, S, sol, m) ==
    /\ sol.chosen \in Assigned(D, S)
    /\ sol.consumed \subseteq {c.target : c \in sol.chosen} \ {ABSTAIN, RAIL}
    /\ \A l \in sol.cut : \E c \in sol.chosen : c.target = ABSTAIN /\ c.credits = {l}
    /\ sol.cut = {} => Optimal(D, S, sol.chosen)
    /\ sol.cut = {} /\ m > 0 => Unrivalled(D, S, sol, m)

\* What earlier components consumed does not bind a later one.
LEMMA OpenIsAssigned ==
    ASSUME NEW D, Graph(D), NEW S \in SUBSET Credits, NEW comp \in SUBSET Credits,
           Closed(D, S), S \cap comp = {}, NEW A \in Assigned(D, S),
           NEW K, K \subseteq {c.target : c \in A} \ {ABSTAIN, RAIL}, NEW E
    PROVE  \A B : B \in Open(Usable(D, comp, E), comp, K)
                  <=> B \in Assigned(D, comp) /\ B \cap E = {}
<1>1. /\ A \in SUBSET D /\ \A c \in A : c.credits \subseteq S
      /\ \A c \in D : c.credits # {} /\ c.target \in Int /\ c.target >= ABSTAIN
  BY DEF Assigned, Graph, Edges
<1>2. ASSUME NEW B, B \in Open(Usable(D, comp, E), comp, K)
      PROVE  B \in Assigned(D, comp) /\ B \cap E = {}
  BY <1>2 DEF Open, Assigned, Usable
<1>3. ASSUME NEW B, B \in Assigned(D, comp), B \cap E = {}
      PROVE  B \in Open(Usable(D, comp, E), comp, K)
  <2>1. B \in SUBSET D /\ \A c \in B : c.credits \subseteq comp
    BY <1>3 DEF Assigned
  <2>2. B \in SUBSET Usable(D, comp, E)
    BY <1>1, <1>3, <2>1 DEF Usable
  <2>3. ASSUME NEW c \in B, c.target \in K
        PROVE  FALSE
    <3>1. PICK d \in A : d.target = c.target /\ c.target # ABSTAIN /\ c.target # RAIL
      BY <2>3
    <3>2. c \in D /\ d \in D /\ c.target >= 1 /\ d.credits \cap S # {}
      BY <1>1, <2>1, <3>1 DEF ABSTAIN, RAIL
    <3>3. c.credits \subseteq S
      BY <3>1, <3>2, ClosedHolds
    <3> QED
      BY <1>1, <2>1, <3>2, <3>3
  <2> QED
    BY <1>3, <2>2, <2>3 DEF Open, Assigned
<1> QED
  BY <1>2, <1>3

\* A near tie of the whole is one of each part.
TiedParts(D, S, T, A, B, C, m) ==
    \E F \in Assigned(D, S), G \in Assigned(D, T) :
        C = F \cup G /\ NearTie(F, A, m) /\ NearTie(G, B, m)

\* A near tie of an optimum of two parts, each optimal, is a near tie or an equal in each.
LEMMA TieParts ==
    ASSUME NEW D, Graph(D), NEW S \in SUBSET Credits, NEW T \in SUBSET Credits,
           Closed(D, S), Closed(D, T), S \cap T = {},
           NEW A \in Assigned(D, S), NEW B \in Assigned(D, T),
           Optimal(D, S, A), Optimal(D, T, B),
           NEW C \in Assigned(D, S \cup T), NEW m \in Nat, NearTie(C, A \cup B, m)
    PROVE  TiedParts(D, S, T, A, B, C, m)
<1>1. PICK F \in Assigned(D, S), G \in Assigned(D, T) :
         /\ C = F \cup G /\ TotalCost(C) = _add_costs(TotalCost(F), TotalCost(G))
  BY PartsOf DEF Parts
<1>0. /\ Edges(D) /\ A \in SUBSET D /\ B \in SUBSET D /\ F \in SUBSET D /\ G \in SUBSET D
  BY <1>1 DEF Assigned, Graph
<1>2. A \cap B = {}
  BY JoinAssigned
<1>3. TotalCost(A \cup B) = _add_costs(TotalCost(A), TotalCost(B))
  BY <1>0, <1>2, CostUnion
<1> DEFINE f == TotalCost(F)
           g == TotalCost(G)
           a == TotalCost(A)
           b == TotalCost(B)
<1>4. f \in Cost /\ g \in Cost /\ a \in Cost /\ b \in Cost
  BY <1>0, CostType
<1>5. ~Below(f, a) /\ ~Below(g, b)
  BY <1>1 DEF Optimal
<1>6. /\ \A i \in 1 .. 3 : _add_costs(f, g)[i] = _add_costs(a, b)[i]
      /\ _add_costs(f, g)[4] - _add_costs(a, b)[4] <= m
  BY <1>1, <1>3 DEF NearTie
<1> HIDE DEF f, g, a, b
<1>7. /\ \A i \in 1 .. 3 : f[i] = a[i] /\ g[i] = b[i]
      /\ f[4] >= a[4] /\ g[4] >= b[4]
  BY <1>4, <1>5, <1>6, TiesSplit
<1>8. _add_costs(f, g)[4] = f[4] + g[4] /\ _add_costs(a, b)[4] = a[4] + b[4]
  <2>1. 4 \in 1 .. 5
    OBVIOUS
  <2> QED
    BY <1>4, <2>1, AddedParts
<1>9. f[4] \in Int /\ a[4] \in Int /\ g[4] \in Int /\ b[4] \in Int
  BY <1>4, CostParts
<1>10. f[4] - a[4] <= m /\ g[4] - b[4] <= m
  BY <1>6, <1>7, <1>8, <1>9
<1>11. NearTie(F, A, m) /\ NearTie(G, B, m)
  BY <1>7, <1>10 DEF NearTie, f, g, a, b
<1> QED
  BY <1>1, <1>11 DEF TiedParts

\* Solving a component keeps the solution sound.
LEMMA SoundStep ==
    ASSUME NEW D, Graph(D), NEW S \in SUBSET Credits, NEW comp \in SUBSET Credits, comp # {},
           Closed(D, S), Closed(D, comp), S \cap comp = {},
           NEW sol, NEW m \in Nat, Sound(D, S, sol, m), NEW limit
    PROVE  Sound(D, S \cup comp, SolveOne(D, comp, sol, m, limit), m)
<1> DEFINE K == sol.consumed
           best == _solve_component(D, comp, K, {}, limit)
           rivals == IF m = 0 THEN {} ELSE {c \in best.best : c.target # ABSTAIN}
           Alt(c) == _solve_component(D, comp, K, {c}, limit)
           con == {c \in rivals : Contests(best, Alt(c), m)}
           r == SolveOne(D, comp, sol, m, limit)
           A == sol.chosen
           B == best.best
<1>1. /\ r.chosen = A \cup B
      /\ r.contested = sol.contested \cup UNION {c.credits : c \in con}
      /\ r.consumed = K \cup ({c.target : c \in B \ con} \ {ABSTAIN, RAIL})
      /\ r.cut = sol.cut \cup When(best.timed_out, comp)
      /\ r.alt_cut = sol.alt_cut
         \cup UNION {c.credits : c \in {c \in rivals : Alt(c).timed_out}}
  BY DEF SolveOne
<1> HIDE DEF r
<1>2. A \in Assigned(D, S) /\ K \subseteq {c.target : c \in A} \ {ABSTAIN, RAIL}
  BY DEF Sound
<1>3. K \in SUBSET Int /\ ABSTAIN \notin K /\ RAIL \notin K
  BY <1>2 DEF Assigned, Graph, Edges
<1>4. Solves(D, comp, K, {}, best)
  BY <1>3, ComponentSolved
<1>5. \A c : c.target # ABSTAIN => Solves(D, comp, K, {c}, Alt(c))
  <2> SUFFICES ASSUME NEW c, c.target # ABSTAIN
               PROVE  Solves(D, comp, K, {c}, Alt(c))
    OBVIOUS
  <2>1. \A d \in {c} : d.target # ABSTAIN
    OBVIOUS
  <2> QED
    BY <1>3, <2>1, ComponentSolved
<1> HIDE DEF best, Alt
<1>6. /\ \A X : X \in Open(Usable(D, comp, {}), comp, K)
                <=> X \in Assigned(D, comp) /\ X \cap {} = {}
      /\ \A c : \A X : X \in Open(Usable(D, comp, {c}), comp, K)
                       <=> X \in Assigned(D, comp) /\ X \cap {c} = {}
  <2> HIDE DEF K, A
  <2>1. ASSUME NEW E
        PROVE  \A X : X \in Open(Usable(D, comp, E), comp, K)
                      <=> X \in Assigned(D, comp) /\ X \cap E = {}
    BY <1>2, OpenIsAssigned
  <2> QED
    BY <2>1
<1>7. /\ B \in Assigned(D, comp) /\ best.cost = TotalCost(B) /\ best.timed_out \in BOOLEAN
      /\ best.timed_out => B = DefaultChosen(D, comp)
      /\ ~best.timed_out => Optimal(D, comp, B)
  BY <1>4, <1>6 DEF Solves, Optimal
<1>8. ASSUME NEW c, c.target # ABSTAIN
      PROVE  /\ Alt(c).best \in Assigned(D, comp) /\ Alt(c).cost = TotalCost(Alt(c).best)
             /\ Alt(c).timed_out \in BOOLEAN
             /\ ~Alt(c).timed_out =>
                   \A X \in Assigned(D, comp) : c \notin X => ~Below(TotalCost(X), Alt(c).cost)
  <2>1. Solves(D, comp, K, {c}, Alt(c))
    BY <1>5, <1>8
  <2> DEFINE alt == Alt(c)
             O == Open(Usable(D, comp, {c}), comp, K)
  <2> HIDE DEF alt
  <2>2. /\ alt.best \in O /\ alt.cost = TotalCost(alt.best) /\ alt.timed_out \in BOOLEAN
        /\ ~alt.timed_out => \A X \in O : ~Below(TotalCost(X), alt.cost)
    BY <2>1 DEF Solves, alt
  <2>3. \A X : X \in O <=> X \in Assigned(D, comp) /\ c \notin X
    BY <1>6
  <2> HIDE DEF O
  <2>4. /\ alt.best \in Assigned(D, comp) /\ alt.cost = TotalCost(alt.best)
        /\ alt.timed_out \in BOOLEAN
        /\ ~alt.timed_out =>
              \A X \in Assigned(D, comp) : c \notin X => ~Below(TotalCost(X), alt.cost)
    BY <2>2, <2>3
  <2> QED
    BY <2>4 DEF alt
<1>9. A \cap B = {} /\ A \cup B \in Assigned(D, S \cup comp)
  <2> HIDE DEF A, B
  <2> QED
    BY <1>2, <1>7, JoinAssigned
<1>10. r.consumed \subseteq {c.target : c \in r.chosen} \ {ABSTAIN, RAIL}
  <2>1. K \subseteq {c.target : c \in A \cup B} \ {ABSTAIN, RAIL}
    BY <1>2
  <2>2. {c.target : c \in B \ con} \subseteq {c.target : c \in A \cup B}
    OBVIOUS
  <2> HIDE DEF K, B, con, A
  <2> QED
    BY <1>1, <2>1, <2>2
<1>11. ASSUME NEW l \in r.cut
       PROVE  \E c \in r.chosen : c.target = ABSTAIN /\ c.credits = {l}
  <2>1. CASE l \in sol.cut
    BY <1>1, <2>1 DEF Sound
  <2>2. CASE best.timed_out /\ l \in comp
    <3>1. Abstention(l).credits = {l} /\ Abstention(l).target = ABSTAIN
      BY DEF Abstention, Candidate
    <3>2. Abstention(l) \in DefaultChosen(D, comp)
      BY <2>2, <3>1 DEF Graph, DefaultChosen
    <3>3. Abstention(l) \in r.chosen
      BY <1>1, <1>7, <2>2, <3>2
    <3> QED
      BY <3>1, <3>3
  <2> QED
    BY <1>1, <1>11, <2>1, <2>2 DEF When
<1>12. r.cut = {} => sol.cut = {} /\ ~best.timed_out
  BY <1>1 DEF When
<1>13. ASSUME r.cut = {}
       PROVE  Optimal(D, S, A) /\ Optimal(D, comp, B)
  BY <1>7, <1>12, <1>13 DEF Sound
<1>14. ASSUME r.cut = {}
       PROVE  Optimal(D, S \cup comp, A \cup B)
  <2> SUFFICES ASSUME NEW C \in Assigned(D, S \cup comp)
               PROVE  ~Below(TotalCost(C), TotalCost(A \cup B))
    BY DEF Optimal
  <2> HIDE DEF A, B
  <2>1. PICK F \in Assigned(D, S), G \in Assigned(D, comp) :
           TotalCost(C) = _add_costs(TotalCost(F), TotalCost(G))
    BY PartsOf DEF Parts
  <2>2. Edges(D) /\ A \in SUBSET D /\ B \in SUBSET D /\ F \in SUBSET D /\ G \in SUBSET D
    BY <1>2, <1>7, <2>1 DEF Assigned, Graph
  <2>3. TotalCost(A \cup B) = _add_costs(TotalCost(A), TotalCost(B))
    BY <1>9, <2>2, CostUnion
  <2>4. ~Below(TotalCost(F), TotalCost(A)) /\ ~Below(TotalCost(G), TotalCost(B))
    BY <1>13, <1>14 DEF Optimal
  <2>5. TotalCost(F) \in Cost /\ TotalCost(G) \in Cost /\ TotalCost(A) \in Cost
        /\ TotalCost(B) \in Cost
    BY <2>2, CostType
  <2>6. ~Below(_add_costs(TotalCost(F), TotalCost(G)), _add_costs(TotalCost(A), TotalCost(B)))
    BY <2>4, <2>5, BelowAdds
  <2> QED
    BY <2>1, <2>3, <2>6
<1>15. ASSUME r.cut = {}, m > 0
       PROVE  Unrivalled(D, S \cup comp, r, m)
  <2> SUFFICES ASSUME NEW c \in r.chosen, c.target # ABSTAIN,
                      c.credits \cap (r.contested \cup r.alt_cut) = {},
                      NEW C \in Assigned(D, S \cup comp), c \notin C, NearTie(C, r.chosen, m)
               PROVE  FALSE
    BY DEF Unrivalled
  <2>0. c \in A \cup B /\ NearTie(C, A \cup B, m) /\ Optimal(D, S, A) /\ Optimal(D, comp, B)
    BY <1>1, <1>13, <1>15
  <2>1. PICK F \in Assigned(D, S), G \in Assigned(D, comp) :
           C = F \cup G /\ NearTie(F, A, m) /\ NearTie(G, B, m)
    <3> HIDE DEF A, B
    <3>1. TiedParts(D, S, comp, A, B, C, m)
      BY <1>2, <1>7, <2>0, TieParts
    <3> QED
      BY <3>1 DEF TiedParts
  <2>2. CASE c \in A
    <3>1. c.credits \cap (sol.contested \cup sol.alt_cut) = {}
      BY <1>1
    <3>2. Unrivalled(D, S, sol, m)
      BY <1>12, <1>15 DEF Sound
    <3> QED
      BY <2>1, <2>2, <3>1, <3>2 DEF Unrivalled
  <2>3. CASE c \in B
    <3>0. c \in rivals /\ c.credits # {}
      BY <1>7, <1>15, <2>3 DEF Assigned, Graph, Edges
    <3>1. ~Alt(c).timed_out
      <4>1. Alt(c).timed_out => c.credits \subseteq r.alt_cut
        <5> HIDE DEF rivals
        <5> QED
          BY <1>1, <3>0
      <4> QED
        BY <3>0, <4>1
    <3>2. ~Contests(best, Alt(c), m)
      <4>1. Contests(best, Alt(c), m) => c.credits \subseteq r.contested
        <5> HIDE DEF rivals
        <5> QED
          BY <1>1, <3>0
      <4> QED
        BY <3>0, <4>1
    <3> DEFINE g == TotalCost(G)
               b == TotalCost(B)
               a == TotalCost(Alt(c).best)
    <3>3. /\ Alt(c).best \in Assigned(D, comp) /\ Alt(c).cost = a
          /\ ~Below(g, a)
      BY <1>8, <2>1, <3>1
    <3>4. ~Below(a, b)
      BY <1>13, <1>15, <3>3 DEF Optimal
    <3>5. g \in Cost /\ b \in Cost /\ a \in Cost
      <4>1. Edges(D) /\ G \in SUBSET D /\ B \in SUBSET D /\ Alt(c).best \in SUBSET D
        BY <1>7, <2>1, <3>3 DEF Assigned, Graph
      <4> QED
        BY <4>1, CostType
    <3>6. g[1] = b[1] /\ g[2] = b[2] /\ g[3] = b[3] /\ g[4] - b[4] <= m
      BY <2>1 DEF NearTie
    <3>7. best.cost = b
      BY <1>7
    <3> HIDE DEF g, a, b
    <3>8. /\ g[1] \in Int /\ g[2] \in Int /\ g[3] \in Int /\ g[4] \in Int
          /\ a[1] \in Int /\ a[2] \in Int /\ a[3] \in Int /\ a[4] \in Int
          /\ b[1] \in Int /\ b[2] \in Int /\ b[3] \in Int /\ b[4] \in Int
      BY <3>5, CostParts
    <3>9. a[1] = b[1] /\ a[2] = b[2] /\ a[3] = b[3] /\ a[4] <= g[4]
      BY <3>3, <3>4, <3>6, <3>8 DEF Below
    <3>10. \A i \in 1 .. 3 : a[i] = b[i]
      BY <3>9
    <3>11. a[4] - b[4] <= m
      BY <3>6, <3>8, <3>9
    <3> QED
      BY <3>2, <3>3, <3>7, <3>10, <3>11 DEF Contests
  <2> QED
    BY <2>0, <2>2, <2>3
<1> HIDE DEF A, B
<1>16. Sound(D, S \cup comp, r, m)
  BY <1>1, <1>9, <1>10, <1>11, <1>14, <1>15 DEF Sound
<1> QED
  BY <1>16 DEF r

(***************************************************************************)
(* The pipeline with the global solver.                                    *)
(***************************************************************************)
\* A verdict has a rail and says whether the engine abstained.
IsVerdict(v) == "abstained" \in DOMAIN v /\ "rail" \in DOMAIN v

Verdicts ==
    \A m \in Margins : /\ DOMAIN verdict[m] = Lines
                       /\ \A l \in Lines : IsVerdict(verdict[m][l])

\* The credits of the components solved so far have a sound solution.
SolvedSound ==
    /\ Graph(graph) /\ todo \subseteq Components(graph)
    /\ \A m \in Margins : Sound(graph, Credits \ UNION todo, solution[m], m)

SolveInv ==
    /\ statement \in Statement
    /\ global_solver \in BOOLEAN
    /\ phase \in {"lines", "solve", "rules", "done"}
    /\ Verdicts
    /\ phase = "lines" \/ ~global_solver => \A m \in Margins : solution[m].cut = {}
    /\ phase = "solve" => global_solver
    /\ phase # "lines" /\ global_solver => SolvedSound
    /\ phase # "solve" => todo = {}
    /\ CutAbstains

\* Verdict and Abstained make verdicts.
LEMMA IsVerdicts ==
    ASSUME NEW a, NEW b, NEW c, NEW d
    PROVE  IsVerdict(Verdict(a, b, c, d)) /\ IsVerdict(Abstained(b, d))
BY DEF IsVerdict, Verdict, Abstained

\* Every operator that makes a verdict makes one.
LEMMA LineVerdict ==
    ASSUME NEW l, NEW m
    PROVE  IsVerdict(attribute_line(l, m))
<1>1. \A items, score, tier : IsVerdict(_finalize_razorpay(l, items, score, tier, m))
  BY IsVerdicts DEF _finalize_razorpay
<1>2. IsVerdict(AttributeDebit(l))
  BY IsVerdicts DEF AttributeDebit
<1>3. \A items, tier : IsVerdict(ScoreLine(l, items, tier, m))
  BY <1>1, IsVerdicts DEF ScoreLine
<1> QED
  BY <1>1, <1>2, <1>3, IsVerdicts DEF attribute_line

\* Split reconstruction keeps every verdict a verdict.
LEMMA SplitVerdict ==
    ASSUME NEW base, NEW m, NEW l \in Lines, IsVerdict(base[l])
    PROVE  IsVerdict(reconstruct_splits(base, m)[l])
<1>1. \A items, score, tier : IsVerdict(_finalize_razorpay(l, items, score, tier, m))
  BY IsVerdicts DEF _finalize_razorpay
<1> QED
  BY <1>1 DEF reconstruct_splits

\* A ruling of the rules keeps a verdict a verdict.
LEMMA RuledVerdict ==
    ASSUME NEW l, NEW v, IsVerdict(v)
    PROVE  IsVerdict(apply_approved_rules(l, v))
<1>1. IsVerdict(RuleVerdict(l))
  BY IsVerdicts DEF RuleVerdict
<1> QED
  BY <1>1 DEF apply_approved_rules

\* What the solver's answer makes of one line.
Adjust(v, result, l) ==
    LET c == CHOOSE c \in result.chosen : l \in c.credits
    IN  IF l \in result.contested THEN [v EXCEPT !.rail = "unknown", !.abstained = TRUE]
        ELSE IF c.target = ABSTAIN THEN [Abstained(0, v.evidence) EXCEPT !.tier = "B"]
        ELSE IF c.target = RAIL THEN Verdict("other", c.confidence * 100000, "B", c.evidence)
        ELSE Verdict("razorpay_settlement", c.confidence * 100000,
                     IF c.is_split THEN "C"
                     ELSE IF HasSignal(c.evidence, {"utr_exact"}) THEN "A" ELSE "B", c.evidence)

\* run_global_solver, line by line.
LEMMA AdjustIs ==
    ASSUME NEW base, NEW result, NEW l \in Lines
    PROVE  run_global_solver(base, result)[l] =
              IF l \in Credits THEN Adjust(base[l], result, l) ELSE base[l]
BY DEF run_global_solver, Adjust

\* run_global_solver gives every line its verdict.
LEMMA SolverDomain ==
    ASSUME NEW base, NEW result
    PROVE  DOMAIN run_global_solver(base, result) = Lines
BY DEF run_global_solver

\* A contested line abstains, and so does one whose edge abstains.
LEMMA AdjustVerdict ==
    ASSUME NEW v, NEW result, NEW l, IsVerdict(v)
    PROVE  /\ IsVerdict(Adjust(v, result, l))
           /\ l \in result.contested => Adjust(v, result, l).abstained
           /\ (CHOOSE c \in result.chosen : l \in c.credits).target = ABSTAIN
              => Adjust(v, result, l).abstained
<1> DEFINE c == CHOOSE c \in result.chosen : l \in c.credits
           a == [v EXCEPT !.rail = "unknown", !.abstained = TRUE]
           b == [Abstained(0, v.evidence) EXCEPT !.tier = "B"]
           t == IF c.is_split THEN "C" ELSE IF HasSignal(c.evidence, {"utr_exact"})
                THEN "A" ELSE "B"
           conf == c.confidence * 100000
<1>1. Adjust(v, result, l) = IF l \in result.contested THEN a
                             ELSE IF c.target = ABSTAIN THEN b
                             ELSE IF c.target = RAIL
                                  THEN Verdict("other", conf, "B", c.evidence)
                             ELSE Verdict("razorpay_settlement", conf, t, c.evidence)
  BY DEF Adjust
<1>2. IsVerdict(a) /\ a.abstained = TRUE
  <2>1. DOMAIN a = DOMAIN v
    OBVIOUS
  <2>2. a["abstained"] = TRUE
    BY DEF IsVerdict
  <2> QED
    BY <2>1, <2>2 DEF IsVerdict
<1>3. IsVerdict(b) /\ b.abstained = TRUE
  <2> DEFINE w == Abstained(0, v.evidence)
  <2>1. "abstained" \in DOMAIN w /\ "rail" \in DOMAIN w /\ w.abstained = TRUE
    BY DEF Abstained
  <2> HIDE DEF w
  <2>2. DOMAIN b = DOMAIN w /\ b.abstained = w.abstained
    BY <2>1 DEF w
  <2> QED
    BY <2>1, <2>2 DEF IsVerdict
<1> HIDE DEF a, b, c, t, conf
<1>4. /\ IsVerdict(Verdict("other", conf, "B", c.evidence))
      /\ IsVerdict(Verdict("razorpay_settlement", conf, t, c.evidence))
  BY IsVerdicts
<1> QED
  BY <1>1, <1>2, <1>3, <1>4 DEF c

\* The solution before any component is solved.
LEMMA EmptySound ==
    ASSUME NEW D, Graph(D), NEW sol, sol.chosen = {}, sol.consumed = {}, sol.cut = {}, NEW m
    PROVE  Sound(D, {}, sol, m)
<1>1. {} \in Assigned(D, {})
  BY DEF Assigned, Compatible
<1>2. \A A \in Assigned(D, {}) : A = {}
  BY DEF Assigned, Graph, Edges
<1>3. ~Below(TotalCost({}), TotalCost({}))
  BY CostNothing, BelowOrders
<1> QED
  BY <1>1, <1>2, <1>3 DEF Sound, Optimal, Unrivalled

\* The credits and the graph depend on the statement alone.
LEMMA CreditsFrame ==
    ASSUME statement' = statement
    PROVE  Credits' = Credits /\ \A l : Abstention(l)' = Abstention(l)
BY DEF Credits, Abstention, ln

\* What is solved stays solved while statement, graph and solution stay.
LEMMA SolvedFrame ==
    ASSUME UNCHANGED <<statement, graph, todo, solution>>, SolvedSound
    PROVE  SolvedSound'
<1>1. Credits' = Credits /\ \A l : Abstention(l)' = Abstention(l)
  BY CreditsFrame
<1>2. Graph(graph)'
  BY <1>1 DEF SolvedSound, Graph, Edges
<1>3. (todo \subseteq Components(graph))'
  BY <1>1 DEF SolvedSound, Components
<1>4. (\A m \in Margins : Sound(graph, Credits \ UNION todo, solution[m], m))'
  BY <1>1 DEF SolvedSound
<1> QED
  BY <1>2, <1>3, <1>4 DEF SolvedSound

\* Building the graph.
LEMMA BuildSound ==
    ASSUME statement \in Statement, BuildGraph
    PROVE  SolvedSound'
<1>1. statement' = statement /\ graph' = build_candidate_graph /\ todo' = Components(graph')
  BY DEF BuildGraph
<1>2. Credits' = Credits /\ \A l : Abstention(l)' = Abstention(l)
  BY <1>1, CreditsFrame
<1>3. Graph(graph')
  BY <1>1, GraphIs
<1>4. Graph(graph)'
  BY <1>2, <1>3 DEF Graph, Edges
<1>5. (todo \subseteq Components(graph))'
  BY <1>1, <1>2 DEF Components
<1>6. Credits \ UNION Components(graph') = {}
  BY <1>3, ComponentsCover
<1>7. ASSUME NEW m \in Margins
      PROVE  Sound(graph', {}, solution'[m], m)
  <2>1. solution'[m] = [NoSolution EXCEPT !.is_optimal = un_enumerable_credits = {}]
    BY DEF BuildGraph
  <2>2. solution'[m].chosen = {} /\ solution'[m].consumed = {} /\ solution'[m].cut = {}
    BY <2>1 DEF NoSolution
  <2> QED
    BY <1>3, <2>2, EmptySound
<1>8. (\A m \in Margins : Sound(graph, Credits \ UNION todo, solution[m], m))'
  BY <1>1, <1>2, <1>6, <1>7
<1> QED
  BY <1>4, <1>5, <1>8 DEF SolvedSound

\* Solving a component.
LEMMA SolveSound ==
    ASSUME SolvedSound, SolveComponent
    PROVE  SolvedSound'
<1>1. statement' = statement /\ graph' = graph
  BY DEF SolveComponent
<1>2. PICK comp \in todo :
         /\ solution' = [m \in Margins |-> SolveOne(graph, comp, solution[m], m, max_steps)]
         /\ todo' = todo \ {comp}
  BY DEF SolveComponent
<1> DEFINE S == Credits \ UNION todo
<1>3. Graph(graph) /\ todo \subseteq Components(graph) /\ comp \in Components(graph)
  BY <1>2 DEF SolvedSound
<1>4. comp \in SUBSET Credits /\ comp # {} /\ Closed(graph, comp)
  BY <1>3 DEF Components
<1>5. Closed(graph, S)
  BY <1>3, RestClosed
<1>6. S \in SUBSET Credits /\ S \cap comp = {}
  BY <1>2
<1>7. Credits \ UNION (todo \ {comp}) = S \cup comp
  <2>1. \A T \in todo \ {comp} : T \cap comp = {}
    BY <1>3, ComponentsApart
  <2>2. \A x : x \in UNION (todo \ {comp}) <=> x \in UNION todo /\ x \notin comp
    BY <2>1
  <2> QED
    BY <1>4, <2>2
<1>8. \A m \in Margins : Sound(graph, S, solution[m], m)
  BY DEF SolvedSound
<1> HIDE DEF S
<1>9. ASSUME NEW m \in Margins
      PROVE  Sound(graph, S \cup comp, solution'[m], m)
  <2>1. m \in Nat
    BY AttributionAssumption
  <2>2. solution'[m] = SolveOne(graph, comp, solution[m], m, max_steps)
    BY <1>2
  <2> QED
    BY <1>3, <1>4, <1>5, <1>6, <1>8, <2>1, <2>2, SoundStep
<1>10. Credits' = Credits /\ \A l : Abstention(l)' = Abstention(l)
  BY <1>1, CreditsFrame
<1>11. Graph(graph)'
  BY <1>1, <1>3, <1>10 DEF Graph, Edges
<1>12. (todo \subseteq Components(graph))'
  BY <1>1, <1>2, <1>3, <1>10 DEF Components
<1>13. (\A m \in Margins : Sound(graph, Credits \ UNION todo, solution[m], m))'
  BY <1>1, <1>2, <1>7, <1>9, <1>10
<1> QED
  BY <1>11, <1>12, <1>13 DEF SolvedSound

\* A cut credit's own candidate is the abstention, and its verdict says so.
LEMMA CutVerdict ==
    ASSUME SolvedSound, todo = {}, NEW m \in Margins, NEW l \in solution[m].cut, NEW v,
           IsVerdict(v)
    PROVE  l \in Credits /\ Adjust(v, solution[m], l).abstained
<1> DEFINE A == solution[m].chosen
           d == CHOOSE c \in A : l \in c.credits
<1>1. A \in Assigned(graph, Credits) /\ \E c \in A : c.target = ABSTAIN /\ c.credits = {l}
  <2>1. Sound(graph, Credits \ UNION todo, solution[m], m)
    BY DEF SolvedSound
  <2>2. Credits \ UNION todo = Credits
    OBVIOUS
  <2> QED
    BY <2>1, <2>2 DEF Sound
<1>2. PICK c \in A : c.target = ABSTAIN /\ c.credits = {l}
  BY <1>1
<1>3. UNION {e.credits : e \in A} = Credits /\ Compatible(A)
  BY <1>1 DEF Assigned
<1>4. l \in Credits
  BY <1>2, <1>3
<1> HIDE DEF A
<1>5. d \in A /\ l \in d.credits
  BY <1>2
<1>6. d = c
  BY <1>2, <1>3, <1>5 DEF Compatible
<1>7. (CHOOSE e \in solution[m].chosen : l \in e.credits).target = ABSTAIN
  BY <1>2, <1>6 DEF A
<1> QED
  BY <1>4, <1>7, AdjustVerdict

\* Initially nothing is solved.
LEMMA SolveInvInit == Init => SolveInv
<1> SUFFICES ASSUME Init
             PROVE  SolveInv
  OBVIOUS
<1>1. statement \in Statement /\ global_solver \in BOOLEAN /\ phase = "lines"
  BY AttributionAssumption DEF Init
<1>2. Verdicts
  BY IsVerdicts DEF Init, Verdicts, NoVerdict
<1>3. \A m \in Margins : solution[m].cut = {}
  BY DEF Init, NoSolution
<1> QED
  BY <1>1, <1>2, <1>3 DEF SolveInv, CutAbstains, Init

\* Every step keeps SolveInv.
LEMMA SolveInvNext == SolveInv /\ [Next]_vars => SolveInv'
<1> SUFFICES ASSUME SolveInv, [Next]_vars
             PROVE  SolveInv'
  OBVIOUS
<1> USE DEF SolveInv
<1>1. CASE AttributeLine
  <2>1. Verdicts'
    <3>1. \A m \in Margins : verdict'[m] = [verdict[m] EXCEPT ![turn] = attribute_line(turn, m)]
      BY <1>1 DEF AttributeLine
    <3>2. ASSUME NEW m \in Margins
          PROVE  DOMAIN verdict'[m] = Lines
      BY <3>1 DEF Verdicts
    <3>3. ASSUME NEW m \in Margins, NEW l \in Lines
          PROVE  IsVerdict(verdict'[m][l])
      <4>1. IsVerdict(verdict[m][l]) /\ l \in DOMAIN verdict[m]
        BY DEF Verdicts
      <4>2. IsVerdict(attribute_line(turn, m))
        BY LineVerdict
      <4>3. verdict'[m][l] = IF l = turn THEN attribute_line(turn, m) ELSE verdict[m][l]
        BY <3>1, <4>1
      <4> QED
        BY <4>1, <4>2, <4>3
    <3>4. Lines' = Lines
      BY DEF Lines
    <3> QED
      BY <3>2, <3>3, <3>4 DEF Verdicts
  <2>2. phase = "lines" /\ UNCHANGED <<statement, global_solver, phase, todo, solution>>
    BY <1>1 DEF AttributeLine
  <2> QED
    BY <2>1, <2>2 DEF CutAbstains
<1>2. CASE ReconstructSplits
  <2>1. Verdicts'
    <3>1. \A m \in Margins : verdict'[m] = reconstruct_splits(verdict[m], m)
      BY <1>2 DEF ReconstructSplits
    <3>2. \A m \in Margins : DOMAIN verdict'[m] = Lines
      BY <3>1 DEF reconstruct_splits
    <3> QED
      BY <3>1, <3>2, SplitVerdict DEF Verdicts
  <2>2. /\ ~global_solver /\ phase' = "rules" /\ phase = "lines"
        /\ UNCHANGED <<statement, global_solver, solution, graph, todo>>
    BY <1>2 DEF ReconstructSplits
  <2>3. todo = {} /\ \A m \in Margins : solution[m].cut = {}
    BY <2>2
  <2>4. CutAbstains'
    BY <2>2, <2>3 DEF CutAbstains
  <2> QED
    BY <2>1, <2>2, <2>3, <2>4
<1>3. CASE BuildGraph
  <2>1. SolvedSound'
    BY <1>3, BuildSound
  <2>2. global_solver /\ phase' = "solve" /\ UNCHANGED <<statement, global_solver, verdict>>
    BY <1>3 DEF BuildGraph
  <2> QED
    BY <2>1, <2>2 DEF Verdicts, CutAbstains
<1>4. CASE SolveComponent
  <2>1. phase = "solve" /\ UNCHANGED <<statement, global_solver, phase, verdict>>
    BY <1>4 DEF SolveComponent
  <2>2. SolvedSound'
    BY <1>4, <2>1, SolveSound
  <2> QED
    BY <2>1, <2>2 DEF Verdicts, CutAbstains
<1>5. CASE ApplySolution
  <2>1. /\ phase = "solve" /\ phase' = "rules" /\ todo = {}
        /\ UNCHANGED <<statement, global_solver, graph, todo, solution>>
    BY <1>5 DEF ApplySolution
  <2>2. SolvedSound /\ SolvedSound'
    BY <2>1, SolvedFrame
  <2>3. \A m \in Margins : verdict'[m] = run_global_solver(verdict[m], solution[m])
    BY <1>5 DEF ApplySolution
  <2>4. Verdicts'
    <3>1. ASSUME NEW m \in Margins
          PROVE  DOMAIN verdict'[m] = Lines
      BY <2>3, SolverDomain
    <3>2. ASSUME NEW m \in Margins, NEW l \in Lines
          PROVE  IsVerdict(verdict'[m][l])
      <4>1. IsVerdict(verdict[m][l])
        BY DEF Verdicts
      <4>2. IsVerdict(Adjust(verdict[m][l], solution[m], l))
        BY <4>1, AdjustVerdict
      <4>3. verdict'[m][l] =
               IF l \in Credits THEN Adjust(verdict[m][l], solution[m], l) ELSE verdict[m][l]
        BY <2>3, AdjustIs
      <4> QED
        BY <4>1, <4>2, <4>3
    <3> QED
      BY <3>1, <3>2 DEF Verdicts
  <2>5. CutAbstains'
    <3> SUFFICES ASSUME NEW m \in Margins, NEW l \in solution[m].cut
                 PROVE  verdict'[m][l].abstained
      BY <2>1 DEF CutAbstains
    <3>1. l \in Credits
      <4>1. IsVerdict(Abstained(0, 0))
        BY IsVerdicts
      <4> QED
        BY <2>1, <2>2, <4>1, CutVerdict
    <3>2. l \in Lines
      BY <3>1 DEF Credits
    <3>3. IsVerdict(verdict[m][l])
      BY <3>2 DEF Verdicts
    <3>4. Adjust(verdict[m][l], solution[m], l).abstained
      BY <2>1, <2>2, <3>3, CutVerdict
    <3> QED
      BY <2>3, <3>1, <3>2, <3>4, AdjustIs
  <2> QED
    BY <2>1, <2>2, <2>4, <2>5
<1>6. CASE ApplyRules
  <2>1. /\ phase = "rules" /\ phase' = "done"
        /\ UNCHANGED <<statement, global_solver, graph, todo, solution>>
    BY <1>6 DEF ApplyRules
  <2>2. global_solver => SolvedSound'
    BY <2>1, SolvedFrame
  <2>3. Verdicts'
    <3>1. \A m \in Margins :
             verdict'[m] = [l \in Lines |-> apply_approved_rules(l, verdict[m][l])]
      BY <1>6 DEF ApplyRules
    <3>2. ASSUME NEW m \in Margins, NEW l \in Lines
          PROVE  IsVerdict(verdict'[m][l])
      <4>1. IsVerdict(verdict[m][l])
        BY DEF Verdicts
      <4>2. verdict'[m][l] = apply_approved_rules(l, verdict[m][l])
        BY <3>1
      <4> QED
        BY <4>1, <4>2, RuledVerdict
    <3>3. \A m \in Margins : DOMAIN verdict'[m] = Lines
      BY <3>1
    <3>4. Lines' = Lines
      BY DEF Lines
    <3> QED
      BY <3>2, <3>3, <3>4 DEF Verdicts
  <2> QED
    BY <2>1, <2>2, <2>3 DEF CutAbstains
<1>7. CASE UNCHANGED vars
  <2>1. UNCHANGED <<statement, global_solver, phase, graph, todo, verdict, solution>>
    BY <1>7 DEF vars
  <2>2. SolvedSound => SolvedSound'
    BY <2>1, SolvedFrame
  <2> QED
    BY <2>1, <2>2 DEF Verdicts, CutAbstains
<1> QED
  BY <1>1, <1>2, <1>3, <1>4, <1>5, <1>6, <1>7 DEF Next

\* The assignments of the property are those of the proof.
LEMMA ValidIsAssigned == ValidAssignments = Assigned(graph, Credits)
BY DEF ValidAssignments, Assigned, Compatible

\* What the invariant says once every component is solved.
LEMMA SolvedAll ==
    ASSUME SolveInv, NEW m \in Margins, Solved(m)
    PROVE  /\ Graph(graph)
           /\ solution[m].chosen \in Assigned(graph, Credits)
           /\ Optimal(graph, Credits, solution[m].chosen)
           /\ m > 0 => Unrivalled(graph, Credits, solution[m], m)
<1>1. SolvedSound /\ todo = {} /\ solution[m].cut = {}
  BY DEF SolveInv, Solved
<1>2. Credits \ UNION todo = Credits
  BY <1>1
<1>3. Sound(graph, Credits, solution[m], m)
  BY <1>1, <1>2 DEF SolvedSound
<1> QED
  BY <1>1, <1>3 DEF Sound, SolvedSound

\* A solution of every component is an optimal assignment of every credit.
LEMMA OptimalWhenSolved ==
    ASSUME SolveInv
    PROVE  SolverOptimal
<1> SUFFICES ASSUME NEW m \in Margins, Solved(m)
             PROVE  /\ solution[m].chosen \in ValidAssignments
                    /\ \A A \in ValidAssignments :
                          ~LexLess(TotalCost(A), TotalCost(solution[m].chosen), 5)
  BY DEF SolverOptimal
<1>1. /\ Graph(graph) /\ solution[m].chosen \in Assigned(graph, Credits)
      /\ Optimal(graph, Credits, solution[m].chosen)
  BY SolvedAll
<1>2. ASSUME NEW A \in Assigned(graph, Credits)
      PROVE  ~LexLess(TotalCost(A), TotalCost(solution[m].chosen), 5)
  <2>1. Edges(graph) /\ A \in SUBSET graph /\ solution[m].chosen \in SUBSET graph
    BY <1>1 DEF Graph, Assigned
  <2>2. TotalCost(A) \in Cost /\ TotalCost(solution[m].chosen) \in Cost
    BY <2>1, CostType
  <2>3. ~Below(TotalCost(A), TotalCost(solution[m].chosen))
    BY <1>1 DEF Optimal
  <2> QED
    BY <2>2, <2>3, LexIsBelow
<1> QED
  BY <1>1, <1>2, ValidIsAssigned

\* An edge that is neither contested nor cut has no rival within the margin.
LEMMA TiesAbstain ==
    ASSUME SolveInv
    PROVE  NearTiesAbstain
<1> SUFFICES ASSUME NEW m \in Margins, Solved(m), m > 0, NEW c \in solution[m].chosen,
                    c.target # ABSTAIN,
                    c.credits \cap (solution[m].contested \cup solution[m].alt_cut) = {},
                    NEW A \in ValidAssignments, c \notin A,
                    \A i \in 1 .. 3 : TotalCost(A)[i] = TotalCost(solution[m].chosen)[i]
             PROVE  TotalCost(A)[4] - TotalCost(solution[m].chosen)[4] > m
  BY DEF NearTiesAbstain
<1> DEFINE a == TotalCost(A)
           b == TotalCost(solution[m].chosen)
<1>1. /\ Graph(graph) /\ solution[m].chosen \in Assigned(graph, Credits)
      /\ Unrivalled(graph, Credits, solution[m], m) /\ A \in Assigned(graph, Credits)
  BY SolvedAll, ValidIsAssigned
<1>2. ~NearTie(A, solution[m].chosen, m)
  BY <1>1 DEF Unrivalled
<1>3. ~(a[4] - b[4] <= m)
  BY <1>2 DEF NearTie
<1>4. a \in Cost /\ b \in Cost
  <2>1. Edges(graph) /\ A \in SUBSET graph /\ solution[m].chosen \in SUBSET graph
    BY <1>1 DEF Graph, Assigned
  <2> QED
    BY <2>1, CostType
<1>5. m \in Nat
  BY AttributionAssumption
<1> HIDE DEF a, b
<1>6. a[4] \in Int /\ b[4] \in Int
  BY <1>4, CostParts
<1>7. a[4] - b[4] > m
  BY <1>3, <1>5, <1>6
<1> QED
  BY <1>7 DEF a, b

\* The invariant holds in every state.
LEMMA SolveInvAlways == Spec => []SolveInv
<1>1. SolveInv /\ [Next]_vars => SolveInv'
  BY SolveInvNext
<1> QED
  BY <1>1, SolveInvInit, PTL DEF Spec

\* engine/solver.py: an assignment that no search cut short is one of the valid ones, and
\* none of those costs less.
THEOREM SolverFindsTheBest == Spec => []SolverOptimal
<1>1. SolveInv => SolverOptimal
  BY OptimalWhenSolved
<1> QED
  BY <1>1, SolveInvAlways, PTL

\* engine/solver.py: with a margin, a choice that stands has no rival within it.
THEOREM NoRivalWithinMargin == Spec => []NearTiesAbstain
<1>1. SolveInv => NearTiesAbstain
  BY TiesAbstain
<1> QED
  BY <1>1, SolveInvAlways, PTL

\* engine/solver.py: what a search out of budget answers is abstention.
THEOREM OutOfBudgetAbstains == Spec => []CutAbstains
<1>1. SolveInv => CutAbstains
  BY DEF SolveInv
<1> QED
  BY <1>1, SolveInvAlways, PTL

(***************************************************************************)
(* What the engine says of a line depends on the statement alone.          *)
(***************************************************************************)
LEMMA StatementFrame ==
    ASSUME statement' = statement
    PROVE  /\ Credits' = Credits
           /\ \A l : ln(l)' = ln(l)
           /\ \A s : settlement_net(s)' = settlement_net(s)
           /\ \A a : net_to_settlements(a)' = net_to_settlements(a)
           /\ \A l, s, d : Near(l, s, d)' <=> Near(l, s, d)
           /\ \A legs, s : Residual(legs, s)' = Residual(legs, s)
<1>1. /\ \A l : ln(l)' = ln(l)
      /\ \A s : settlement_net(s)' = settlement_net(s)
      /\ \A s : settlement_date(s)' = settlement_date(s)
  BY DEF ln, settlement_net, settlement_date
<1>2. Credits' = Credits
  BY CreditsFrame
<1>3. \A a : net_to_settlements(a)' = net_to_settlements(a)
  BY <1>1 DEF net_to_settlements
<1>4. \A l, s, d : Near(l, s, d)' <=> Near(l, s, d)
  BY <1>1 DEF Near
<1>5. \A legs, s : Residual(legs, s)' = Residual(legs, s)
  <2>1. [l \in Lines |-> ln(l).amount]' = [l \in Lines |-> ln(l).amount]
    BY <1>1 DEF Lines
  <2> QED
    BY <1>1, <2>1 DEF Residual
<1> QED
  BY <1>1, <1>2, <1>3, <1>4, <1>5

\* Signals depend on the statement alone.
LEMMA SignalsFrame ==
    ASSUME statement' = statement
    PROVE  \A l : /\ razorpay_signals(l)' = razorpay_signals(l)
                  /\ narration_rail_signals(l)' = narration_rail_signals(l)
<1> SUFFICES ASSUME NEW l
             PROVE  /\ razorpay_signals(l)' = razorpay_signals(l)
                    /\ narration_rail_signals(l)' = narration_rail_signals(l)
  OBVIOUS
<1>1. narration_rail_signals(l)' = narration_rail_signals(l)
  BY StatementFrame DEF narration_rail_signals
<1>2. IdentifierSignals(l)' = IdentifierSignals(l)
  BY StatementFrame DEF IdentifierSignals
<1>3. AmountSignals(l)' = AmountSignals(l)
  <2> DEFINE sids == net_to_settlements(ln(l).amount)
             near == \E s \in sids : Near(l, s, DATE_WINDOW_DAYS)
             F(credit, ids, b) ==
                When(credit /\ ids # {},
                     {Item(IF Cardinality(ids) = 1 THEN "amount_corr" ELSE "amount_corr_multi",
                           IF b THEN 500 ELSE 300)}
                     \cup When(b, {Item("value_date_proximity", 200)}))
  <2>1. sids' = sids
    BY StatementFrame DEF net_to_settlements
  <2>2. near' = near
    <3>1. \A s : Near(l, s, DATE_WINDOW_DAYS)' <=> Near(l, s, DATE_WINDOW_DAYS)
      BY StatementFrame
    <3> HIDE DEF sids
    <3>2. near' <=> near
      BY <2>1, <3>1
    <3>3. near' \in BOOLEAN /\ near \in BOOLEAN
      OBVIOUS
    <3> QED
      BY <3>2, <3>3
  <2>3. AmountSignals(l) = F(ln(l).is_credit, sids, near)
    BY DEF AmountSignals
  <2>4. AmountSignals(l)' = F(ln(l)'.is_credit, sids', near')
    BY DEF AmountSignals
  <2>5. ln(l)' = ln(l)
    BY StatementFrame
  <2> HIDE DEF sids, near, F
  <2> QED
    BY <2>1, <2>2, <2>3, <2>4, <2>5
<1>4. evaluate_rzp_narration_signals(l)' = evaluate_rzp_narration_signals(l)
  <2> DEFINE F(line) ==
               When(~line.decoy,
                    When(line.brand = "context", {Item("narration_brand_rzp", 300)})
                    \cup When(line.brand = "word", {Item("narration_brand_rzp", 150)})
                    \cup When(line.ifsc, {Item("ifsc_ratn", 250)})
                    \cup When((line.brand # "none" \/ line.ifsc) /\ line.token
                              /\ line.utr = NoSettlement, {Item("settlement_ref", 500)}))
  <2>1. evaluate_rzp_narration_signals(l) = F(ln(l))
    BY DEF evaluate_rzp_narration_signals
  <2>2. evaluate_rzp_narration_signals(l)' = F(ln(l)')
    BY DEF evaluate_rzp_narration_signals
  <2>3. ln(l)' = ln(l)
    BY StatementFrame
  <2> HIDE DEF F
  <2> QED
    BY <2>1, <2>2, <2>3
<1> QED
  BY <1>1, <1>2, <1>3, <1>4 DEF razorpay_signals

(***************************************************************************)
(* Split reconstruction.                                                   *)
(***************************************************************************)
\* The parts of SplitsUnambiguous, for the verdicts V of one margin.
IsLifted(v) == "split_reconstruction" \in SignalNames(v.evidence)

OpenLegs(V) ==
    {l \in Credits : /\ V[l].abstained \/ IsLifted(V[l])
                     /\ narration_rail_signals(l) = {}
                     /\ HasSignal(razorpay_signals(l), RZP_LEANING_SIGNALS)}

Explained(s, legs) ==
    /\ Cardinality(legs) \in 2 .. SPLIT_MAX_LEGS
    /\ \A k \in legs : ln(k).amount < settlement_net(s) /\ Near(k, s, SPLIT_DATE_WINDOW)
    /\ Abs(Residual(legs, s)) <= SPLIT_DRIFT_PAISE

GroupsOf(V, l) ==
    {g \in Settlements \X SUBSET OpenLegs(V) : l \in g[2] /\ Explained(g[1], g[2])}

Unambiguously(V) == \A l \in Lines : IsLifted(V[l]) => Cardinality(GroupsOf(V, l)) = 1

\* The property of a run, with the names used here.
LEMMA SplitsAre ==
    SplitsUnambiguous
    <=> (phase = "rules" /\ ~global_solver => \A m \in Margins : Unambiguously(verdict[m]))
BY DEF SplitsUnambiguous, Unambiguously, GroupsOf, Explained, OpenLegs, IsLifted

\* Whether splits are unambiguous depends on the statement and the verdicts alone.
LEMMA UnambiguousFrame ==
    ASSUME statement' = statement, NEW V
    PROVE  Unambiguously(V)' <=> Unambiguously(V)
<1>1. OpenLegs(V)' = OpenLegs(V)
  BY StatementFrame, SignalsFrame DEF OpenLegs
<1>2. \A s, legs : Explained(s, legs)' <=> Explained(s, legs)
  BY StatementFrame DEF Explained
<1>3. \A l : GroupsOf(V, l)' = GroupsOf(V, l)
  BY <1>1, <1>2 DEF GroupsOf
<1> QED
  BY <1>3 DEF Unambiguously, Lines

\* No line is lifted before.
LEMMA NamesOf ==
    /\ \A sig, w : SignalNames({Item(sig, w)}) = {sig}
    /\ SignalNames({}) = {}
    /\ \A A, B : SignalNames(A \cup B) = SignalNames(A) \cup SignalNames(B)
<1>1. \A sig, w : SignalNames({Item(sig, w)}) = {sig}
  BY DEF SignalNames, Item
<1>2. SignalNames({}) = {}
  BY DEF SignalNames
<1>3. \A A, B : SignalNames(A \cup B) = SignalNames(A) \cup SignalNames(B)
  BY DEF SignalNames
<1> QED
  BY <1>1, <1>2, <1>3

\* A verdict carries the evidence it was made with.
LEMMA EvidenceOf ==
    /\ \A a, b, c, d : Verdict(a, b, c, d).evidence = d
    /\ \A b, d : Abstained(b, d).evidence = d
BY DEF Verdict, Abstained

\* The names subset-sum evidence can have.
LEMMA SetsumNames ==
    ASSUME NEW l, NEW n \in SignalNames(_setsum_evidence(l))
    PROVE  n \in {"setsum_unenumerable", "multiple_satisfying_subsets", "setsum"}
<1> DEFINE E == _setsum_evidence(l)
           a == {Item("setsum_unenumerable", 0)}
           b == {Item("multiple_satisfying_subsets", 0)}
           c == {Item("setsum", 550)}
<1> DEFINE target == ln(l).amount
           cands == {s \in Settlements : /\ 0 < settlement_net(s) /\ settlement_net(s) < target
                                         /\ Near(l, s, SETSUM_WINDOW)}
           singles == {s \in net_to_settlements(target) : Near(l, s, SETSUM_WINDOW)}
           order == [s \in Settlements |-> s]
           sums == IF Cardinality(cands) <= SETSUM_EXPANSION_MAX_CANDIDATES
                   THEN find_bounded_subsets(cands, statement.net, order, target,
                          SETSUM_MAX_TERMS, SETSUM_EXPANSION_MAX_CANDIDATES,
                          SETSUM_MAX_COMBINATIONS)
                   ELSE find_legacy_subsets(cands, statement.net, order, target)
           found == Cardinality(singles) + Cardinality(sums.subsets)
<1>1. E = IF cands = {} \/ Cardinality(cands) > SETSUM_MAX_CANDIDATES THEN {}
          ELSE IF sums.exhausted THEN a
          ELSE IF found > 1 THEN b
          ELSE When(found = 1 /\ singles = {}, c)
  BY DEF _setsum_evidence
<1>2. /\ SignalNames(a) = {"setsum_unenumerable"}
      /\ SignalNames(b) = {"multiple_satisfying_subsets"}
      /\ SignalNames(c) = {"setsum"} /\ SignalNames({}) = {}
  BY NamesOf
<1>3. n \in SignalNames(E)
  OBVIOUS
<1> HIDE DEF E, a, b, c, target, cands, singles, sums, found
<1>4. \/ E = {} \/ E = a \/ E = b \/ E = c
  BY <1>1 DEF When
<1> QED
  BY <1>2, <1>3, <1>4

\* attribute_line never reconstructs a split.
LEMMA LineNotLifted ==
    ASSUME NEW l, NEW m
    PROVE  ~IsLifted(attribute_line(l, m))
<1> DEFINE S == "split_reconstruction"
           Free(X) == S \notin SignalNames(X)
           items == razorpay_signals(l)
           rail == narration_rail_signals(l)
           sum == _setsum_evidence(l)
<1>1. Free(items)
  BY NamesMean
<1>2. Free(rail) /\ Free({})
  BY NamesOf DEF narration_rail_signals, When
<1>3. Free(sum)
  BY SetsumNames
<1>4. Free(items \cup sum) /\ Free({Item("proof_margin_low", 0)})
  BY <1>1, <1>3, NamesOf
<1>5. \A X, score, tier : Free(X) => ~IsLifted(_finalize_razorpay(l, X, score, tier, m))
  <2> SUFFICES ASSUME NEW X, NEW score, NEW tier, Free(X)
               PROVE  ~IsLifted(_finalize_razorpay(l, X, score, tier, m))
    OBVIOUS
  <2>1. Free(X \cup {Item("proof_margin_low", 0)})
    BY <1>4, NamesOf
  <2>2. \/ _finalize_razorpay(l, X, score, tier, m)
              = Abstained(score, X \cup {Item("proof_margin_low", 0)})
        \/ _finalize_razorpay(l, X, score, tier, m)
              = Verdict("razorpay_settlement", score, tier, X)
    BY DEF _finalize_razorpay
  <2> QED
    BY <2>1, <2>2, EvidenceOf DEF IsLifted
<1>6. \A X, tier : Free(X) => ~IsLifted(ScoreLine(l, X, tier, m))
  <2> SUFFICES ASSUME NEW X, NEW tier, Free(X)
               PROVE  ~IsLifted(ScoreLine(l, X, tier, m))
    OBVIOUS
  <2> DEFINE v == ScoreLine(l, X, tier, m)
  <2>1. \/ \E b : v = Abstained(b, X) \/ v = Abstained(b, rail)
        \/ \E b : v = _finalize_razorpay(l, X, b, tier, m)
        \/ \E b : v = Verdict("other", b, "B", rail)
    BY DEF ScoreLine
  <2> HIDE DEF v
  <2>2. ~IsLifted(v)
    BY <1>2, <1>5, <2>1, EvidenceOf DEF IsLifted
  <2> QED
    BY <2>2 DEF v
<1>7. ~IsLifted(AttributeDebit(l))
  <2> DEFINE v == AttributeDebit(l)
  <2>1. \E b : v = Abstained(b, rail) \/ v = Verdict("other", b, "B", rail)
    BY DEF AttributeDebit
  <2> HIDE DEF v
  <2>2. ~IsLifted(v)
    BY <1>2, <2>1, EvidenceOf DEF IsLifted
  <2> QED
    BY <2>2 DEF v
<1>8. \A X : Free(X) => ~IsLifted(Abstained(0, X))
  BY EvidenceOf DEF IsLifted
<1> DEFINE v == attribute_line(l, m)
<1>9. \/ v = AttributeDebit(l)
      \/ \E b : v = _finalize_razorpay(l, items, b, "A", m)
      \/ v = Abstained(0, items \cup sum)
      \/ v = ScoreLine(l, items \cup sum, "C", m)
      \/ v = ScoreLine(l, items, "B", m)
      \/ v = Abstained(0, items \cup {}) \/ v = ScoreLine(l, items \cup {}, "C", m)
  BY DEF attribute_line
<1> HIDE DEF v, items, rail, sum
<1>10. items \cup {} = items
  OBVIOUS
<1>11. ~IsLifted(v)
  BY <1>1, <1>4, <1>5, <1>6, <1>7, <1>8, <1>9, <1>10
<1> QED
  BY <1>11 DEF v

\* The members of the two unions over settlements.
LEMMA MatchesAre ==
    ASSUME NEW pool
    PROVE  /\ \A n : n \in SplitMatches(pool) <=>
                 \E s \in Settlements : \E legs \in _all_sum_subsets(EligibleLegs(pool, s), s) :
                    /\ Cardinality(EligibleLegs(pool, s)) \in 2 .. SPLIT_MAX_CANDIDATES
                    /\ n = <<s, legs>>
           /\ \A s \in Settlements :
                 Cardinality(EligibleLegs(pool, s)) > SPLIT_MAX_CANDIDATES
                 => EligibleLegs(pool, s) \subseteq Poisoned(pool)
<1>1. \A n : n \in SplitMatches(pool) <=>
         \E s \in Settlements : \E legs \in _all_sum_subsets(EligibleLegs(pool, s), s) :
            /\ Cardinality(EligibleLegs(pool, s)) \in 2 .. SPLIT_MAX_CANDIDATES
            /\ n = <<s, legs>>
  BY DEF SplitMatches
<1>2. \A s \in Settlements :
         Cardinality(EligibleLegs(pool, s)) > SPLIT_MAX_CANDIDATES
         => EligibleLegs(pool, s) \subseteq Poisoned(pool)
  BY DEF Poisoned
<1> QED
  BY <1>1, <1>2

\* The legs of the accepted splits are in the pool.
LEMMA LegsInPool ==
    ASSUME NEW base, NEW n \in AcceptedSplits(base)
    PROVE  /\ n \in SplitMatches(SplitPool(base)) /\ n[2] \subseteq SplitPool(base)
           /\ Unambiguous(SplitMatches(SplitPool(base)), n)
           /\ n[2] \cap Poisoned(SplitPool(base)) = {}
           /\ \E l \in n[2] : HasSignal(razorpay_signals(l), STRONG_RZP_SIGNALS)
<1> DEFINE pool == SplitPool(base)
<1>1. /\ n \in SplitMatches(pool) /\ Unambiguous(SplitMatches(pool), n)
      /\ n[2] \cap Poisoned(pool) = {}
      /\ \E l \in n[2] : HasSignal(razorpay_signals(l), STRONG_RZP_SIGNALS)
  BY DEF AcceptedSplits
<1> HIDE DEF pool
<1>2. PICK s \in Settlements :
         \E legs \in _all_sum_subsets(EligibleLegs(pool, s), s) : n = <<s, legs>>
  BY <1>1, MatchesAre
<1>3. n[2] \subseteq EligibleLegs(pool, s)
  BY <1>2 DEF _all_sum_subsets
<1>4. n[2] \subseteq pool
  BY <1>3 DEF EligibleLegs
<1> QED
  BY <1>1, <1>4 DEF pool

\* The legs that reconstruct_splits lifts.
Lifted(base) ==
    IF SPLIT_CONFIDENCE < THRESHOLD \/ Cardinality(SplitPool(base)) < 2 THEN {}
    ELSE UNION {m[2] : m \in AcceptedSplits(base)}

\* reconstruct_splits, line by line.
LEMMA SplitLine ==
    ASSUME NEW base, NEW m, NEW l \in Lines
    PROVE  reconstruct_splits(base, m)[l] =
              IF l \in Lifted(base)
              THEN _finalize_razorpay(l, {Item("split_reconstruction", 900)},
                                      SPLIT_CONFIDENCE, "C", m)
              ELSE base[l]
BY DEF reconstruct_splits, Lifted

\* A lifted line is a leg of an accepted split.
LEMMA LiftedMember ==
    ASSUME NEW base, NEW l \in Lifted(base)
    PROVE  \E n \in AcceptedSplits(base) : l \in n[2]
BY DEF Lifted

\* A verdict of _finalize_razorpay keeps its evidence.
LEMMA FinalizeKeeps ==
    ASSUME NEW l, NEW score, NEW tier, NEW m
    PROVE  IsLifted(_finalize_razorpay(l, {Item("split_reconstruction", 900)}, score, tier, m))
<1> DEFINE X == {Item("split_reconstruction", 900)}
           v == _finalize_razorpay(l, X, score, tier, m)
<1>1. v = Abstained(score, X \cup {Item("proof_margin_low", 0)})
      \/ v = Verdict("razorpay_settlement", score, tier, X)
  BY DEF _finalize_razorpay
<1>2. "split_reconstruction" \in SignalNames(X)
      /\ "split_reconstruction" \in SignalNames(X \cup {Item("proof_margin_low", 0)})
  BY NamesOf
<1> HIDE DEF v, X
<1>3. IsLifted(v)
  BY <1>1, <1>2, EvidenceOf DEF IsLifted
<1> QED
  BY <1>3 DEF v, X

\* What reconstruct_splits leaves is unambiguous.
LEMMA SplitsStand ==
    ASSUME NEW base, NEW m, \A l \in Lines : ~IsLifted(base[l])
    PROVE  Unambiguously(reconstruct_splits(base, m))
<1> DEFINE V == reconstruct_splits(base, m)
           pool == SplitPool(base)
<1>1. \A l \in Lines : V[l] = IF l \in Lifted(base)
         THEN _finalize_razorpay(l, {Item("split_reconstruction", 900)},
                                 SPLIT_CONFIDENCE, "C", m)
         ELSE base[l]
  BY SplitLine
<1>2. \A l \in Lines : IsLifted(V[l]) <=> l \in Lifted(base)
  BY <1>1, FinalizeKeeps
<1>3. Lifted(base) \subseteq pool
  BY LiftedMember, LegsInPool
<1> HIDE DEF V
<1>4. OpenLegs(V) = pool
  <2>1. ASSUME NEW l \in Lines
        PROVE  V[l].abstained \/ IsLifted(V[l]) <=> base[l].abstained \/ l \in Lifted(base)
    BY <1>1, <1>2, <2>1
  <2>2. \A l : l \in pool
                  <=> l \in Lines /\ base[l].abstained /\ ln(l).is_credit /\ ln(l).amount > 0
                              /\ narration_rail_signals(l) = {}
                              /\ HasSignal(razorpay_signals(l), RZP_LEANING_SIGNALS)
    BY DEF SplitPool
  <2>3. \A l : l \in OpenLegs(V) <=>
                              /\ l \in Credits /\ (V[l].abstained \/ IsLifted(V[l]))
                              /\ narration_rail_signals(l) = {}
                              /\ HasSignal(razorpay_signals(l), RZP_LEANING_SIGNALS)
    BY DEF OpenLegs
  <2>4. \A l : l \in Credits <=> l \in Lines /\ ln(l).is_credit /\ ln(l).amount > 0
    BY DEF Credits
  <2>5. \A l \in Lifted(base) : base[l].abstained
    BY <1>3, <2>2
  <2> HIDE DEF pool
  <2>6. ASSUME NEW l
        PROVE  l \in OpenLegs(V) <=> l \in pool
    BY <2>1, <2>2, <2>3, <2>4, <2>5
  <2> QED
    BY <2>6
<1>5. ASSUME NEW l \in Lines, IsLifted(V[l])
      PROVE  Cardinality(GroupsOf(V, l)) = 1
  <2>1. PICK n \in AcceptedSplits(base) : l \in n[2]
    BY <1>2, <1>5, LiftedMember
  <2>2. /\ n \in SplitMatches(pool) /\ n[2] \subseteq pool /\ Unambiguous(SplitMatches(pool), n)
        /\ n[2] \cap Poisoned(pool) = {}
    BY LegsInPool
  <2> HIDE DEF pool
  <2>3. IsFiniteSet(pool)
    <3>1. pool \in SUBSET Credits
      BY <1>4 DEF OpenLegs
    <3> QED
      BY <3>1, CreditsAreNat, FS_Subset
  <2>4. ASSUME NEW g \in GroupsOf(V, l)
        PROVE  g = n
    <3>1. PICK s \in Settlements, legs \in SUBSET pool : g = <<s, legs>>
      BY <1>4 DEF GroupsOf
    <3>2. l \in legs /\ Explained(s, legs)
      BY <3>1 DEF GroupsOf
    <3> DEFINE E == EligibleLegs(pool, s)
    <3>3. legs \in SUBSET E
      BY <3>2 DEF Explained, EligibleLegs
    <3>4. legs \in _all_sum_subsets(E, s)
      BY <3>2, <3>3 DEF Explained, _all_sum_subsets
    <3>5. IsFiniteSet(E) /\ IsFiniteSet(legs) /\ Cardinality(legs) <= Cardinality(E)
      <4>1. E \in SUBSET pool
        BY DEF EligibleLegs
      <4> HIDE DEF E
      <4> QED
        BY <2>3, <3>3, <4>1, FS_Subset
    <3> HIDE DEF E
    <3>6. Cardinality(E) \in Nat /\ Cardinality(legs) \in Nat
      BY <3>5, FS_CardinalityType
    <3>7. Cardinality(legs) >= 2
      BY <3>2, SolverAssumption DEF Explained
    <3>8. ~(Cardinality(E) > SPLIT_MAX_CANDIDATES)
      <4>1. Cardinality(E) > SPLIT_MAX_CANDIDATES => E \subseteq Poisoned(pool)
        BY MatchesAre DEF E
      <4> QED
        BY <2>1, <2>2, <3>2, <3>3, <4>1
    <3>9. Cardinality(E) \in 2 .. SPLIT_MAX_CANDIDATES
      BY <3>5, <3>6, <3>7, <3>8, SolverAssumption
    <3>10. <<s, legs>> \in SplitMatches(pool)
      BY <3>4, <3>9, MatchesAre DEF E
    <3>11. g \in SplitMatches(pool) /\ g[2] \cap n[2] # {}
      BY <2>1, <3>1, <3>2, <3>10
    <3> QED
      BY <2>2, <3>11 DEF Unambiguous
  <2>5. n \in GroupsOf(V, l)
    <3>1. PICK s \in Settlements :
             \E legs \in _all_sum_subsets(EligibleLegs(pool, s), s) : n = <<s, legs>>
      BY <2>2, MatchesAre
    <3>2. PICK legs \in _all_sum_subsets(EligibleLegs(pool, s), s) : n = <<s, legs>>
      BY <3>1
    <3>3. legs \in SUBSET pool
      BY <2>2, <3>2
    <3>4. Explained(s, legs)
      BY DEF Explained, _all_sum_subsets, EligibleLegs
    <3>5. l \in legs
      BY <2>1, <3>2
    <3> QED
      BY <1>4, <3>2, <3>3, <3>4, <3>5 DEF GroupsOf
  <2>6. GroupsOf(V, l) = {n}
    BY <2>4, <2>5
  <2> QED
    BY <2>6, FS_Singleton
<1>6. Unambiguously(V)
  BY <1>5 DEF Unambiguously
<1> QED
  BY <1>6 DEF V

\* The invariant behind SplitsUnambiguous: no line is lifted while they are taken one by one.
SplitInv ==
    /\ Verdicts
    /\ phase = "lines" => \A m \in Margins : \A l \in Lines : ~IsLifted(verdict[m][l])
    /\ SplitsUnambiguous

\* Initially no line has a verdict to keep.
LEMMA SplitInvInit == Init => SplitInv
<1> SUFFICES ASSUME Init
             PROVE  SplitInv
  OBVIOUS
<1>1. ~IsLifted(NoVerdict)
  BY NamesOf, EvidenceOf DEF NoVerdict, IsLifted
<1>2. \A m \in Margins : \A l \in Lines : verdict[m][l] = NoVerdict
  BY DEF Init
<1>3. phase = "lines"
  BY DEF Init
<1>4. Verdicts
  BY SolveInvInit DEF SolveInv
<1> QED
  BY <1>1, <1>2, <1>3, <1>4, SplitsAre DEF SplitInv

\* Every step keeps SplitInv.
LEMMA SplitInvNext == SolveInv /\ SplitInv /\ [Next]_vars => SplitInv'
<1> SUFFICES ASSUME SolveInv, SplitInv, [Next]_vars
             PROVE  SplitInv'
  OBVIOUS
<1>0. Verdicts'
  BY SolveInvNext DEF SolveInv
<1>1. CASE AttributeLine
  <2>1. phase = "lines" /\ phase' = "lines"
    BY <1>1 DEF AttributeLine
  <2>2. ASSUME NEW m \in Margins, NEW l \in Lines
        PROVE  ~IsLifted(verdict'[m][l])
    <3>1. ~IsLifted(verdict[m][l]) /\ DOMAIN verdict[m] = Lines
      BY <2>1 DEF SplitInv, Verdicts
    <3>2. verdict'[m] = [verdict[m] EXCEPT ![turn] = attribute_line(turn, m)]
      BY <1>1 DEF AttributeLine
    <3>3. verdict'[m][l] = IF l = turn THEN attribute_line(turn, m) ELSE verdict[m][l]
      BY <3>1, <3>2
    <3>4. ~IsLifted(attribute_line(turn, m))
      BY LineNotLifted
    <3> QED
      BY <3>1, <3>3, <3>4
  <2>3. SplitsUnambiguous'
    BY <2>1 DEF SplitsUnambiguous
  <2>4. (\A m \in Margins : \A l \in Lines : ~IsLifted(verdict[m][l]))'
    BY <2>2 DEF Lines, IsLifted
  <2> QED
    BY <1>0, <2>3, <2>4 DEF SplitInv
<1>2. CASE ReconstructSplits
  <2>1. phase = "lines" /\ phase' = "rules" /\ statement' = statement
    BY <1>2 DEF ReconstructSplits
  <2>2. ASSUME NEW m \in Margins
        PROVE  Unambiguously(verdict[m])'
    <3> DEFINE V == reconstruct_splits(verdict[m], m)
    <3>1. verdict'[m] = V
      BY <1>2 DEF ReconstructSplits
    <3>2. Unambiguously(V)
      BY <2>1, SplitsStand DEF SplitInv
    <3> HIDE DEF V
    <3>3. \A W : Unambiguously(W)' <=> Unambiguously(W)
      BY <2>1, UnambiguousFrame
    <3> QED
      BY <3>1, <3>2, <3>3
  <2>3. SplitsUnambiguous'
    <3>1. (\A m \in Margins : Unambiguously(verdict[m]))'
      BY <2>2
    <3> QED
      BY <3>1 DEF SplitsUnambiguous, Unambiguously, GroupsOf, Explained, OpenLegs, IsLifted
  <2> QED
    BY <1>0, <2>1, <2>3 DEF SplitInv
<1>3. CASE BuildGraph \/ SolveComponent \/ ApplyRules
  <2>1. phase' # "lines" /\ phase' # "rules"
    BY <1>3 DEF BuildGraph, SolveComponent, ApplyRules
  <2>2. SplitsUnambiguous'
    BY <2>1 DEF SplitsUnambiguous
  <2> QED
    BY <1>0, <2>1, <2>2 DEF SplitInv
<1>4. CASE ApplySolution
  <2>1. phase' = "rules" /\ global_solver'
    BY <1>4 DEF ApplySolution, SolveInv
  <2>2. SplitsUnambiguous'
    BY <2>1 DEF SplitsUnambiguous
  <2> QED
    BY <1>0, <2>1, <2>2 DEF SplitInv
<1>5. CASE UNCHANGED vars
  <2>1. UNCHANGED <<statement, phase, global_solver, verdict>>
    BY <1>5 DEF vars
  <2>2. \A W : Unambiguously(W)' <=> Unambiguously(W)
    BY <2>1, UnambiguousFrame
  <2>3. SplitsUnambiguous'
    <3>1. phase = "rules" /\ ~global_solver => \A m \in Margins : Unambiguously(verdict[m])
      BY SplitsAre DEF SplitInv
    <3>2. (phase = "rules" /\ ~global_solver => \A m \in Margins : Unambiguously(verdict[m]))'
      BY <2>1, <2>2, <3>1
    <3> QED
      BY <3>2 DEF SplitsUnambiguous, Unambiguously, GroupsOf, Explained, OpenLegs, IsLifted
  <2>4. (phase = "lines" => \A m \in Margins : \A l \in Lines : ~IsLifted(verdict[m][l]))'
    BY <2>1 DEF SplitInv, Lines, IsLifted
  <2> QED
    BY <1>0, <2>3, <2>4 DEF SplitInv
<1> QED
  BY <1>1, <1>2, <1>3, <1>4, <1>5 DEF Next

\* engine/solver.py reconstruct_splits: a leg it lifts has one explanation as a leg.
THEOREM SplitsHaveOneReading == Spec => []SplitsUnambiguous
<1>1. SolveInv /\ SplitInv /\ [Next]_vars => SplitInv'
  BY SplitInvNext
<1>2. SplitInv => SplitsUnambiguous
  BY DEF SplitInv
<1> QED
  BY <1>1, <1>2, SplitInvInit, SolveInvAlways, PTL DEF Spec

(***************************************************************************)
(* The proof gate.  First what the evidence of one line says of the report.*)
(***************************************************************************)
\* A match of the bounded search is a set of items with the sum asked for.
LEMMA BoundedTie ==
    ASSUME NEW items, NEW net, NEW pos, NEW target, NEW a, NEW b, NEW c,
           find_bounded_subsets(items, net, pos, target, a, b, c).subsets # {}
    PROVE  \E S \in SUBSET items : S # {} /\ Total(net, S) = target
<1> DEFINE found == find_bounded_subsets(items, net, pos, target, a, b, c)
           combos == Combinations(items, a)
           matching == {d \in combos : Total(net, d) = target}
           Earlier(d) == {e \in matching : ExaminedBefore(pos, e, d)}
           returned == {d \in matching : Cardinality(Earlier(d)) < 2}
<1>1. found.subsets = {} \/ found.subsets = {Once(items, d) : d \in returned}
  BY DEF find_bounded_subsets
<1>2. PICK d \in returned : TRUE
  BY <1>1
<1>3. d \in SUBSET items /\ Cardinality(d) \in 1 .. a /\ Total(net, d) = target
  BY <1>2 DEF Combinations
<1>4. d # {}
  <2>1. Cardinality(d) # 0
    BY <1>3
  <2> QED
    BY <2>1, FS_EmptySet
<1> QED
  BY <1>3, <1>4

\* A match of the older search, on items in their own order, is one too.
LEMMA LegacyTie ==
    ASSUME NEW items \in SUBSET Int, NEW net, \A i \in items : net[i] \in Int,
           NEW pos, \A i \in items : pos[i] = i, NEW target,
           find_legacy_subsets(items, net, pos, target).subsets # {}
    PROVE  \E S \in SUBSET items : S # {} /\ Total(net, S) = target
<1> DEFINE pairs == {p \in items \X items : p[2] > p[1] /\ net[p[1]] + net[p[2]] = target}
           triples == {t \in items \X items \X items :
                         /\ pos[t[1]] < pos[t[2]]
                         /\ t[3] > t[2]
                         /\ net[t[1]] + net[t[2]] + net[t[3]] = target}
<1>1. pairs # {} \/ triples # {}
  <2>1. PairMatches(items, net, target) # {} \/ TripleMatches(items, net, pos, target) # {}
    BY DEF find_legacy_subsets
  <2> QED
    BY <2>1 DEF PairMatches, TripleMatches
<1>2. CASE pairs # {}
  <2>1. PICK p \in items \X items : p[2] > p[1] /\ net[p[1]] + net[p[2]] = target
    BY <1>2
  <2>2. PICK x \in items, y \in items : y > x /\ net[x] + net[y] = target
    BY <2>1
  <2>3. x # y /\ net[x] \in Int /\ net[y] \in Int
    BY <2>2
  <2>4. Total(net, {x, y}) = target
    BY <2>2, <2>3, TotalTwo
  <2>5. {x, y} \in SUBSET items /\ {x, y} # {}
    OBVIOUS
  <2> QED
    BY <2>4, <2>5
<1>3. CASE triples # {}
  <2>1. PICK t \in items \X items \X items :
           /\ pos[t[1]] < pos[t[2]]
           /\ t[3] > t[2]
           /\ net[t[1]] + net[t[2]] + net[t[3]] = target
    BY <1>3
  <2>2. PICK x \in items, y \in items, z \in items :
           x < y /\ z > y /\ net[x] + net[y] + net[z] = target
    <3>1. t[1] \in items /\ t[2] \in items /\ t[3] \in items
      OBVIOUS
    <3>2. pos[t[1]] = t[1] /\ pos[t[2]] = t[2]
      BY <3>1
    <3> QED
      BY <2>1, <3>1, <3>2
  <2>3. x # y /\ x # z /\ y # z /\ net[x] \in Int /\ net[y] \in Int /\ net[z] \in Int
    BY <2>2
  <2>4. Total(net, {x, y, z}) = net[x] + net[y] + net[z]
    <3> HIDE DEF triples
    <3> QED
      BY <2>3, TotalThree
  <2>5. {x, y, z} \in SUBSET items /\ {x, y, z} # {}
    OBVIOUS
  <2> QED
    BY <2>2, <2>4, <2>5
<1> QED
  BY <1>1, <1>2, <1>3

\* Subset-sum evidence stands for settlements that add up to the line.
LEMMA SetsumTie ==
    ASSUME statement \in Statement, NEW l \in Lines,
           "setsum" \in SignalNames(_setsum_evidence(l))
    PROVE  \E S \in SUBSET Settlements : S # {} /\ Sums(S) = ln(l).amount
<1> DEFINE target == ln(l).amount
           cands == {s \in Settlements : /\ 0 < settlement_net(s) /\ settlement_net(s) < target
                                         /\ Near(l, s, SETSUM_WINDOW)}
           singles == {s \in net_to_settlements(target) : Near(l, s, SETSUM_WINDOW)}
           order == [s \in Settlements |-> s]
           bounded == find_bounded_subsets(cands, statement.net, order, target,
                        SETSUM_MAX_TERMS, SETSUM_EXPANSION_MAX_CANDIDATES,
                        SETSUM_MAX_COMBINATIONS)
           legacy == find_legacy_subsets(cands, statement.net, order, target)
           sums == IF Cardinality(cands) <= SETSUM_EXPANSION_MAX_CANDIDATES
                   THEN bounded ELSE legacy
           found == Cardinality(singles) + Cardinality(sums.subsets)
           E == _setsum_evidence(l)
<1>1. E = IF cands = {} \/ Cardinality(cands) > SETSUM_MAX_CANDIDATES THEN {}
          ELSE IF sums.exhausted THEN {Item("setsum_unenumerable", 0)}
          ELSE IF found > 1 THEN {Item("multiple_satisfying_subsets", 0)}
          ELSE When(found = 1 /\ singles = {}, {Item("setsum", 550)})
  BY DEF _setsum_evidence
<1>2. found = 1 /\ singles = {}
  <2> HIDE DEF found, sums, cands, singles, E
  <2>1. /\ SignalNames({Item("setsum_unenumerable", 0)}) = {"setsum_unenumerable"}
        /\ SignalNames({Item("multiple_satisfying_subsets", 0)})
             = {"multiple_satisfying_subsets"}
        /\ SignalNames({}) = {}
    BY NamesOf
  <2>2. "setsum" \in SignalNames(E)
    BY DEF E
  <2> QED
    BY <1>1, <2>1, <2>2 DEF When
<1>3. sums.subsets # {}
  <2> HIDE DEF sums, singles
  <2>1. Cardinality({}) = 0
    BY FS_EmptySet
  <2> QED
    BY <1>2, <2>1
<1>4. \E S \in SUBSET cands : S # {} /\ Total(statement.net, S) = target
  <2>1. cands \in SUBSET Int /\ \A i \in cands : order[i] = i
    <3>1. \A i \in cands : i \in Settlements
      OBVIOUS
    <3>2. \A i \in Settlements : i \in Int /\ order[i] = i
      BY EvidenceAssumption
    <3> HIDE DEF cands, order
    <3> QED
      BY <3>1, <3>2
  <2>2. \A i \in cands : statement.net[i] \in Int
    BY DEF Statement
  <2> HIDE DEF cands, order, target
  <2> QED
    BY <1>3, <2>1, <2>2, BoundedTie, LegacyTie
<1> QED
  BY <1>4 DEF Sums

\* A line of either kind is accounted for by the settlement report.
Tied(l) == ln(l).is_credit /\ (TiedAlone(l) \/ TiedAsLeg(l))

\* A signal of a tie stands for one.
LEMMA TieSignals ==
    ASSUME NEW l, HasSignal(razorpay_signals(l), {"utr_exact", "utr_suffix", "amount_corr"})
    PROVE  TiedAlone(l)
<1>1. PICK n \in SignalNames(razorpay_signals(l)) :
         n \in {"utr_exact", "utr_suffix", "amount_corr"}
  BY DEF HasSignal
<1> QED
  BY <1>1, NamesMean DEF TiedAlone

\* A strong sign of Razorpay is the suffix of a settlement or its bank's code, no decoy.
LEMMA StrongSignals ==
    ASSUME NEW l, HasSignal(razorpay_signals(l), STRONG_RZP_SIGNALS)
    PROVE  ln(l).suffix # NoSettlement \/ (ln(l).ifsc /\ ~ln(l).decoy)
<1>1. PICK n \in SignalNames(razorpay_signals(l)) : n \in STRONG_RZP_SIGNALS
  BY DEF HasSignal
<1> QED
  BY <1>1, NamesMean DEF STRONG_RZP_SIGNALS

\* What the gate asks of a verdict.
Gated(v, l) == v.rail = "razorpay_settlement" /\ v.tier # "rule_derived" => Tied(l)

\* An abstention, another rail and the verdict of a rule are no claim of a settlement.
LEMMA RailsOf ==
    /\ \A a, b, c, d : /\ Verdict(a, b, c, d).rail = a /\ Verdict(a, b, c, d).tier = c
    /\ \A b, d : Abstained(b, d).rail = "unknown"
    /\ \A b, d, l : Gated(Abstained(b, d), l)
    /\ \A b, c, d, l : Gated(Verdict("other", b, c, d), l)
    /\ \A a, b, d, l : Gated(Verdict(a, b, "rule_derived", d), l)
<1>1. \A a, b, c, d : Verdict(a, b, c, d).rail = a /\ Verdict(a, b, c, d).tier = c
  BY DEF Verdict
<1>2. \A b, d : Abstained(b, d).rail = "unknown"
  BY DEF Abstained
<1> QED
  BY <1>1, <1>2 DEF Gated

\* A verdict for Razorpay is no claim beyond that the line is tied.
LEMMA TiedGated ==
    ASSUME NEW l, Tied(l), NEW v
    PROVE  Gated(v, l)
BY DEF Gated

\* attribute_line: whatever wins, a settlement is named only with a tie.
LEMMA LineGated ==
    ASSUME statement \in Statement, NEW l \in Lines, NEW m
    PROVE  Gated(attribute_line(l, m), l)
<1> DEFINE items == razorpay_signals(l)
           rail == narration_rail_signals(l)
           sum == _setsum_evidence(l)
<1>1. Gated(AttributeDebit(l), l)
  BY RailsOf DEF AttributeDebit
<1>2. ASSUME NEW X, NEW tier, HasSignal(X, RZP_TIE_SIGNALS) => Tied(l)
      PROVE  Gated(ScoreLine(l, X, tier, m), l)
  <2>1. CASE HasSignal(X, RZP_TIE_SIGNALS)
    BY <1>2, <2>1, TiedGated
  <2>2. CASE ~HasSignal(X, RZP_TIE_SIGNALS)
    <3> DEFINE other == _combine(rail)
    <3>1. ScoreLine(l, X, tier, m)
            = IF 0 = 0 /\ other = 0 THEN Abstained(0, X)
              ELSE IF 0 >= other
                   THEN IF 0 < THRESHOLD THEN Abstained(0, X)
                        ELSE _finalize_razorpay(l, X, 0, tier, m)
              ELSE IF other < THRESHOLD THEN Abstained(other, rail)
                   ELSE Verdict("other", other, "B", rail)
      BY <2>2 DEF ScoreLine, ProofGatePasses
    <3>2. 0 < THRESHOLD
      BY DEF THRESHOLD
    <3> HIDE DEF other, rail
    <3> QED
      BY <3>1, <3>2, RailsOf
  <2> QED
    BY <2>1, <2>2
<1>3. CASE ~ln(l).is_credit
  BY <1>1, <1>3 DEF attribute_line
<1>4. CASE ln(l).is_credit
  <2>1. HasSignal(items, {"utr_exact"}) => Tied(l)
    BY <1>4, TieSignals DEF HasSignal, Tied
  <2>2. HasSignal(items, RZP_TIE_SIGNALS) => Tied(l)
    <3>1. SignalNames(items) \cap {"setsum"} = {}
      BY NamesMean
    <3>2. HasSignal(items, RZP_TIE_SIGNALS)
            => HasSignal(items, {"utr_exact", "utr_suffix", "amount_corr"})
      <4> HIDE DEF items
      <4> QED
        BY <3>1 DEF HasSignal, RZP_TIE_SIGNALS
    <3> QED
      BY <1>4, <3>2, TieSignals DEF Tied
  <2>3. HasSignal(items \cup sum, RZP_TIE_SIGNALS) => Tied(l)
    <3>1. SignalNames(items \cup sum) = SignalNames(items) \cup SignalNames(sum)
      BY NamesOf
    <3>2. HasSignal(sum, RZP_TIE_SIGNALS) => "setsum" \in SignalNames(sum)
      BY SetsumNames DEF HasSignal, RZP_TIE_SIGNALS
    <3>3. "setsum" \in SignalNames(sum) => Tied(l)
      BY <1>4, SetsumTie DEF Tied, TiedAlone
    <3> HIDE DEF items, sum
    <3>4. HasSignal(items \cup sum, RZP_TIE_SIGNALS)
            => HasSignal(items, RZP_TIE_SIGNALS) \/ HasSignal(sum, RZP_TIE_SIGNALS)
      BY <3>1 DEF HasSignal
    <3> QED
      BY <2>2, <3>2, <3>3, <3>4
  <2>4. \/ Tied(l)
        \/ \E x : attribute_line(l, m) = Abstained(0, x)
        \/ attribute_line(l, m) = ScoreLine(l, items \cup sum, "C", m)
        \/ attribute_line(l, m) = ScoreLine(l, items, "B", m)
        \/ attribute_line(l, m) = ScoreLine(l, items \cup {}, "C", m)
    <3> DEFINE set == IF HasSignal(items, HARD_RZP_SIGNALS) THEN {} ELSE sum
               undecided == {"setsum_unenumerable", "multiple_satisfying_subsets"}
    <3>1. attribute_line(l, m) =
            IF ~ln(l).is_credit THEN AttributeDebit(l)
            ELSE IF HasSignal(items, {"utr_exact"})
                 THEN _finalize_razorpay(l, items, _combine(items), "A", m)
            ELSE IF HasSignal(set, undecided) /\ rail = {} THEN Abstained(0, items \cup set)
            ELSE IF HasSignal(set, {"setsum"}) /\ items # {} /\ rail = {}
                 THEN ScoreLine(l, items \cup set, "C", m)
            ELSE ScoreLine(l, items, "B", m)
      BY DEF attribute_line
    <3>2. set = {} \/ set = sum
      OBVIOUS
    <3> HIDE DEF items, sum, rail, set, undecided
    <3> QED
      BY <1>4, <2>1, <3>1, <3>2
  <2>5. items \cup {} = items
    OBVIOUS
  <2> HIDE DEF items, sum, rail
  <2> QED
    BY <1>2, <2>2, <2>3, <2>4, <2>5, TiedGated, RailsOf
<1> QED
  BY <1>3, <1>4

\* The tie of a group of legs: credits near the settlement that make up its net, one of them
\* with a strong sign.
LEMMA LegsTie ==
    ASSUME NEW s \in Settlements, NEW pool, NEW legs \in _all_sum_subsets(pool, s),
           pool \subseteq Lines,
           \A k \in pool : ln(k).is_credit /\ Near(k, s, SPLIT_DATE_WINDOW),
           \E k \in legs : HasSignal(razorpay_signals(k), STRONG_RZP_SIGNALS), NEW l \in legs
    PROVE  Tied(l)
<1>1. /\ legs \in SUBSET pool /\ Cardinality(legs) \in 2 .. SPLIT_MAX_LEGS
      /\ Abs(Residual(legs, s)) <= SPLIT_DRIFT_PAISE
  BY DEF _all_sum_subsets
<1>2. legs \in SUBSET Lines /\ \A k \in legs : ln(k).is_credit /\ Near(k, s, SPLIT_DATE_WINDOW)
  BY <1>1
<1>3. \E k \in legs : ln(k).suffix # NoSettlement \/ (ln(k).ifsc /\ ~ln(k).decoy)
  BY StrongSignals
<1>4. TiedAsLeg(l)
  BY <1>1, <1>2, <1>3 DEF TiedAsLeg
<1> QED
  BY <1>2, <1>4 DEF Tied

\* A leg that reconstruct_splits lifts is tied.
LEMMA LiftedTied ==
    ASSUME NEW base, NEW l \in Lifted(base)
    PROVE  Tied(l)
<1> DEFINE pool == SplitPool(base)
<1>1. PICK n \in AcceptedSplits(base) : l \in n[2]
  BY LiftedMember
<1>2. /\ n \in SplitMatches(pool)
      /\ \E k \in n[2] : HasSignal(razorpay_signals(k), STRONG_RZP_SIGNALS)
  BY LegsInPool
<1>3. pool \subseteq Lines /\ \A k \in pool : ln(k).is_credit
  BY DEF SplitPool
<1> HIDE DEF pool
<1>4. PICK s \in Settlements :
         \E legs \in _all_sum_subsets(EligibleLegs(pool, s), s) : n = <<s, legs>>
  BY <1>2, MatchesAre
<1>5. PICK legs \in _all_sum_subsets(EligibleLegs(pool, s), s) : n = <<s, legs>>
  BY <1>4
<1> DEFINE E == EligibleLegs(pool, s)
<1>6. E \subseteq Lines /\ \A k \in E : ln(k).is_credit /\ Near(k, s, SPLIT_DATE_WINDOW)
  BY <1>3 DEF EligibleLegs
<1>7. l \in legs /\ \E k \in legs : HasSignal(razorpay_signals(k), STRONG_RZP_SIGNALS)
  BY <1>1, <1>2, <1>5
<1>8. legs \in _all_sum_subsets(E, s)
  BY <1>5
<1> HIDE DEF E
<1> QED
  BY <1>6, <1>7, <1>8, LegsTie

\* What the solver may choose for a settlement is tied to the report.
EdgesTied(D) ==
    \A c \in D : c.target # ABSTAIN /\ c.target # RAIL => \A l \in c.credits : Tied(l)

\* Every candidate of the graph for a settlement is an edge of a tied credit, or of legs.
LEMMA GraphTied ==
    ASSUME statement \in Statement
    PROVE  EdgesTied(build_candidate_graph)
<1> DEFINE Own(l) == AbstainEdges(l) \cup RailEdges(l) \cup SettlementEdges(l)
           Z == UNION {Own(l) : l \in Credits}
<1>1. build_candidate_graph = Z \cup SplitEdges
  BY DEF build_candidate_graph
<1>2. ASSUME NEW c \in SplitEdges, NEW l \in c.credits
      PROVE  Tied(l)
  <2>1. PICK s \in Settlements : \E legs \in SplitLegs(s) : c = SplitTo(legs, s)
    BY <1>2, EdgeKinds
  <2>2. PICK legs \in SplitLegs(s) : c = SplitTo(legs, s)
    BY <2>1
  <2>3. c.credits = legs
    BY <2>2 DEF SplitTo, Candidate
  <2> DEFINE E == SplitEligible(s)
  <2>4. /\ legs \in _all_sum_subsets(E, s)
        /\ \E k \in legs : HasSignal(razorpay_signals(k), STRONG_RZP_SIGNALS)
    BY <2>2 DEF SplitLegs
  <2>5. E \subseteq Lines /\ \A k \in E : ln(k).is_credit /\ Near(k, s, SPLIT_DATE_WINDOW)
    BY DEF SplitEligible, Credits
  <2> HIDE DEF E
  <2> QED
    BY <1>2, <2>3, <2>4, <2>5, LegsTie
<1>3. ASSUME NEW k \in Credits, NEW c \in SettlementEdges(k), NEW l \in c.credits
      PROVE  Tied(l)
  <2>1. PICK s \in TiedSettlements(k) : c = EdgeTo(k, s)
    BY <1>3, EdgeKinds
  <2>2. c.credits = {k}
    BY <2>1 DEF EdgeTo, Candidate
  <2>3. HasSignal(razorpay_signals(k), {"utr_exact", "utr_suffix", "amount_corr"})
    BY <2>1 DEF TiedSettlements, When, HasSignal
  <2>4. ln(k).is_credit
    BY DEF Credits
  <2> QED
    BY <1>3, <2>2, <2>3, <2>4, TieSignals DEF Tied
<1>4. ASSUME NEW k \in Credits, NEW c \in AbstainEdges(k) \cup RailEdges(k)
      PROVE  c.target = ABSTAIN \/ c.target = RAIL
  BY <1>4 DEF AbstainEdges, RailEdges, When, Candidate
<1>5. ASSUME NEW c \in Z
      PROVE  \E k \in Credits : c \in Own(k)
  <2> HIDE DEF Own
  <2> QED
    BY <1>5
<1>6. ASSUME NEW c \in build_candidate_graph, c.target # ABSTAIN, c.target # RAIL,
             NEW l \in c.credits
      PROVE  Tied(l)
  <2>1. CASE c \in SplitEdges
    BY <1>2, <1>6, <2>1
  <2>2. CASE c \in Z
    <3>1. PICK k \in Credits : c \in Own(k)
      BY <1>5, <2>2
    <3>2. c \in SettlementEdges(k)
      BY <1>4, <1>6, <3>1
    <3> QED
      BY <1>3, <1>6, <3>2
  <2> HIDE DEF Z
  <2> QED
    BY <1>1, <1>6, <2>1, <2>2
<1> QED
  BY <1>6 DEF EdgesTied

\* Whether a line is tied depends on the statement alone.
LEMMA TiedFrame ==
    ASSUME statement' = statement
    PROVE  \A l : Tied(l)' <=> Tied(l)
<1>1. \A S : Sums(S)' = Sums(S)
  BY DEF Sums
<1>2. \A l : TiedAlone(l)' <=> TiedAlone(l)
  BY <1>1, StatementFrame DEF TiedAlone
<1>3. \A l : TiedAsLeg(l)' <=> TiedAsLeg(l)
  BY StatementFrame DEF TiedAsLeg, Lines
<1> QED
  BY <1>2, <1>3, StatementFrame DEF Tied

\* run_global_solver names a settlement only where the chosen edge does, and the edge covers
\* the credit.
LEMMA AdjustGated ==
    ASSUME NEW v, NEW result, NEW l \in Credits, IsVerdict(v), NEW D, EdgesTied(D),
           result.chosen \in Assigned(D, Credits)
    PROVE  Gated(Adjust(v, result, l), l)
<1> DEFINE c == CHOOSE c \in result.chosen : l \in c.credits
           a == [v EXCEPT !.rail = "unknown", !.abstained = TRUE]
           b == [Abstained(0, v.evidence) EXCEPT !.tier = "B"]
           t == IF c.is_split THEN "C" ELSE IF HasSignal(c.evidence, {"utr_exact"})
                THEN "A" ELSE "B"
           conf == c.confidence * 100000
<1>1. Adjust(v, result, l) = IF l \in result.contested THEN a
                             ELSE IF c.target = ABSTAIN THEN b
                             ELSE IF c.target = RAIL
                                  THEN Verdict("other", conf, "B", c.evidence)
                             ELSE Verdict("razorpay_settlement", conf, t, c.evidence)
  BY DEF Adjust
<1>2. Gated(a, l)
  <2>1. a["rail"] = "unknown"
    BY DEF IsVerdict
  <2> QED
    BY <2>1 DEF Gated
<1>3. Gated(b, l)
  <2> DEFINE w == Abstained(0, v.evidence)
  <2>1. w.rail = "unknown"
    BY RailsOf
  <2> HIDE DEF w
  <2>2. b.rail = w.rail
    BY DEF w
  <2> QED
    BY <2>1, <2>2 DEF Gated
<1>4. c.target # ABSTAIN /\ c.target # RAIL => Tied(l)
  <2>1. \E d \in result.chosen : l \in d.credits
    BY DEF Assigned
  <2>2. c \in result.chosen /\ l \in c.credits
    BY <2>1
  <2>3. c \in D
    BY <2>2 DEF Assigned
  <2> HIDE DEF c
  <2> QED
    BY <2>2, <2>3 DEF EdgesTied
<1> HIDE DEF a, b, c, t, conf
<1> QED
  BY <1>1, <1>2, <1>3, <1>4, RailsOf, TiedGated

\* The invariant behind ProofGate: until the solver's answer is applied, what it may choose
\* for a settlement is tied.
GateInv ==
    /\ \A m \in Margins : \A l \in Lines : Gated(verdict[m][l], l)
    /\ phase = "solve" => EdgesTied(graph)

\* Initially no verdict names a rail.
LEMMA GateInvInit == Init => GateInv
<1> SUFFICES ASSUME Init
             PROVE  GateInv
  OBVIOUS
<1>1. \A m \in Margins : \A l \in Lines : verdict[m][l] = NoVerdict
  BY DEF Init
<1>2. \A l : Gated(NoVerdict, l)
  BY RailsOf DEF NoVerdict
<1>3. phase = "lines"
  BY DEF Init
<1> QED
  BY <1>1, <1>2, <1>3 DEF GateInv

\* Every step keeps GateInv.
LEMMA GateInvNext == SolveInv /\ GateInv /\ [Next]_vars => GateInv'
<1> SUFFICES ASSUME SolveInv, GateInv, [Next]_vars
             PROVE  GateInv'
  OBVIOUS
<1>0. /\ statement' = statement /\ statement \in Statement /\ Lines' = Lines
      /\ \A m \in Margins : DOMAIN verdict[m] = Lines
      /\ \A m \in Margins : \A l \in Lines : IsVerdict(verdict[m][l])
      /\ \A m \in Margins : \A l \in Lines : Gated(verdict[m][l], l)
  BY DEF SolveInv, Verdicts, GateInv, Next, AttributeLine, ReconstructSplits, BuildGraph,
         SolveComponent, ApplySolution, ApplyRules, vars, Lines
<1>a. ASSUME \A m \in Margins : \A l \in Lines : Gated(verdict'[m][l], l),
             phase' = "solve" => EdgesTied(graph')
      PROVE  GateInv'
  <2>1. \A l : Tied(l)' <=> Tied(l)
    BY <1>0, TiedFrame
  <2>2. (\A m \in Margins : \A l \in Lines : Gated(verdict[m][l], l))'
    BY <1>0, <1>a, <2>1 DEF Gated
  <2>3. (phase = "solve" => EdgesTied(graph))'
    BY <1>a, <2>1 DEF EdgesTied
  <2> QED
    BY <2>2, <2>3 DEF GateInv
<1>1. CASE AttributeLine
  <2>1. phase' # "solve"
    BY <1>1 DEF AttributeLine
  <2>2. ASSUME NEW m \in Margins, NEW l \in Lines
        PROVE  Gated(verdict'[m][l], l)
    <3>1. verdict'[m] = [verdict[m] EXCEPT ![turn] = attribute_line(turn, m)]
      BY <1>1 DEF AttributeLine
    <3>2. verdict'[m][l] = IF l = turn THEN attribute_line(turn, m) ELSE verdict[m][l]
      BY <1>0, <3>1
    <3>3. Gated(attribute_line(l, m), l)
      BY <1>0, LineGated
    <3> QED
      BY <1>0, <3>2, <3>3
  <2> QED
    BY <1>a, <2>1, <2>2
<1>2. CASE ReconstructSplits
  <2>1. phase' # "solve"
    BY <1>2 DEF ReconstructSplits
  <2>2. ASSUME NEW m \in Margins, NEW l \in Lines
        PROVE  Gated(verdict'[m][l], l)
    <3>1. verdict'[m] = reconstruct_splits(verdict[m], m)
      BY <1>2 DEF ReconstructSplits
    <3>2. l \notin Lifted(verdict[m]) => verdict'[m][l] = verdict[m][l]
      BY <3>1, SplitLine
    <3>3. l \in Lifted(verdict[m]) => Tied(l)
      BY LiftedTied
    <3> QED
      BY <1>0, <3>2, <3>3, TiedGated
  <2> QED
    BY <1>a, <2>1, <2>2
<1>3. CASE BuildGraph
  <2>1. graph' = build_candidate_graph /\ verdict' = verdict
    BY <1>3 DEF BuildGraph
  <2> QED
    BY <1>0, <1>a, <2>1, GraphTied
<1>4. CASE SolveComponent
  <2>1. graph' = graph /\ verdict' = verdict /\ phase = "solve"
    BY <1>4 DEF SolveComponent
  <2> QED
    BY <1>0, <1>a, <2>1 DEF GateInv
<1>5. CASE ApplySolution
  <2>1. phase' # "solve" /\ EdgesTied(graph)
    BY <1>5 DEF ApplySolution, GateInv
  <2>2. ASSUME NEW m \in Margins, NEW l \in Lines
        PROVE  Gated(verdict'[m][l], l)
    <3>1. verdict'[m] = run_global_solver(verdict[m], solution[m])
      BY <1>5 DEF ApplySolution
    <3>2. verdict'[m][l] =
             IF l \in Credits THEN Adjust(verdict[m][l], solution[m], l) ELSE verdict[m][l]
      BY <3>1, AdjustIs
    <3>3. solution[m].chosen \in Assigned(graph, Credits)
      <4>1. SolvedSound /\ todo = {}
        BY <1>5 DEF ApplySolution, SolveInv
      <4>2. Credits \ UNION todo = Credits
        BY <4>1
      <4> QED
        BY <4>1, <4>2 DEF SolvedSound, Sound
    <3>4. IsVerdict(verdict[m][l])
      BY <1>0
    <3>5. l \in Credits => Gated(Adjust(verdict[m][l], solution[m], l), l)
      BY <2>1, <3>3, <3>4, AdjustGated
    <3> QED
      BY <1>0, <3>2, <3>5
  <2> QED
    BY <1>a, <2>1, <2>2
<1>6. CASE ApplyRules
  <2>1. phase' # "solve"
    BY <1>6 DEF ApplyRules
  <2>2. ASSUME NEW m \in Margins, NEW l \in Lines
        PROVE  Gated(verdict'[m][l], l)
    <3>1. verdict'[m][l] = apply_approved_rules(l, verdict[m][l])
      BY <1>6 DEF ApplyRules
    <3>2. Gated(RuleVerdict(l), l)
      BY RailsOf DEF RuleVerdict
    <3> QED
      BY <1>0, <3>1, <3>2 DEF apply_approved_rules
  <2> QED
    BY <1>a, <2>1, <2>2
<1>7. CASE UNCHANGED vars
  <2>1. UNCHANGED <<phase, graph, verdict>>
    BY <1>7 DEF vars
  <2> QED
    BY <1>0, <1>a, <2>1 DEF GateInv
<1> QED
  BY <1>1, <1>2, <1>3, <1>4, <1>5, <1>6, <1>7 DEF Next

\* engine/attribute.py, engine/solver.py: nothing but a tie of a credit to the settlement
\* report makes a line a settlement, whichever path it takes; rules answer for themselves.
THEOREM SettlementsAreTied == Spec => []ProofGate
<1>1. SolveInv /\ GateInv /\ [Next]_vars => GateInv'
  BY GateInvNext
<1>2. GateInv => ProofGate
  BY DEF GateInv, Gated, Tied, ProofGate
<1> QED
  BY <1>1, <1>2, GateInvInit, SolveInvAlways, PTL DEF Spec
=============================================================================
