------------------------- MODULE InductionTheorems -------------------------
(***************************************************************************)
(* What the other proofs need of induction.  The induction theorems of the  *)
(* library take the predicate as an operator, which the provers cannot      *)
(* instantiate; here it is a set, and the theorem is the least element of   *)
(* the set where the predicate fails.  With it, what sums over finite sets  *)
(* are worth: the folds of the library are recursive functions that take    *)
(* the elements in an order of their own.                                   *)
(***************************************************************************)
EXTENDS Naturals, FiniteSetTheorems, WellFoundedInduction, TLAPS

(* < on the naturals, as a relation that is a set of pairs.                 *)
LEMMA LessThanRelation ==
    \E R : /\ IsWellFoundedOn(R, Nat)
           /\ \A x \in Nat, y \in Nat : x < y => <<x, y>> \in R
<1> DEFINE L == {ss \in Nat \X Nat : ss[1] < ss[2]}
<1>1. OpToRel(<, Nat) = L
  BY Zenon DEF OpToRel
<1>2. \A x \in Nat, y \in Nat : x < y => <<x, y>> \in L
  OBVIOUS
<1>3. IsWellFoundedOn(L, Nat)
  BY <1>1, NatLessThanWellFounded, Zenon
<1>4. QED
  BY <1>2, <1>3, Zenon

(* A non-empty set of naturals has a least element.                         *)
THEOREM LeastNatural ==
    ASSUME NEW T \in SUBSET Nat, T # {}
    PROVE  \E x \in T : \A y \in T : x <= y
<1>1. PICK R : /\ IsWellFoundedOn(R, Nat)
               /\ \A x \in Nat, y \in Nat : x < y => <<x, y>> \in R
  BY LessThanRelation, Zenon
<1>2. IsWellFoundedOn(R, Nat) /\ T \subseteq Nat
  BY <1>1
<1>3. \E x \in T : \A y \in T : ~ (<<y, x>> \in R)
  BY <1>2, WFMin, Zenon
<1>4. PICK x \in T : \A y \in T : ~ (<<y, x>> \in R)
  BY <1>3
<1>5. ASSUME NEW y \in T
      PROVE  x <= y
  <2>1. ~(<<y, x>> \in R)
    BY <1>4
  <2>2. y < x => <<y, x>> \in R
    BY <1>1, Zenon
  <2>3. QED
    BY <2>1, <2>2
<1>6. QED
  BY <1>5

(* Induction: a set with 0, and with the next of each of its elements, is   *)
(* all of Nat.                                                              *)
THEOREM SetInduction ==
    ASSUME NEW S, 0 \in S, \A n \in Nat : n \in S => n + 1 \in S
    PROVE  Nat \subseteq S
<1> DEFINE T == Nat \ S
<1>1. SUFFICES ASSUME T # {} PROVE FALSE
  OBVIOUS
<1>2. PICK x \in T : \A y \in T : x <= y
  BY <1>1, LeastNatural
<1>3. x # 0 /\ x - 1 \in Nat /\ x = (x - 1) + 1
  OBVIOUS
<1>4. x - 1 \in S
  BY <1>2, <1>3
<1>5. QED
  BY <1>3, <1>4

(* A property of sets that a set has if all it is one element short of have *)
(* it, all finite sets have.                                                *)
THEOREM FiniteInduction ==
    ASSUME NEW S, IsFiniteSet(S), NEW G,
           \A T \in SUBSET S : (\A x \in T : T \ {x} \in G) => T \in G
    PROVE  SUBSET S \subseteq G
<1> DEFINE N == {n \in Nat : \A T \in SUBSET S : Cardinality(T) = n => T \in G}
<1>1. 0 \in N
  <2>1. \A T \in SUBSET S : Cardinality(T) = 0 => T = {}
    BY FS_Subset, FS_EmptySet
  <2>2. QED
    BY <2>1
<1>2. ASSUME NEW n \in Nat, n \in N
      PROVE  n + 1 \in N
  <2>1. ASSUME NEW T \in SUBSET S, Cardinality(T) = n + 1, NEW x \in T
        PROVE  T \ {x} \in G
    <3>1. IsFiniteSet(T)
      BY FS_Subset
    <3>2. Cardinality(T \ {x}) = Cardinality(T) - 1
      BY <3>1, FS_RemoveElement
    <3>3. Cardinality(T \ {x}) = n
      BY <2>1, <3>2
    <3>4. QED
      BY <1>2, <3>3
  <2>2. QED
    BY <2>1 DEF N
<1>3. Nat \subseteq N
  <2> HIDE DEF N
  <2>1. QED
    BY <1>1, <1>2, SetInduction
<1>4. \A T \in SUBSET S : Cardinality(T) \in Nat
  BY FS_Subset, FS_CardinalityType
<1>5. QED
  BY <1>3, <1>4

-----------------------------------------------------------------------------
(* f gives the sum of the weights w over each subset of S, the way a fold   *)
(* over a set computes it.                                                  *)
IsSum(f, w, S) ==
    f = [s \in SUBSET S |->
            IF s = {} THEN 0
            ELSE w[CHOOSE x \in s : TRUE] + f[s \ {CHOOSE x \in s : TRUE}]]

Total(w, S) == (CHOOSE f : IsSum(f, w, S))[S]

(* Such an f exists: built up from the smaller subsets to the larger ones.  *)
LEMMA SumExists ==
    ASSUME NEW S, IsFiniteSet(S), NEW w, \A x \in S : w[x] \in Nat
    PROVE  \E f : IsSum(f, w, S)
<1> DEFINE D(n) == {s \in SUBSET S : Cardinality(s) <= n}
           P(s) == CHOOSE x \in s : TRUE
           B(n, f) == \A s \in D(n) : f[s] = IF s = {} THEN 0 ELSE w[P(s)] + f[s \ {P(s)}]
           N == {n \in Nat : \E f \in [D(n) -> Nat] : B(n, f)}
<1>0. \A s \in SUBSET S : s # {} =>
         /\ P(s) \in s /\ s \ {P(s)} \in SUBSET S
         /\ Cardinality(s \ {P(s)}) = Cardinality(s) - 1
  <2>1. SUFFICES ASSUME NEW s \in SUBSET S, s # {}
                 PROVE  P(s) \in s /\ Cardinality(s \ {P(s)}) = Cardinality(s) - 1
    OBVIOUS
  <2>2. P(s) \in s
    BY <2>1
  <2>3. IsFiniteSet(s)
    BY FS_Subset
  <2> HIDE DEF P
  <2>4. QED
    BY <2>2, <2>3, FS_RemoveElement
<1>00. \A s \in SUBSET S : Cardinality(s) \in Nat /\ (Cardinality(s) = 0 => s = {})
  BY FS_Subset, FS_CardinalityType, FS_EmptySet
<1>1. 0 \in N
  <2> DEFINE f == [s \in D(0) |-> 0]
  <2>1. \A s \in D(0) : s = {}
    BY <1>00
  <2>2. f \in [D(0) -> Nat] /\ B(0, f)
    BY <2>1
  <2>3. QED
    BY <2>2
<1>2. ASSUME NEW n \in Nat, n \in N
      PROVE  n + 1 \in N
  <2>1. PICK f \in [D(n) -> Nat] : B(n, f)
    BY <1>2
  <2> DEFINE g == [s \in D(n + 1) |-> IF s = {} THEN 0 ELSE w[P(s)] + f[s \ {P(s)}]]
  <2> HIDE DEF P
  <2>2. \A s \in D(n + 1) : s # {} => s \ {P(s)} \in D(n)
    BY <1>0, <1>00
  <2>3. g \in [D(n + 1) -> Nat]
    <3>1. ASSUME NEW s \in D(n + 1), s # {}
          PROVE  w[P(s)] + f[s \ {P(s)}] \in Nat
      <4>1. w[P(s)] \in Nat
        BY <3>1, <1>0
      <4>2. f[s \ {P(s)}] \in Nat
        BY <3>1, <2>2
      <4>3. QED
        BY <4>1, <4>2
    <3>2. QED
      BY <3>1
  <2>4. \A s \in D(n) : s \in D(n + 1) /\ g[s] = f[s]
    <3>1. \A s \in D(n) : s \in D(n + 1)
      BY <1>00
    <3>2. QED
      BY <3>1, <2>1
  <2>5. B(n + 1, g)
    BY <2>2, <2>4
  <2> HIDE DEF B, D, g
  <2>6. QED
    BY <2>3, <2>5
<1>3. Nat \subseteq N
  <2> HIDE DEF N
  <2>1. QED
    BY <1>1, <1>2, SetInduction
<1>4. PICK f \in [D(Cardinality(S)) -> Nat] : B(Cardinality(S), f)
  BY <1>3, FS_CardinalityType
<1>5. D(Cardinality(S)) = SUBSET S
  BY FS_Subset
<1>6. f = [s \in SUBSET S |-> IF s = {} THEN 0 ELSE w[P(s)] + f[s \ {P(s)}]]
  <2> HIDE DEF P
  <2>1. QED
    BY <1>4, <1>5
<1>7. QED
  BY <1>6 DEF IsSum

(* The order does not matter: any element may be taken out first.           *)
LEMMA SumStep ==
    ASSUME NEW S, IsFiniteSet(S), NEW w, \A x \in S : w[x] \in Nat,
           NEW f, IsSum(f, w, S)
    PROVE  /\ f[{}] = 0
           /\ \A s \in SUBSET S :
                 f[s] \in Nat /\ \A x \in s : f[s] = w[x] + f[s \ {x}]
<1> DEFINE P(s) == CHOOSE x \in s : TRUE
           N == {s \in SUBSET S : f[s] \in Nat}
           G == {s \in SUBSET S : \A x \in s : f[s] = w[x] + f[s \ {x}]}
<1>1. f[{}] = 0 /\ \A s \in SUBSET S : s # {} => P(s) \in s /\ f[s] = w[P(s)] + f[s \ {P(s)}]
  BY DEF IsSum
<1> HIDE DEF P
<1>2. SUBSET S \subseteq N
  <2>1. ASSUME NEW T \in SUBSET S, \A x \in T : T \ {x} \in N
        PROVE  T \in N
    <3>1. CASE T = {}
      BY <3>1, <1>1
    <3>2. CASE T # {}
      <4>1. P(T) \in T /\ f[T] = w[P(T)] + f[T \ {P(T)}]
        BY <3>2, <1>1
      <4>2. w[P(T)] \in Nat /\ f[T \ {P(T)}] \in Nat
        BY <4>1, <2>1
      <4>3. QED
        BY <4>1, <4>2
    <3>3. QED
      BY <3>1, <3>2
  <2> HIDE DEF N
  <2>2. QED
    BY <2>1, FiniteInduction
<1>3. \A s \in SUBSET S : f[s] \in Nat
  BY <1>2
<1>4. ASSUME NEW T \in SUBSET S, \A x \in T : T \ {x} \in G, NEW x \in T
      PROVE  f[T] = w[x] + f[T \ {x}]
  <2> DEFINE c == P(T)
  <2>1. c \in T /\ f[T] = w[c] + f[T \ {c}]
    BY <1>1
  <2> HIDE DEF c
  <2>2. CASE x = c
    BY <2>1, <2>2
  <2>3. CASE x # c
    <3>1. f[T \ {c}] = w[x] + f[(T \ {c}) \ {x}]
      BY <2>1, <2>3, <1>4
    <3>2. f[T \ {x}] = w[c] + f[(T \ {x}) \ {c}]
      BY <2>1, <2>3, <1>4
    <3>3. (T \ {x}) \ {c} = (T \ {c}) \ {x}
      OBVIOUS
    <3>4. f[(T \ {c}) \ {x}] \in Nat
      BY <1>3
    <3>5. w[x] \in Nat /\ w[c] \in Nat
      BY <2>1
    <3> DEFINE k == f[(T \ {c}) \ {x}]
    <3>6. f[T \ {x}] = w[c] + k
      BY <3>2, <3>3
    <3>7. f[T] = w[c] + (w[x] + k)
      BY <2>1, <3>1
    <3>8. k \in Nat
      BY <3>4
    <3> HIDE DEF k
    <3>9. QED
      BY <3>5, <3>6, <3>7, <3>8
  <2>4. QED
    BY <2>2, <2>3
<1>5. SUBSET S \subseteq G
  <2>1. \A T \in SUBSET S : (\A x \in T : T \ {x} \in G) => T \in G
    BY <1>4
  <2> HIDE DEF G
  <2>2. QED
    BY <2>1, FiniteInduction
<1>6. QED
  BY <1>1, <1>3, <1>5

(* Sums compare as their weights do, along a map that keeps elements apart. *)
LEMMA SumMap ==
    ASSUME NEW S, IsFiniteSet(S), NEW w, \A x \in S : w[x] \in Nat,
           NEW T, IsFiniteSet(T), NEW v, \A y \in T : v[y] \in Nat,
           NEW f, IsSum(f, w, S), NEW g, IsSum(g, v, T),
           NEW h \in [S -> T],
           \A x, y \in S : h[x] = h[y] => x = y,
           \A x \in S : w[x] <= v[h[x]]
    PROVE  f[S] <= g[T]
<1> DEFINE G == {s \in SUBSET S : \A t \in SUBSET T :
                    {h[x] : x \in s} \subseteq t => f[s] <= g[t]}
<1>1. f[{}] = 0 /\ \A s \in SUBSET S : f[s] \in Nat /\ \A x \in s : f[s] = w[x] + f[s \ {x}]
  BY SumStep
<1>2. g[{}] = 0 /\ \A t \in SUBSET T : g[t] \in Nat /\ \A y \in t : g[t] = v[y] + g[t \ {y}]
  BY SumStep
<1>3. ASSUME NEW s \in SUBSET S, \A x \in s : s \ {x} \in G,
             NEW t \in SUBSET T, {h[x] : x \in s} \subseteq t
      PROVE  f[s] <= g[t]
  <2>1. CASE s = {}
    <3>1. f[s] = 0 /\ g[t] \in Nat
      BY <2>1, <1>1, <1>2
    <3>2. QED
      BY <3>1
  <2>2. CASE s # {}
    <3>1. PICK x \in s : TRUE
      BY <2>2
    <3>2. h[x] \in t
      BY <1>3
    <3>3. {h[z] : z \in s \ {x}} \subseteq t \ {h[x]}
      BY <1>3
    <3>4. f[s \ {x}] <= g[t \ {h[x]}]
      BY <1>3, <3>3
    <3>5. f[s] = w[x] + f[s \ {x}]
      BY <1>1
    <3>6. g[t] = v[h[x]] + g[t \ {h[x]}]
      BY <1>2, <3>2
    <3>7. w[x] \in Nat /\ v[h[x]] \in Nat /\ w[x] <= v[h[x]]
      BY <3>2
    <3>8. f[s \ {x}] \in Nat /\ g[t \ {h[x]}] \in Nat
      BY <1>1, <1>2
    <3> DEFINE a == f[s \ {x}]
               b == g[t \ {h[x]}]
               c == v[h[x]]
    <3> HIDE DEF a, b, c
    <3>9. a \in Nat /\ b \in Nat /\ c \in Nat /\ w[x] \in Nat /\ w[x] <= c /\ a <= b
      BY <3>4, <3>7, <3>8 DEF a, b, c
    <3>10. f[s] = w[x] + a /\ g[t] = c + b
      BY <3>5, <3>6 DEF a, b, c
    <3>11. QED
      BY <3>9, <3>10
  <2>3. QED
    BY <2>1, <2>2
<1>4. SUBSET S \subseteq G
  <2>1. \A s \in SUBSET S : (\A x \in s : s \ {x} \in G) => s \in G
    BY <1>3
  <2> HIDE DEF G
  <2>2. QED
    BY <2>1, FiniteInduction
<1>5. S \in G
  BY <1>4
<1>6. {h[x] : x \in S} \subseteq T
  OBVIOUS
<1>7. QED
  BY <1>5, <1>6

(* The total is the last value of such a sum.                               *)
LEMMA TotalSum ==
    ASSUME NEW S, IsFiniteSet(S), NEW w, \A x \in S : w[x] \in Nat
    PROVE  \E f : IsSum(f, w, S) /\ Total(w, S) = f[S]
<1>1. \E f : IsSum(f, w, S)
  BY SumExists
<1>2. IsSum(CHOOSE f : IsSum(f, w, S), w, S)
  BY <1>1
<1>3. QED
  BY <1>2 DEF Total

(* However a fold chooses its elements, it computes the total.              *)
THEOREM TotalUnique ==
    ASSUME NEW S, IsFiniteSet(S), NEW w, \A x \in S : w[x] \in Nat,
           NEW f, IsSum(f, w, S)
    PROVE  f[S] = Total(w, S)
<1>1. PICK g : IsSum(g, w, S) /\ Total(w, S) = g[S]
  BY TotalSum
<1> DEFINE h == [x \in S |-> x]
<1>2. /\ h \in [S -> S]
      /\ \A x, y \in S : h[x] = h[y] => x = y
      /\ \A x \in S : w[x] <= w[h[x]]
  OBVIOUS
<1> HIDE DEF h
<1>3. f[S] <= g[S]
  BY <1>1, <1>2, SumMap
<1>4. g[S] <= f[S]
  BY <1>1, <1>2, SumMap
<1>5. f[S] \in Nat /\ g[S] \in Nat
  BY <1>1, SumStep
<1>6. QED
  BY <1>1, <1>3, <1>4, <1>5

(* A map that keeps elements apart and never lowers their weight shows that *)
(* one total is at most another.                                            *)
THEOREM TotalMap ==
    ASSUME NEW S, IsFiniteSet(S), NEW w, \A x \in S : w[x] \in Nat,
           NEW T, IsFiniteSet(T), NEW v, \A y \in T : v[y] \in Nat,
           NEW h \in [S -> T],
           \A x, y \in S : h[x] = h[y] => x = y,
           \A x \in S : w[x] <= v[h[x]]
    PROVE  Total(w, S) <= Total(v, T)
<1>1. PICK f : IsSum(f, w, S) /\ Total(w, S) = f[S]
  BY TotalSum
<1>2. PICK g : IsSum(g, v, T) /\ Total(v, T) = g[T]
  BY TotalSum
<1>3. f[S] <= g[T]
  BY <1>1, <1>2, SumMap
<1>4. QED
  BY <1>1, <1>2, <1>3

(* The total of a part, with weights that are no larger, is no larger.      *)
THEOREM TotalSubset ==
    ASSUME NEW T, IsFiniteSet(T), NEW v, \A y \in T : v[y] \in Nat,
           NEW S \in SUBSET T, NEW w,
           \A x \in S : w[x] \in Nat /\ w[x] <= v[x]
    PROVE  Total(w, S) <= Total(v, T)
<1> DEFINE h == [x \in S |-> x]
<1>1. /\ h \in [S -> T]
      /\ \A x, y \in S : h[x] = h[y] => x = y
      /\ \A x \in S : w[x] <= v[h[x]]
  OBVIOUS
<1>2. IsFiniteSet(S)
  BY FS_Subset
<1> HIDE DEF h
<1>3. QED
  BY <1>1, <1>2, TotalMap

(* A total of naturals is a natural, and nothing adds up to 0.              *)
THEOREM TotalType ==
    ASSUME NEW S, IsFiniteSet(S), NEW w, \A x \in S : w[x] \in Nat
    PROVE  Total(w, S) \in Nat /\ Total(w, {}) = 0
<1>1. PICK f : IsSum(f, w, S) /\ Total(w, S) = f[S]
  BY TotalSum
<1>2. PICK g : IsSum(g, w, {}) /\ Total(w, {}) = g[{}]
  BY TotalSum, FS_EmptySet
<1>3. g[{}] = 0
  BY <1>2, SumStep, FS_EmptySet
<1>4. f[S] \in Nat
  BY <1>1, SumStep
<1>5. QED
  BY <1>1, <1>2, <1>3, <1>4

(* One more element adds its weight.                                        *)
THEOREM TotalAdd ==
    ASSUME NEW S, IsFiniteSet(S), NEW w, NEW x, x \notin S,
           \A y \in S \cup {x} : w[y] \in Nat
    PROVE  Total(w, S \cup {x}) = Total(w, S) + w[x]
<1> DEFINE U == S \cup {x}
<1>1. IsFiniteSet(U) /\ S \subseteq U /\ U \ {x} = S /\ x \in U
  BY FS_AddElement
<1> HIDE DEF U
<1>2. \A y \in U : w[y] \in Nat
  BY DEF U
<1>3. PICK f : IsSum(f, w, U) /\ Total(w, U) = f[U]
  BY <1>1, <1>2, TotalSum
<1>4. f[U] = w[x] + f[S]
  BY <1>1, <1>2, <1>3, SumStep
<1> DEFINE g == [s \in SUBSET S |-> f[s]]
<1>5. IsSum(g, w, S)
  <2> DEFINE P(s) == CHOOSE y \in s : TRUE
  <2>1. \A s \in SUBSET S : f[s] = IF s = {} THEN 0 ELSE w[P(s)] + f[s \ {P(s)}]
    BY <1>1, <1>3 DEF IsSum
  <2> HIDE DEF P
  <2>2. g = [s \in SUBSET S |-> IF s = {} THEN 0 ELSE w[P(s)] + g[s \ {P(s)}]]
    BY <2>1
  <2>3. QED
    BY <2>2 DEF P, IsSum
<1>6. g[S] = f[S]
  OBVIOUS
<1>7. \A y \in S : w[y] \in Nat
  OBVIOUS
<1> HIDE DEF g
<1>8. f[S] = Total(w, S)
  BY <1>5, <1>6, <1>7, TotalUnique
<1>9. f[S] \in Nat /\ w[x] \in Nat
  BY <1>1, <1>2, <1>3, SumStep
<1>10. QED
  BY <1>3, <1>4, <1>8, <1>9 DEF U

(* Zeros add up to zero.                                                    *)
THEOREM TotalZero ==
    ASSUME NEW S, IsFiniteSet(S), NEW w, \A x \in S : w[x] = 0
    PROVE  Total(w, S) = 0
<1>1. \A x \in S : w[x] \in Nat
  OBVIOUS
<1>2. PICK f : IsSum(f, w, S) /\ Total(w, S) = f[S]
  BY <1>1, TotalSum
<1> DEFINE G == {s \in SUBSET S : f[s] = 0}
<1>3. /\ f[{}] = 0
      /\ \A s \in SUBSET S :
            f[s] \in Nat /\ \A x \in s : f[s] = w[x] + f[s \ {x}]
  BY <1>1, <1>2, SumStep
<1>4. ASSUME NEW T \in SUBSET S, \A x \in T : T \ {x} \in G
      PROVE  T \in G
  <2>1. CASE T = {}
    BY <2>1, <1>3
  <2>2. CASE T # {}
    <3>1. PICK x \in T : TRUE
      BY <2>2
    <3>2. f[T] = w[x] + f[T \ {x}] /\ w[x] = 0 /\ f[T \ {x}] = 0
      BY <1>3, <1>4
    <3>3. QED
      BY <3>2
  <2>3. QED
    BY <2>1, <2>2
<1>5. SUBSET S \subseteq G
  <2> HIDE DEF G
  <2>1. QED
    BY <1>4, FiniteInduction
<1>6. QED
  BY <1>2, <1>5

-----------------------------------------------------------------------------
(* Any other fold over a finite set: c says which element of a part is      *)
(* taken out first, h what is done with it and with the result for the      *)
(* rest.                                                                    *)
IsFold(f, base, c, h, S) ==
    f = [s \in SUBSET S |-> IF s = {} THEN base ELSE h[c[s], f[s \ {c[s]}]]]

(* Such an f exists, and stays where h does.                                *)
THEOREM FoldExists ==
    ASSUME NEW S, IsFiniteSet(S), NEW V, NEW base \in V, NEW h \in [S \X V -> V],
           NEW c, \A s \in SUBSET S : s # {} => c[s] \in s
    PROVE  \E f \in [SUBSET S -> V] : IsFold(f, base, c, h, S)
<1> DEFINE D(n) == {s \in SUBSET S : Cardinality(s) <= n}
           B(n, f) == \A s \in D(n) : f[s] = IF s = {} THEN base ELSE h[c[s], f[s \ {c[s]}]]
           N == {n \in Nat : \E f \in [D(n) -> V] : B(n, f)}
<1>0. \A s \in SUBSET S : s # {} =>
         /\ c[s] \in S /\ s \ {c[s]} \in SUBSET S
         /\ Cardinality(s \ {c[s]}) = Cardinality(s) - 1
  <2>1. SUFFICES ASSUME NEW s \in SUBSET S, s # {}
                 PROVE  c[s] \in S /\ Cardinality(s \ {c[s]}) = Cardinality(s) - 1
    OBVIOUS
  <2>2. c[s] \in s
    BY <2>1
  <2>3. IsFiniteSet(s)
    BY FS_Subset
  <2>4. QED
    BY <2>2, <2>3, FS_RemoveElement
<1>00. \A s \in SUBSET S : Cardinality(s) \in Nat /\ (Cardinality(s) = 0 => s = {})
  BY FS_Subset, FS_CardinalityType, FS_EmptySet
<1>1. 0 \in N
  <2> DEFINE f == [s \in D(0) |-> base]
  <2>1. \A s \in D(0) : s = {}
    BY <1>00
  <2>2. f \in [D(0) -> V] /\ B(0, f)
    BY <2>1
  <2>3. QED
    BY <2>2
<1>2. ASSUME NEW n \in Nat, n \in N
      PROVE  n + 1 \in N
  <2>1. PICK f \in [D(n) -> V] : B(n, f)
    BY <1>2
  <2> DEFINE g == [s \in D(n + 1) |-> IF s = {} THEN base ELSE h[c[s], f[s \ {c[s]}]]]
  <2>2. \A s \in D(n + 1) : s # {} => s \ {c[s]} \in D(n)
    BY <1>0, <1>00
  <2>3. g \in [D(n + 1) -> V]
    <3>1. ASSUME NEW s \in D(n + 1), s # {}
          PROVE  h[c[s], f[s \ {c[s]}]] \in V
      <4>1. c[s] \in S /\ f[s \ {c[s]}] \in V
        BY <3>1, <1>0, <2>2
      <4> HIDE DEF D
      <4>2. QED
        BY <4>1
    <3>2. QED
      BY <3>1
  <2>4. \A s \in D(n) : s \in D(n + 1) /\ g[s] = f[s]
    <3>1. \A s \in D(n) : s \in D(n + 1)
      BY <1>00
    <3>2. QED
      BY <3>1, <2>1
  <2>5. B(n + 1, g)
    BY <2>2, <2>4
  <2> HIDE DEF B, D, g
  <2>6. QED
    BY <2>3, <2>5
<1>3. Nat \subseteq N
  <2> HIDE DEF N
  <2>1. QED
    BY <1>1, <1>2, SetInduction
<1>4. PICK f \in [D(Cardinality(S)) -> V] : B(Cardinality(S), f)
  BY <1>3, FS_CardinalityType
<1>5. D(Cardinality(S)) = SUBSET S
  BY FS_Subset
<1>6. f = [s \in SUBSET S |-> IF s = {} THEN base ELSE h[c[s], f[s \ {c[s]}]]]
  BY <1>4, <1>5
<1>7. QED
  BY <1>4, <1>5, <1>6 DEF IsFold

=============================================================================
