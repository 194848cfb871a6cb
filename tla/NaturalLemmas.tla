--------------------------- MODULE NaturalLemmas ---------------------------
(***************************************************************************)
(* Minimal elements of sets of natural numbers, and sums over finite sets, *)
(* from the well-foundedness of the strict subset relation on finite sets. *)
(* The proofs that need an induction use it with the set of                *)
(* counterexamples.                                                        *)
(***************************************************************************)
EXTENDS Naturals, Functions, FiniteSetTheorems, TLAPS

\* A set of naturals that is not empty has a least element.
LEMMA LeastNatural ==
  ASSUME NEW S, S \subseteq Nat, S # {}
  PROVE  \E x \in S : \A y \in S : x <= y
<1> DEFINE T == {1..x : x \in S}
<1>0. T # {}
  OBVIOUS
<1>1. T \subseteq FiniteSubsetsOf(Nat)
  <2>1. \A x \in S : IsFiniteSet(1..x)
    BY FS_Interval
  <2> QED
    BY <2>1 DEF FiniteSubsetsOf
<1>2. \E A \in T : \A B \in T : <<B, A>> \notin StrictSubsetOrdering(Nat)
  <2>1. IsWellFoundedOn(StrictSubsetOrdering(Nat), FiniteSubsetsOf(Nat))
    BY FS_StrictSubsetOrderingWellFounded
  <2> HIDE DEF T
  <2> QED
    BY <1>0, <1>1, <2>1, WFMin
<1>3. PICK x \in S : \A B \in T : <<B, 1..x>> \notin StrictSubsetOrdering(Nat)
  BY <1>2
<1>4. ASSUME NEW y \in S, y < x PROVE FALSE
  <2>1. x \in 1..x /\ x \notin 1..y /\ 1..y \subseteq 1..x
    BY <1>4
  <2>2. <<1..y, 1..x>> \in StrictSubsetOrdering(Nat)
    BY <2>1 DEF StrictSubsetOrdering
  <2> QED
    BY <1>3, <2>2
<1> QED
  BY <1>4

\* A bounded set of naturals that is not empty has a greatest element.
LEMMA GreatestNatural ==
  ASSUME NEW S, S \subseteq Nat, S # {}, NEW K \in Nat, \A y \in S : y <= K
  PROVE  \E x \in S : \A y \in S : x >= y
<1> DEFINE B == {b \in Nat : \A y \in S : y <= b}
<1>1. K \in B
  OBVIOUS
<1>2. PICK m \in B : \A b \in B : m <= b
  <2> HIDE DEF B
  <2>1. B \subseteq Nat
    BY DEF B
  <2> QED
    BY <1>1, <2>1, LeastNatural
<1>3. m \in S
  <2> SUFFICES ASSUME m \notin S PROVE FALSE
    OBVIOUS
  <2>1. PICK y \in S : TRUE
    OBVIOUS
  <2>2. m > 0 /\ \A z \in S : z <= m - 1
    BY <1>2, <2>1
  <2>3. m - 1 \in B
    BY <1>2, <2>2
  <2> QED
    BY <1>2, <2>3
<1> QED
  BY <1>2, <1>3

\* Finitely many naturals have a bound.
LEMMA BoundedValues ==
  ASSUME NEW N \in Nat, NEW f, \A i \in 1..N : f[i] \in Nat
  PROVE  \E K \in Nat : \A i \in 1..N : f[i] <= K
<1> DEFINE Holds(k) == \E K \in Nat : \A i \in 1..k : f[i] <= K
           Bad == {k \in 0..N : ~Holds(k)}
<1>1. Holds(0)
  <2>1. \A i \in 1..0 : f[i] <= 0
    OBVIOUS
  <2> QED
    BY <2>1
<1>2. ASSUME NEW k \in 1..N, Holds(k - 1) PROVE Holds(k)
  <2>1. PICK K \in Nat : \A i \in 1..(k - 1) : f[i] <= K
    BY <1>2
  <2>2. f[k] \in Nat
    OBVIOUS
  <2>3. PICK M \in Nat : M >= K /\ M >= f[k]
    BY <2>2
  <2>4. \A i \in 1..k : f[i] <= M
    <3> SUFFICES ASSUME NEW i \in 1..k PROVE f[i] <= M
      OBVIOUS
    <3>1. f[i] \in Nat
      OBVIOUS
    <3>2. i = k \/ i \in 1..(k - 1)
      OBVIOUS
    <3> QED
      BY <2>1, <2>2, <2>3, <3>1, <3>2
  <2> QED
    BY <2>4
<1>3. CASE Bad # {}
  <2>1. PICK k \in Bad : \A j \in Bad : k <= j
    <3> HIDE DEF Bad
    <3>1. Bad \subseteq Nat
      BY DEF Bad
    <3> QED
      BY <1>3, <3>1, LeastNatural
  <2> HIDE DEF Holds
  <2>2. k \in 1..N /\ ~Holds(k)
    BY <1>1
  <2>3. ~Holds(k - 1)
    BY <1>2, <2>2
  <2>4. k - 1 \in Bad /\ ~(k <= k - 1)
    BY <2>2, <2>3
  <2> QED
    BY <2>1, <2>4
<1>4. CASE Bad = {}
  <2> HIDE DEF Holds
  <2>1. N \in 0..N
    OBVIOUS
  <2>2. Holds(N)
    BY <1>4, <2>1
  <2> QED
    BY <2>2 DEF Holds
<1> QED
  BY <1>3, <1>4
-----------------------------------------------------------------------------
(* Sums over finite sets *)

Chosen(s) == CHOOSE x \in s : TRUE

(* What the recursion behind SumFunctionOnSet asks of its partial sums. *)
PartialSums(f, S, g) ==
    g = [s \in SUBSET S |-> IF s = {} THEN 0 ELSE f[Chosen(s)] + g[s \ {Chosen(s)}]]

TheSums(f, S) == CHOOSE g : PartialSums(f, S, g)

(* The sum is the last of the partial sums. *)
LEMMA SumIsLast ==
  ASSUME NEW f, NEW S
  PROVE  SumFunctionOnSet(f, S) = TheSums(f, S)[S]
  BY Zenon DEF SumFunctionOnSet, FoldFunctionOnSet, MapThenFoldSet, PartialSums, TheSums, Chosen

(* Among the subsets of a finite set there is a smallest counterexample. *)
LEMMA MinimalSubset ==
  ASSUME NEW S, IsFiniteSet(S), NEW C, C \subseteq SUBSET S, C # {}
  PROVE  \E T \in C : \A U \in C : U \subseteq T => U = T
<1>1. C \subseteq FiniteSubsetsOf(S)
  BY FS_FiniteSubsetsOfFinite
<1>2. \E T \in C : \A U \in C : <<U, T>> \notin StrictSubsetOrdering(S)
  BY <1>1, FS_StrictSubsetOrderingWellFounded, WFMin
<1> QED
  BY <1>2 DEF StrictSubsetOrdering

LEMMA ChosenIsIn ==
  ASSUME NEW s, s # {}
  PROVE  Chosen(s) \in s
  BY DEF Chosen

(* Partial sums are unique. *)
LEMMA SumsUnique ==
  ASSUME NEW f, NEW S, IsFiniteSet(S), NEW g, NEW h,
         PartialSums(f, S, g), PartialSums(f, S, h)
  PROVE  g = h
<1> DEFINE C == {s \in SUBSET S : g[s] # h[s]}
<1>1. C = {}
  <2> SUFFICES ASSUME C # {} PROVE FALSE
    OBVIOUS
  <2>1. PICK T \in C : \A U \in C : U \subseteq T => U = T
    <3> HIDE DEF C
    <3>1. C \subseteq SUBSET S
      BY DEF C
    <3> QED
      BY <3>1, MinimalSubset
  <2>2. T # {}
    BY <2>1 DEF PartialSums
  <2>3. T \ {Chosen(T)} \notin C /\ T \ {Chosen(T)} \in SUBSET S
    BY <2>1, <2>2, ChosenIsIn
  <2>4. g[T \ {Chosen(T)}] = h[T \ {Chosen(T)}]
    BY <2>3
  <2> QED
    BY <2>1, <2>2, <2>4 DEF PartialSums
<1>2. \A s \in SUBSET S : g[s] = h[s]
  BY <1>1
<1> QED
  BY <1>2 DEF PartialSums

(* The partial sums of a set contain those of its subsets. *)
LEMMA SumsRestrict ==
  ASSUME NEW f, NEW S, NEW g, PartialSums(f, S, g), NEW T \in SUBSET S
  PROVE  PartialSums(f, T, [s \in SUBSET T |-> g[s]])
<1> DEFINE h == [s \in SUBSET T |-> g[s]]
<1>1. ASSUME NEW s \in SUBSET T
      PROVE  h[s] = IF s = {} THEN 0 ELSE f[Chosen(s)] + h[s \ {Chosen(s)}]
  <2>1. s \in SUBSET S /\ s \ {Chosen(s)} \in SUBSET T
    OBVIOUS
  <2>2. h[s] = g[s] /\ h[s \ {Chosen(s)}] = g[s \ {Chosen(s)}]
    BY <2>1
  <2>3. g[s] = IF s = {} THEN 0 ELSE f[Chosen(s)] + g[s \ {Chosen(s)}]
    BY <2>1 DEF PartialSums
  <2> HIDE DEF h
  <2> QED
    BY <2>2, <2>3
<1>2. h = [s \in SUBSET T |-> IF s = {} THEN 0 ELSE f[Chosen(s)] + h[s \ {Chosen(s)}]]
  <2>1. h = [s \in SUBSET T |-> h[s]]
    OBVIOUS
  <2> HIDE DEF h
  <2> QED
    BY <1>1, <2>1
<1> QED
  BY <1>2 DEF PartialSums

(* Where there are partial sums, the sum satisfies its equation. *)
LEMMA SumEquation ==
  ASSUME NEW f, NEW S, IsFiniteSet(S), \E g : PartialSums(f, S, g)
  PROVE  SumFunctionOnSet(f, S) =
            IF S = {} THEN 0
            ELSE f[Chosen(S)] + SumFunctionOnSet(f, S \ {Chosen(S)})
<1> DEFINE g == TheSums(f, S)
           T == S \ {Chosen(S)}
<1>1. PartialSums(f, S, g)
  BY DEF TheSums
<1>2. SumFunctionOnSet(f, S) = g[S] /\ SumFunctionOnSet(f, T) = TheSums(f, T)[T]
  BY SumIsLast
<1>3. T \in SUBSET S /\ IsFiniteSet(T)
  BY FS_Subset
<1>4. PartialSums(f, T, [s \in SUBSET T |-> g[s]])
  <2> HIDE DEF g, T
  <2> QED
    BY <1>1, <1>3, SumsRestrict
<1>5. PartialSums(f, T, TheSums(f, T))
  <2> HIDE DEF g, T
  <2> QED
    BY <1>4 DEF TheSums
<1>6. TheSums(f, T) = [s \in SUBSET T |-> g[s]]
  <2> HIDE DEF g, T
  <2> QED
    BY <1>3, <1>4, <1>5, SumsUnique
<1>7. TheSums(f, T)[T] = g[T]
  BY <1>6
<1>8. g[S] = IF S = {} THEN 0 ELSE f[Chosen(S)] + g[T]
  <2> HIDE DEF g
  <2> QED
    BY <1>1 DEF PartialSums
<1> QED
  BY <1>2, <1>7, <1>8

(* A finite set has partial sums. *)
LEMMA SumsExist ==
  ASSUME NEW f, NEW S, IsFiniteSet(S)
  PROVE  \E g : PartialSums(f, S, g)
<1> DEFINE C == {s \in SUBSET S : ~ \E g : PartialSums(f, s, g)}
<1> SUFFICES ASSUME C # {} PROVE FALSE
  OBVIOUS
<1>1. PICK T \in C : \A U \in C : U \subseteq T => U = T
  <2> HIDE DEF C
  <2>1. C \subseteq SUBSET S
    BY DEF C
  <2> QED
    BY <2>1, MinimalSubset
<1>2. ASSUME NEW s \in SUBSET T, s # T
      PROVE  SumFunctionOnSet(f, s) =
                IF s = {} THEN 0
                ELSE f[Chosen(s)] + SumFunctionOnSet(f, s \ {Chosen(s)})
  <2>1. s \in SUBSET S /\ s \notin C
    BY <1>1, <1>2
  <2>2. IsFiniteSet(s) /\ \E g : PartialSums(f, s, g)
    BY <2>1, FS_Subset
  <2> QED
    BY <2>2, SumEquation
<1> DEFINE sum(s) == IF s = {} THEN 0
                     ELSE f[Chosen(s)] + SumFunctionOnSet(f, s \ {Chosen(s)})
           g == [s \in SUBSET T |-> sum(s)]
<1>3. ASSUME NEW s \in SUBSET T
      PROVE  g[s] = IF s = {} THEN 0 ELSE f[Chosen(s)] + g[s \ {Chosen(s)}]
  <2>1. CASE s = {}
    BY <2>1
  <2>2. CASE s # {}
    <3> DEFINE r == s \ {Chosen(s)}
    <3>1. r \in SUBSET T /\ r # T
      BY <2>2, ChosenIsIn
    <3>2. SumFunctionOnSet(f, r) = sum(r)
      <4> HIDE DEF r
      <4> QED
        BY <3>1, <1>2
    <3>3. g[r] = sum(r)
      <4> HIDE DEF r, sum
      <4> QED
        BY <3>1
    <3>4. g[s] = f[Chosen(s)] + SumFunctionOnSet(f, r)
      BY <2>2
    <3> HIDE DEF r, g, sum
    <3>5. g[s] = f[Chosen(s)] + g[r]
      BY <3>2, <3>3, <3>4
    <3> QED
      BY <2>2, <3>5 DEF r
  <2> QED
    BY <2>1, <2>2
<1>4. PartialSums(f, T, g)
  <2>1. g = [s \in SUBSET T |-> g[s]]
    OBVIOUS
  <2> HIDE DEF g
  <2> QED
    BY <1>3, <2>1 DEF PartialSums
<1> QED
  BY <1>1, <1>4

(* Hence the equation of the sum over any finite set. *)
LEMMA SumStep ==
  ASSUME NEW f, NEW S, IsFiniteSet(S)
  PROVE  /\ S = {} => SumFunctionOnSet(f, S) = 0
         /\ S # {} => SumFunctionOnSet(f, S) =
                         f[Chosen(S)] + SumFunctionOnSet(f, S \ {Chosen(S)})
  BY SumsExist, SumEquation

(* A sum of numbers is a number. *)
LEMMA SumIsNat ==
  ASSUME NEW f, NEW S, IsFiniteSet(S), \A x \in S : f[x] \in Nat
  PROVE  SumFunctionOnSet(f, S) \in Nat
<1> DEFINE C == {s \in SUBSET S : SumFunctionOnSet(f, s) \notin Nat}
<1> SUFFICES ASSUME C # {} PROVE FALSE
  OBVIOUS
<1>1. PICK T \in C : \A U \in C : U \subseteq T => U = T
  <2> HIDE DEF C
  <2>1. C \subseteq SUBSET S
    BY DEF C
  <2> QED
    BY <2>1, MinimalSubset
<1>2. IsFiniteSet(T)
  BY <1>1, FS_Subset
<1>3. T # {}
  <2>1. SumFunctionOnSet(f, T) \notin Nat
    BY <1>1
  <2> QED
    BY <1>2, <2>1, SumStep, 0 \in Nat
<1>4. Chosen(T) \in T
  BY <1>3, ChosenIsIn
<1>5. T \ {Chosen(T)} \notin C
  BY <1>1, <1>4
<1>6. SumFunctionOnSet(f, T \ {Chosen(T)}) \in Nat /\ f[Chosen(T)] \in Nat
  BY <1>1, <1>4, <1>5
<1>7. SumFunctionOnSet(f, T) = f[Chosen(T)] + SumFunctionOnSet(f, T \ {Chosen(T)})
  BY <1>2, <1>3, SumStep
<1> QED
  BY <1>1, <1>6, <1>7

(* Functions that agree on a set have the same sum over it. *)
LEMMA SumSame ==
  ASSUME NEW f, NEW h, NEW S, IsFiniteSet(S), \A x \in S : f[x] = h[x]
  PROVE  SumFunctionOnSet(f, S) = SumFunctionOnSet(h, S)
<1> DEFINE C == {s \in SUBSET S : SumFunctionOnSet(f, s) # SumFunctionOnSet(h, s)}
<1> SUFFICES ASSUME C # {} PROVE FALSE
  OBVIOUS
<1>1. PICK T \in C : \A U \in C : U \subseteq T => U = T
  <2> HIDE DEF C
  <2>1. C \subseteq SUBSET S
    BY DEF C
  <2> QED
    BY <2>1, MinimalSubset
<1>2. IsFiniteSet(T)
  BY <1>1, FS_Subset
<1>3. T # {}
  BY <1>1, <1>2, SumStep
<1>4. Chosen(T) \in T
  BY <1>3, ChosenIsIn
<1>5. SumFunctionOnSet(f, T \ {Chosen(T)}) = SumFunctionOnSet(h, T \ {Chosen(T)})
  BY <1>1, <1>4
<1>6. f[Chosen(T)] = h[Chosen(T)]
  BY <1>1, <1>4
<1> QED
  BY <1>1, <1>2, <1>3, <1>5, <1>6, SumStep

(* Any element may be summed first. *)
LEMMA SumSplit ==
  ASSUME NEW f, NEW S, IsFiniteSet(S), \A x \in S : f[x] \in Nat, NEW a \in S
  PROVE  SumFunctionOnSet(f, S) = f[a] + SumFunctionOnSet(f, S \ {a})
<1> DEFINE C == {s \in SUBSET S : \E x \in s :
                    SumFunctionOnSet(f, s) # f[x] + SumFunctionOnSet(f, s \ {x})}
<1> SUFFICES ASSUME C # {} PROVE FALSE
  OBVIOUS
<1>1. PICK T \in C : \A U \in C : U \subseteq T => U = T
  <2> HIDE DEF C
  <2>1. C \subseteq SUBSET S
    BY DEF C
  <2> QED
    BY <2>1, MinimalSubset
<1>2. PICK x \in T : SumFunctionOnSet(f, T) # f[x] + SumFunctionOnSet(f, T \ {x})
  BY <1>1
<1> DEFINE y == Chosen(T)
           R == (T \ {y}) \ {x}
<1>3. IsFiniteSet(T) /\ IsFiniteSet(R)
  BY <1>1, FS_Subset
<1>4. y \in T /\ SumFunctionOnSet(f, T) = f[y] + SumFunctionOnSet(f, T \ {y})
  BY <1>2, <1>3, SumStep, ChosenIsIn
<1>5. x # y
  BY <1>2, <1>4
<1> HIDE DEF y
<1>6. T \ {y} \notin C /\ T \ {x} \notin C
  BY <1>1, <1>2, <1>4
<1>7. SumFunctionOnSet(f, T \ {y}) = f[x] + SumFunctionOnSet(f, R)
  BY <1>1, <1>2, <1>5, <1>6
<1>8. (T \ {x}) \ {y} = R
  OBVIOUS
<1>9. SumFunctionOnSet(f, T \ {x}) = f[y] + SumFunctionOnSet(f, (T \ {x}) \ {y})
  BY <1>1, <1>4, <1>5, <1>6
<1>10. SumFunctionOnSet(f, R) \in Nat /\ f[x] \in Nat /\ f[y] \in Nat
  <2>1. \A z \in R : f[z] \in Nat
    BY <1>1
  <2> HIDE DEF R
  <2> QED
    BY <1>1, <1>2, <1>3, <1>4, <2>1, SumIsNat
<1> HIDE DEF R, C
<1>11. SumFunctionOnSet(f, T \ {x}) = f[y] + SumFunctionOnSet(f, R)
  BY <1>8, <1>9
<1>12. ASSUME NEW u \in Nat, NEW v \in Nat, NEW z \in Nat
       PROVE  u + (v + z) = v + (u + z)
  OBVIOUS
<1>13. f[y] + (f[x] + SumFunctionOnSet(f, R)) = f[x] + (f[y] + SumFunctionOnSet(f, R))
  BY <1>10, <1>12
<1> QED
  BY <1>2, <1>4, <1>7, <1>11, <1>13, Zenon

(* What a change at one place does to a sum. *)
LEMMA SumChange ==
  ASSUME NEW S, IsFiniteSet(S), NEW a \in S,
         NEW f \in [S -> Nat], NEW h \in [S -> Nat],
         \A x \in S \ {a} : h[x] = f[x]
  PROVE  /\ SumFunction(f) \in Nat
         /\ SumFunction(h) \in Nat
         /\ SumFunction(h) + f[a] = SumFunction(f) + h[a]
<1>1. IsFiniteSet(S \ {a})
  BY FS_Subset
<1>2. SumFunctionOnSet(f, S) = f[a] + SumFunctionOnSet(f, S \ {a})
  BY SumSplit
<1>3. SumFunctionOnSet(h, S) = h[a] + SumFunctionOnSet(h, S \ {a})
  BY SumSplit
<1>4. SumFunctionOnSet(h, S \ {a}) = SumFunctionOnSet(f, S \ {a})
  BY <1>1, SumSame
<1>5. SumFunctionOnSet(f, S \ {a}) \in Nat
  BY <1>1, SumIsNat
<1>6. SumFunction(f) = SumFunctionOnSet(f, S) /\ SumFunction(h) = SumFunctionOnSet(h, S)
  BY DEF SumFunction
<1> QED
  BY <1>2, <1>3, <1>4, <1>5, <1>6

(* The sum of two functions is the sum of their sums. *)
LEMMA SumAdd ==
  ASSUME NEW S, IsFiniteSet(S), NEW f \in [S -> Nat], NEW g \in [S -> Nat]
  PROVE  /\ SumFunction(f) \in Nat /\ SumFunction(g) \in Nat
         /\ SumFunction([x \in S |-> f[x] + g[x]]) = SumFunction(f) + SumFunction(g)
<1> DEFINE h == [x \in S |-> f[x] + g[x]]
           C == {s \in SUBSET S : SumFunctionOnSet(h, s)
                                    # SumFunctionOnSet(f, s) + SumFunctionOnSet(g, s)}
<1>0. \A x \in S : h[x] = f[x] + g[x] /\ f[x] \in Nat /\ g[x] \in Nat /\ h[x] \in Nat
  OBVIOUS
<1>1. C = {}
  <2> SUFFICES ASSUME C # {} PROVE FALSE
    OBVIOUS
  <2>1. PICK T \in C : \A U \in C : U \subseteq T => U = T
    <3> HIDE DEF C
    <3>1. C \subseteq SUBSET S
      BY DEF C
    <3> QED
      BY <3>1, MinimalSubset
  <2> DEFINE y == Chosen(T)
             R == T \ {y}
  <2> HIDE DEF h
  <2>2. IsFiniteSet(T) /\ IsFiniteSet(R) /\ T \subseteq S /\ R \subseteq S
    BY <2>1, FS_Subset
  <2>3. T # {}
    <3>1. SumFunctionOnSet(h, {}) = 0 /\ SumFunctionOnSet(f, {}) = 0
          /\ SumFunctionOnSet(g, {}) = 0
      BY FS_EmptySet, SumStep
    <3>2. SumFunctionOnSet(h, T) # SumFunctionOnSet(f, T) + SumFunctionOnSet(g, T)
      BY <2>1
    <3> HIDE DEF C
    <3> QED
      BY <3>1, <3>2
  <2>4. y \in T /\ y \in S
    BY <2>2, <2>3, ChosenIsIn
  <2>5. SumFunctionOnSet(h, R) = SumFunctionOnSet(f, R) + SumFunctionOnSet(g, R)
    BY <2>1, <2>4
  <2>6. SumFunctionOnSet(f, R) \in Nat /\ SumFunctionOnSet(g, R) \in Nat
    <3> HIDE DEF R
    <3> QED
      BY <1>0, <2>2, SumIsNat
  <2>7. /\ SumFunctionOnSet(h, T) = h[y] + SumFunctionOnSet(h, R)
        /\ SumFunctionOnSet(f, T) = f[y] + SumFunctionOnSet(f, R)
        /\ SumFunctionOnSet(g, T) = g[y] + SumFunctionOnSet(g, R)
    BY <2>2, <2>3, SumStep
  <2>8. SumFunctionOnSet(h, T) # SumFunctionOnSet(f, T) + SumFunctionOnSet(g, T)
    BY <2>1
  <2> HIDE DEF y, R, C
  <2> QED
    BY <1>0, <2>4, <2>5, <2>6, <2>7, <2>8
<1>2. SumFunctionOnSet(h, S) = SumFunctionOnSet(f, S) + SumFunctionOnSet(g, S)
  BY <1>1
<1>3. SumFunctionOnSet(f, S) \in Nat /\ SumFunctionOnSet(g, S) \in Nat
  BY <1>0, SumIsNat
<1> QED
  BY <1>2, <1>3 DEF SumFunction

(* A sum of zeros is zero. *)
LEMMA SumZero ==
  ASSUME NEW S, IsFiniteSet(S), NEW f, DOMAIN f = S, \A x \in S : f[x] = 0
  PROVE  SumFunction(f) = 0
<1> DEFINE C == {s \in SUBSET S : SumFunctionOnSet(f, s) # 0}
<1>1. C = {}
  <2> SUFFICES ASSUME C # {} PROVE FALSE
    OBVIOUS
  <2>1. PICK T \in C : \A U \in C : U \subseteq T => U = T
    <3> HIDE DEF C
    <3>1. C \subseteq SUBSET S
      BY DEF C
    <3> QED
      BY <3>1, MinimalSubset
  <2>2. IsFiniteSet(T)
    BY <2>1, FS_Subset
  <2>3. T # {}
    BY <2>1, <2>2, SumStep
  <2>4. Chosen(T) \in T
    BY <2>3, ChosenIsIn
  <2>5. SumFunctionOnSet(f, T \ {Chosen(T)}) = 0 /\ f[Chosen(T)] = 0
    BY <2>1, <2>4
  <2> QED
    BY <2>1, <2>2, <2>3, <2>5, SumStep
<1>2. SumFunctionOnSet(f, S) = 0
  BY <1>1
<1> QED
  BY <1>2 DEF SumFunction
=============================================================================
