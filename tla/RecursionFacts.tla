----------------------------- MODULE RecursionFacts -----------------------------
(* Induction, and what it shows of recursive definitions: that a loop         *)
(* computes a value after each round, and that sums can be taken apart.       *)
(*                                                                            *)
(* The induction theorems of the library are about a predicate.  Here it is   *)
(* a set, {n \in Nat : P(n)}, which is the form in which provers of first     *)
(* order logic can use them.                                                  *)
EXTENDS Integers, Functions, FiniteSets, FiniteSetTheorems,
        WellFoundedInduction, TLAPS

-----------------------------------------------------------------------------
(* Induction *)

(* A set of numbers that is not empty has a least one.                        *)
LEMMA LeastNat ==
  ASSUME NEW T, T \subseteq Nat, T # {}
  PROVE  \E m \in T : \A k \in T : m <= k
<1> DEFINE R == OpToRel(<, Nat)
<1>1. IsWellFoundedOn(R, Nat)
  BY NatLessThanWellFounded
<1>2. PICK m \in T : \A k \in T : <<k, m>> \notin R
  <2> HIDE DEF R
  <2> QED
    BY <1>1, WFMin
<1>3. \A k \in T : ~(k < m)
  BY <1>2 DEF OpToRel
<1> QED
  BY <1>3

(* Induction on numbers.                                                       *)
LEMMA NatSetInduction ==
  ASSUME NEW Q, 0 \in Q, \A n \in Nat : n \in Q => n + 1 \in Q
  PROVE  Nat \subseteq Q
<1> SUFFICES ASSUME Nat \ Q # {} PROVE FALSE
  OBVIOUS
<1>1. PICK m \in Nat \ Q : \A k \in Nat \ Q : m <= k
  BY LeastNat
<1>2. m # 0 /\ m \in Nat
  OBVIOUS
<1>3. m - 1 \in Nat /\ ~(m <= m - 1)
  BY <1>2
<1>4. m - 1 \in Q
  BY <1>1, <1>3
<1> QED
  BY <1>3, <1>4


(* Induction on the subsets of a finite set.                                   *)
LEMMA SubsetInduction ==
  ASSUME NEW S, IsFiniteSet(S), NEW Q,
         \A T \in SUBSET S : (\A x \in T : T \ {x} \in Q) => T \in Q
  PROVE  \A T \in SUBSET S : T \in Q
<1> DEFINE P == {n \in Nat : \A T \in SUBSET S : Cardinality(T) = n => T \in Q}
<1>1. \A T \in SUBSET S : IsFiniteSet(T) /\ Cardinality(T) \in Nat
  BY FS_Subset, FS_CardinalityType
<1>2. 0 \in P
  BY <1>1, FS_EmptySet
<1>3. ASSUME NEW n \in Nat, n \in P PROVE n + 1 \in P
  <2> SUFFICES ASSUME NEW T \in SUBSET S, Cardinality(T) = n + 1 PROVE T \in Q
    OBVIOUS
  <2>1. ASSUME NEW x \in T PROVE T \ {x} \in Q
    <3>1. Cardinality(T \ {x}) = Cardinality(T) - 1
      BY <1>1, FS_RemoveElement
    <3>2. Cardinality(T \ {x}) = n
      BY <3>1
    <3> QED
      BY <1>3, <3>2
  <2> QED
    BY <2>1
<1>4. Nat \subseteq P
  <2> HIDE DEF P
  <2> QED
    BY <1>2, <1>3, NatSetInduction
<1> QED
  BY <1>1, <1>4

-----------------------------------------------------------------------------
(* Loops *)

(* The values of g are those of the first n rounds, from s0, of F.              *)
Loops(g, n, s0, F) == g[0] = s0 /\ \A i \in 0..n - 1 : g[i + 1] = F[g[i]]

(* The values after any number of rounds exist.                                *)
LEMMA LoopPrefixes ==
  ASSUME NEW S, NEW s0 \in S, NEW F \in [S -> S], NEW n \in Nat
  PROVE  \E g \in [0..n -> S] : Loops(g, n, s0, F)
<1> DEFINE Q == {k \in Nat : \E g \in [0..k -> S] : Loops(g, k, s0, F)}
<1>1. 0 \in Q
  <2> DEFINE g == [i \in 0..0 |-> s0]
  <2>1. g \in [0..0 -> S] /\ g[0] = s0
    OBVIOUS
  <2>2. 0..0 - 1 = {}
    OBVIOUS
  <2> QED
    BY <2>1, <2>2 DEF Loops
<1>2. ASSUME NEW k \in Nat, k \in Q PROVE k + 1 \in Q
  <2>1. PICK g \in [0..k -> S] : Loops(g, k, s0, F)
    BY <1>2
  <2> DEFINE h == [i \in 0..k + 1 |-> IF i \in 0..k THEN g[i] ELSE F[g[k]]]
  <2>2. h \in [0..k + 1 -> S]
    OBVIOUS
  <2>3. h[0] = s0 /\ h[k + 1] = F[h[k]] /\ \A i \in 0..k : h[i] = g[i]
    BY <2>1 DEF Loops
  <2>4. ASSUME NEW i \in 0..(k + 1) - 1 PROVE h[i + 1] = F[h[i]]
    <3>1. CASE i = k
      BY <2>3, <3>1
    <3>2. CASE i # k
      <4>1. i \in 0..k - 1 /\ i \in 0..k /\ i + 1 \in 0..k
        BY <3>2
      <4> HIDE DEF h
      <4> QED
        BY <2>1, <2>3, <4>1 DEF Loops
    <3> QED
      BY <3>1, <3>2
  <2> HIDE DEF h
  <2> QED
    BY <2>2, <2>3, <2>4 DEF Loops
<1>3. Nat \subseteq Q
  <2> HIDE DEF Q
  <2> QED
    BY <1>1, <1>2, NatSetInduction
<1> QED
  BY <1>3

(* They are the same however many rounds follow.                               *)
LEMMA LoopUnique ==
  ASSUME NEW s0, NEW F, NEW n \in Nat, NEW m \in Nat, NEW g, NEW h,
         Loops(g, n, s0, F), Loops(h, m, s0, F)
  PROVE  \A k \in Nat : k <= n /\ k <= m => g[k] = h[k]
<1> DEFINE Q == {k \in Nat : k <= n /\ k <= m => g[k] = h[k]}
<1>1. 0 \in Q
  BY DEF Loops
<1>2. ASSUME NEW k \in Nat, k \in Q PROVE k + 1 \in Q
  <2> SUFFICES ASSUME k + 1 <= n, k + 1 <= m PROVE g[k + 1] = h[k + 1]
    OBVIOUS
  <2>1. k \in 0..n - 1 /\ k \in 0..m - 1 /\ k <= n /\ k <= m
    OBVIOUS
  <2> QED
    BY <1>2, <2>1 DEF Loops
<1>3. Nat \subseteq Q
  <2> HIDE DEF Q
  <2> QED
    BY <1>1, <1>2, NatSetInduction
<1> QED
  BY <1>3

(* Hence there is a function of all rounds.                                    *)
LEMMA LoopExists ==
  ASSUME NEW S, NEW s0 \in S, NEW F \in [S -> S]
  PROVE  \E f \in [Nat -> S] : f[0] = s0 /\ \A n \in Nat : f[n + 1] = F[f[n]]
<1> DEFINE G == [n \in Nat |-> CHOOSE g \in [0..n -> S] : Loops(g, n, s0, F)]
           f == [n \in Nat |-> G[n][n]]
<1>1. \A n \in Nat : G[n] \in [0..n -> S] /\ Loops(G[n], n, s0, F)
  BY LoopPrefixes
<1>2. \A n \in Nat : f[n] = G[n][n] /\ G[n][n] \in S
  BY <1>1
<1>3. f \in [Nat -> S]
  BY <1>2
<1> HIDE DEF G, f
<1>4. f[0] = s0
  BY <1>1, <1>2 DEF Loops
<1>5. ASSUME NEW n \in Nat PROVE f[n + 1] = F[f[n]]
  <2>1. n + 1 \in Nat /\ n \in 0..(n + 1) - 1 /\ n <= n /\ n <= n + 1
    OBVIOUS
  <2>2. G[n + 1][n + 1] = F[G[n + 1][n]]
    BY <1>1, <2>1 DEF Loops
  <2>3. G[n + 1][n] = G[n][n]
    BY <1>1, <2>1, LoopUnique
  <2> QED
    BY <1>2, <2>1, <2>2, <2>3
<1> QED
  BY <1>3, <1>4, <1>5

(* A recursive function, f[n \in Nat] == IF n = 0 THEN s0 ELSE F[f[n - 1]], is  *)
(* a choice among the solutions of this equation.  There is one,                *)
LoopEquation(f, s0, F) == f = [n \in Nat |-> IF n = 0 THEN s0 ELSE F[f[n - 1]]]

LEMMA LoopSolution ==
  ASSUME NEW S, NEW s0 \in S, NEW F \in [S -> S]
  PROVE  \E g : LoopEquation(g, s0, F)
<1>1. PICK g \in [Nat -> S] : g[0] = s0 /\ \A n \in Nat : g[n + 1] = F[g[n]]
  BY LoopExists
<1>2. ASSUME NEW n \in Nat PROVE g[n] = IF n = 0 THEN s0 ELSE F[g[n - 1]]
  <2>1. CASE n = 0
    BY <1>1, <2>1
  <2>2. CASE n # 0
    <3>1. n - 1 \in Nat /\ (n - 1) + 1 = n
      BY <2>2
    <3> QED
      BY <1>1, <2>2, <3>1
  <2> QED
    BY <2>1, <2>2
<1>3. g = [n \in Nat |-> g[n]]
  OBVIOUS
<1>4. LoopEquation(g, s0, F)
  BY <1>2, <1>3 DEF LoopEquation
<1> QED
  BY <1>4

(* and one computes what the body of the loop says.                            *)
LEMMA LoopFunction ==
  ASSUME NEW S, NEW s0 \in S, NEW F \in [S -> S], NEW f, LoopEquation(f, s0, F)
  PROVE  f \in [Nat -> S] /\ f[0] = s0 /\ \A n \in Nat : f[n + 1] = F[f[n]]
<1>1. f = [n \in Nat |-> IF n = 0 THEN s0 ELSE F[f[n - 1]]]
  BY DEF LoopEquation
<1>2. f[0] = s0
  BY <1>1
<1>3. ASSUME NEW n \in Nat PROVE f[n + 1] = F[f[n]]
  <2>1. n + 1 \in Nat /\ n + 1 # 0 /\ (n + 1) - 1 = n
    OBVIOUS
  <2> QED
    BY <1>1, <2>1
<1>4. f \in [Nat -> S]
  <2> DEFINE Q == {n \in Nat : f[n] \in S}
  <2>1. 0 \in Q
    BY <1>2
  <2>2. \A n \in Nat : n \in Q => n + 1 \in Q
    BY <1>3
  <2>3. Nat \subseteq Q
    <3> HIDE DEF Q
    <3> QED
      BY <2>1, <2>2, NatSetInduction
  <2>4. \A n \in Nat : f[n] \in S
    BY <2>3
  <2>5. f = [n \in Nat |-> f[n]]
    <3>1. DOMAIN f = Nat
      BY <1>1
    <3> QED
      BY <1>1, <3>1
  <2> QED
    BY <2>4, <2>5
<1> QED
  BY <1>2, <1>3, <1>4

-----------------------------------------------------------------------------
(* Sums *)

Chosen(T) == CHOOSE x \in T : TRUE

(* What SumFunctionOnSet(f, T) is said to be for the subsets T of S.            *)
SumEquation(g, f, S) ==
  g = [s \in SUBSET S |-> IF s = {} THEN 0 ELSE f[Chosen(s)] + g[s \ {Chosen(s)}]]

(* There is a function that satisfies the equation of a sum: after as many     *)
(* rounds as the set has elements, one more changes nothing.                   *)
LEMMA SumEquationHolds ==
  ASSUME NEW S, IsFiniteSet(S), NEW f, \A x \in S : f[x] \in Int
  PROVE  \E g \in [SUBSET S -> Int] : SumEquation(g, f, S)
<1> DEFINE zero == [s \in SUBSET S |-> 0]
           next(h) == [s \in SUBSET S |->
                         IF s = {} THEN 0 ELSE f[Chosen(s)] + h[s \ {Chosen(s)}]]
           All == [SUBSET S -> Int]
           F == [h \in All |-> next(h)]
<1>1. \A s \in SUBSET S : s # {} => Chosen(s) \in s
  BY DEF Chosen
<1>2. zero \in All
  OBVIOUS
<1>3. ASSUME NEW h \in All PROVE next(h) \in All
  <2>1. \A s \in SUBSET S : s # {} =>
          f[Chosen(s)] \in Int /\ h[s \ {Chosen(s)}] \in Int
    BY <1>1
  <2> QED
    BY <2>1
<1>4. F \in [All -> All]
  <2> HIDE DEF next, All
  <2> QED
    BY <1>3
<1>5. PICK t \in [Nat -> All] : t[0] = zero /\ \A n \in Nat : t[n + 1] = F[t[n]]
  <2> HIDE DEF zero, F, All
  <2> QED
    BY <1>2, <1>4, LoopExists
<1>6. \A n \in Nat : t[n] \in All /\ t[n + 1] = next(t[n])
  <2> HIDE DEF next, All
  <2> QED
    BY <1>5
<1> DEFINE Q == {n \in Nat : \A s \in SUBSET S : Cardinality(s) <= n => t[n][s] = t[n + 1][s]}
<1>7. \A s \in SUBSET S : IsFiniteSet(s) /\ Cardinality(s) \in Nat
  BY FS_Subset, FS_CardinalityType
<1>8. \A n \in Nat, s \in SUBSET S :
        t[n + 1][s] = IF s = {} THEN 0 ELSE f[Chosen(s)] + t[n][s \ {Chosen(s)}]
  BY <1>6
<1>9. 0 \in Q
  <2> SUFFICES ASSUME NEW s \in SUBSET S, Cardinality(s) <= 0 PROVE t[0][s] = t[0 + 1][s]
    OBVIOUS
  <2>1. s = {}
    BY <1>7, FS_EmptySet
  <2> QED
    BY <1>5, <1>8, <2>1
<1>10. ASSUME NEW n \in Nat, n \in Q PROVE n + 1 \in Q
  <2> SUFFICES ASSUME NEW s \in SUBSET S, Cardinality(s) <= n + 1
               PROVE  t[n + 1][s] = t[(n + 1) + 1][s]
    OBVIOUS
  <2> DEFINE m == n + 1
  <2>3. m \in Nat
    OBVIOUS
  <2>4. t[m + 1][s] = IF s = {} THEN 0 ELSE f[Chosen(s)] + t[m][s \ {Chosen(s)}]
    <3> HIDE DEF m
    <3> QED
      BY <1>8, <2>3
  <2>1. CASE s = {}
    BY <1>8, <2>1, <2>4
  <2>2. CASE s # {}
    <3>1. Chosen(s) \in s /\ s \ {Chosen(s)} \in SUBSET S
      BY <1>1, <2>2
    <3>2. Cardinality(s \ {Chosen(s)}) = Cardinality(s) - 1
      BY <1>7, <3>1, FS_RemoveElement
    <3>3. Cardinality(s \ {Chosen(s)}) <= n
      BY <1>7, <3>2
    <3>4. t[n][s \ {Chosen(s)}] = t[n + 1][s \ {Chosen(s)}]
      BY <1>10, <3>1, <3>3
    <3> QED
      BY <1>8, <2>2, <2>4, <3>4
  <2> QED
    BY <2>1, <2>2
<1>11. Nat \subseteq Q
  <2> HIDE DEF Q
  <2> QED
    BY <1>9, <1>10, NatSetInduction
<1> DEFINE N == Cardinality(S)
<1>12. N \in Nat /\ t[N] \in All
  BY <1>6, FS_CardinalityType
<1>13. \A s \in SUBSET S : t[N][s] = t[N + 1][s]
  <2>1. \A s \in SUBSET S : Cardinality(s) <= N
    BY FS_Subset
  <2> QED
    BY <1>11, <1>12, <2>1
<1>14. t[N] = t[N + 1]
  <2>1. t[N] \in All /\ t[N + 1] \in All
    BY <1>6, <1>12
  <2> QED
    BY <1>13, <2>1
<1>15. t[N + 1] = next(t[N])
  <2> HIDE DEF next, N
  <2> QED
    BY <1>6, <1>12
<1> QED
  BY <1>12, <1>14, <1>15 DEF SumEquation

(* The sum of the community modules satisfies it.                              *)
LEMMA SumDef ==
  ASSUME NEW S, IsFiniteSet(S), NEW f, \A x \in S : f[x] \in Int
  PROVE  \E g : SumEquation(g, f, S) /\ SumFunctionOnSet(f, S) = g[S]
<1> DEFINE g == CHOOSE h : SumEquation(h, f, S)
<1>1. SumEquation(g, f, S)
  BY SumEquationHolds
<1>2. SumFunctionOnSet(f, S) = g[S]
  BY DEF SumFunctionOnSet, FoldFunctionOnSet, MapThenFoldSet, SumEquation, Chosen
<1> QED
  BY <1>1, <1>2

(* It does not matter of which superset the equation is.                       *)
LEMMA SumUnique ==
  ASSUME NEW S, NEW T, NEW f, IsFiniteSet(S), T \subseteq S,
         NEW g, NEW h, SumEquation(g, f, S), SumEquation(h, f, T)
  PROVE  g[T] = h[T]
<1> DEFINE Q == {U \in SUBSET T : g[U] = h[U]}
<1>1. \A U : U # {} => Chosen(U) \in U
  BY DEF Chosen
<1>2. \A U \in SUBSET T :
        /\ g[U] = IF U = {} THEN 0 ELSE f[Chosen(U)] + g[U \ {Chosen(U)}]
        /\ h[U] = IF U = {} THEN 0 ELSE f[Chosen(U)] + h[U \ {Chosen(U)}]
  BY DEF SumEquation
<1>3. ASSUME NEW U \in SUBSET T, \A x \in U : U \ {x} \in Q PROVE U \in Q
  <2>1. CASE U = {}
    BY <1>2, <2>1
  <2>2. CASE U # {}
    <3>1. g[U \ {Chosen(U)}] = h[U \ {Chosen(U)}]
      BY <1>1, <1>3, <2>2
    <3> QED
      BY <1>2, <2>2, <3>1
  <2> QED
    BY <2>1, <2>2
<1>4. IsFiniteSet(T)
  BY FS_Subset
<1>5. T \in Q
  <2> HIDE DEF Q
  <2> QED
    BY <1>3, <1>4, SubsetInduction
<1> QED
  BY <1>5

(* The sum over nothing, and over a set from which an element is chosen.       *)
LEMMA SumOfChosen ==
  ASSUME NEW S, IsFiniteSet(S), NEW f, \A x \in S : f[x] \in Int
  PROVE  /\ SumFunctionOnSet(f, {}) = 0
         /\ S # {} => /\ Chosen(S) \in S
                      /\ SumFunctionOnSet(f, S)
                           = f[Chosen(S)] + SumFunctionOnSet(f, S \ {Chosen(S)})
<1>1. SumFunctionOnSet(f, {}) = 0
  <2>1. PICK g : SumEquation(g, f, {}) /\ SumFunctionOnSet(f, {}) = g[{}]
    BY SumDef, FS_EmptySet
  <2> QED
    BY <2>1 DEF SumEquation
<1>2. ASSUME S # {}
      PROVE /\ Chosen(S) \in S
            /\ SumFunctionOnSet(f, S)
                 = f[Chosen(S)] + SumFunctionOnSet(f, S \ {Chosen(S)})
  <2>1. Chosen(S) \in S
    BY <1>2 DEF Chosen
  <2> DEFINE T == S \ {Chosen(S)}
  <2>2. IsFiniteSet(T) /\ T \subseteq S /\ \A x \in T : f[x] \in Int
    BY FS_Subset
  <2> HIDE DEF T
  <2>3. PICK g : SumEquation(g, f, S) /\ SumFunctionOnSet(f, S) = g[S]
    BY SumDef
  <2>4. PICK h : SumEquation(h, f, T) /\ SumFunctionOnSet(f, T) = h[T]
    BY <2>2, SumDef
  <2>5. g[T] = h[T]
    BY <2>2, <2>3, <2>4, SumUnique
  <2>6. g[S] = f[Chosen(S)] + g[T]
    BY <1>2, <2>3 DEF SumEquation, T
  <2> QED
    BY <2>1, <2>3, <2>4, <2>5, <2>6 DEF T
<1> QED
  BY <1>1, <1>2

(* A sum of integers is one.                                                   *)
LEMMA SumType ==
  ASSUME NEW S, IsFiniteSet(S), NEW f, \A x \in S : f[x] \in Int
  PROVE  SumFunctionOnSet(f, S) \in Int
<1> DEFINE Q == {T \in SUBSET S : SumFunctionOnSet(f, T) \in Int}
<1>1. ASSUME NEW T \in SUBSET S, \A x \in T : T \ {x} \in Q PROVE T \in Q
  <2>1. IsFiniteSet(T) /\ \A x \in T : f[x] \in Int
    BY FS_Subset
  <2>2. CASE T = {}
    <3>1. SumFunctionOnSet(f, {}) = 0
      BY <2>1, SumOfChosen
    <3> QED
      BY <2>2, <3>1
  <2>3. CASE T # {}
    <3>1. /\ Chosen(T) \in T
          /\ SumFunctionOnSet(f, T) = f[Chosen(T)] + SumFunctionOnSet(f, T \ {Chosen(T)})
      BY <2>1, <2>3, SumOfChosen
    <3> QED
      BY <1>1, <2>1, <3>1
  <2> QED
    BY <2>2, <2>3
<1>2. S \in Q
  <2> HIDE DEF Q
  <2>1. \A T \in SUBSET S : T \in Q
    BY <1>1, SubsetInduction
  <2> QED
    BY <2>1
<1> QED
  BY <1>2

(* Any element can be taken out of a sum.                                      *)
LEMMA SumStep ==
  ASSUME NEW S, IsFiniteSet(S), NEW f, \A x \in S : f[x] \in Int, NEW e \in S
  PROVE  SumFunctionOnSet(f, S) = f[e] + SumFunctionOnSet(f, S \ {e})
<1> DEFINE Sum(T) == SumFunctionOnSet(f, T)
           Q == {T \in SUBSET S : \A x \in T : Sum(T) = f[x] + Sum(T \ {x})}
<1>1. ASSUME NEW T \in SUBSET S, \A x \in T : T \ {x} \in Q PROVE T \in Q
  <2> SUFFICES ASSUME NEW x \in T PROVE Sum(T) = f[x] + Sum(T \ {x})
    OBVIOUS
  <2>1. \A U \in SUBSET S : IsFiniteSet(U) /\ \A y \in U : f[y] \in Int
    BY FS_Subset
  <2>2. \A U \in SUBSET S : Sum(U) \in Int
    BY <2>1, SumType
  <2> DEFINE c == Chosen(T)
  <2>3. c \in T /\ Sum(T) = f[c] + Sum(T \ {c})
    BY <2>1, SumOfChosen
  <2> HIDE DEF c, Sum
  <2>4. CASE x = c
    BY <2>3, <2>4
  <2>5. CASE x # c
    <3>1. Sum(T \ {c}) = f[x] + Sum((T \ {c}) \ {x})
      BY <1>1, <2>3, <2>5
    <3>2. Sum(T \ {x}) = f[c] + Sum((T \ {x}) \ {c})
      BY <1>1, <2>3, <2>5
    <3>3. (T \ {x}) \ {c} = (T \ {c}) \ {x}
      OBVIOUS
    <3>4. f[x] \in Int /\ f[c] \in Int /\ Sum((T \ {c}) \ {x}) \in Int
      BY <2>1, <2>2, <2>3
    <3>5. \A a, b, r \in Int : a + (b + r) = b + (a + r)
      OBVIOUS
    <3>6. Sum(T) = f[c] + (f[x] + Sum((T \ {c}) \ {x}))
      BY <2>3, <3>1
    <3>7. f[x] + Sum(T \ {x}) = f[x] + (f[c] + Sum((T \ {c}) \ {x}))
      BY <3>2, <3>3
    <3> QED
      BY <3>4, <3>5, <3>6, <3>7
  <2> QED
    BY <2>4, <2>5
<1>2. S \in Q
  <2> HIDE DEF Q
  <2>1. \A T \in SUBSET S : T \in Q
    BY <1>1, SubsetInduction
  <2> QED
    BY <2>1
<1> QED
  BY <1>2

(* A sum depends on the summands only.                                        *)
LEMMA SumCongruent ==
  ASSUME NEW S, IsFiniteSet(S), NEW f, NEW g,
         \A x \in S : f[x] \in Int /\ g[x] = f[x]
  PROVE  SumFunctionOnSet(g, S) = SumFunctionOnSet(f, S)
<1> DEFINE Q == {T \in SUBSET S : SumFunctionOnSet(g, T) = SumFunctionOnSet(f, T)}
<1>1. ASSUME NEW T \in SUBSET S, \A x \in T : T \ {x} \in Q PROVE T \in Q
  <2>1. IsFiniteSet(T) /\ \A x \in T : f[x] \in Int /\ g[x] \in Int /\ g[x] = f[x]
    BY FS_Subset
  <2>2. CASE T = {}
    <3>1. SumFunctionOnSet(f, {}) = 0 /\ SumFunctionOnSet(g, {}) = 0
      BY <2>1, SumOfChosen
    <3> QED
      BY <2>2, <3>1
  <2>3. CASE T # {}
    <3>1. PICK x \in T : TRUE
      BY <2>3
    <3>2. /\ SumFunctionOnSet(f, T) = f[x] + SumFunctionOnSet(f, T \ {x})
          /\ SumFunctionOnSet(g, T) = g[x] + SumFunctionOnSet(g, T \ {x})
      BY <2>1, SumStep
    <3>3. SumFunctionOnSet(g, T \ {x}) = SumFunctionOnSet(f, T \ {x})
      BY <1>1
    <3> QED
      BY <2>1, <3>2, <3>3
  <2> QED
    BY <2>2, <2>3
<1>2. S \in Q
  <2> HIDE DEF Q
  <2>1. \A T \in SUBSET S : T \in Q
    BY <1>1, SubsetInduction
  <2> QED
    BY <2>1
<1> QED
  BY <1>2

(* A sum over a set is that over a part and that over the rest.                *)
LEMMA SumSplit ==
  ASSUME NEW S, IsFiniteSet(S), NEW f, \A x \in S : f[x] \in Int, NEW T \in SUBSET S
  PROVE  /\ SumFunctionOnSet(f, T) \in Int /\ SumFunctionOnSet(f, S \ T) \in Int
         /\ SumFunctionOnSet(f, S) = SumFunctionOnSet(f, T) + SumFunctionOnSet(f, S \ T)
<1> DEFINE Sum(U) == SumFunctionOnSet(f, U)
           Q == {U \in SUBSET S : Sum(S) = Sum(U) + Sum(S \ U)}
<1>1. \A U \in SUBSET S : IsFiniteSet(U) /\ \A y \in U : f[y] \in Int
  BY FS_Subset
<1>2. \A U \in SUBSET S : Sum(U) \in Int
  BY <1>1, SumType
<1>3. \A U \in SUBSET S : \A x \in U : Sum(U) = f[x] + Sum(U \ {x})
  BY <1>1, SumStep
<1>4. Sum({}) = 0
  BY SumOfChosen
<1> HIDE DEF Sum
<1>5. ASSUME NEW U \in SUBSET S, \A x \in U : U \ {x} \in Q PROVE U \in Q
  <2>1. CASE U = {}
    <3>1. S \ U = S
      BY <2>1
    <3>2. Sum(S) \in Int
      BY <1>2
    <3> QED
      BY <1>4, <2>1, <3>1, <3>2
  <2>2. CASE U # {}
    <3>1. PICK x \in U : TRUE
      BY <2>2
    <3>2. Sum(S) = Sum(U \ {x}) + Sum(S \ (U \ {x}))
      BY <1>5
    <3>3. x \in S \ (U \ {x}) /\ (S \ (U \ {x})) \ {x} = S \ U
      OBVIOUS
    <3>4. Sum(S \ (U \ {x})) = f[x] + Sum(S \ U)
      BY <1>3, <3>3
    <3>5. Sum(U) = f[x] + Sum(U \ {x})
      BY <1>3
    <3>6. /\ Sum(U \ {x}) \in Int /\ Sum(U) \in Int /\ Sum(S \ U) \in Int /\ Sum(S) \in Int
          /\ f[x] \in Int
      BY <1>2
    <3>7. Sum(S) = Sum(U) + Sum(S \ U)
      BY <3>2, <3>4, <3>5, <3>6
    <3> QED
      BY <3>7
  <2> QED
    BY <2>1, <2>2
<1>6. T \in Q
  <2> HIDE DEF Q
  <2>1. \A U \in SUBSET S : U \in Q
    BY <1>5, SubsetInduction
  <2> QED
    BY <2>1
<1> QED
  BY <1>2, <1>6 DEF Sum

(* A sum of natural numbers is one, and none of them exceeds it.               *)
LEMMA SumOfNat ==
  ASSUME NEW S, IsFiniteSet(S), NEW f, \A x \in S : f[x] \in Nat
  PROVE  /\ SumFunctionOnSet(f, S) \in Nat
         /\ \A x \in S : f[x] <= SumFunctionOnSet(f, S)
<1> DEFINE Sum(U) == SumFunctionOnSet(f, U)
           Q == {U \in SUBSET S : Sum(U) \in Nat}
<1>1. \A U \in SUBSET S : IsFiniteSet(U) /\ \A y \in U : f[y] \in Int
  BY FS_Subset
<1>2. \A U \in SUBSET S : \A x \in U : Sum(U) = f[x] + Sum(U \ {x})
  BY <1>1, SumStep
<1>3. Sum({}) = 0
  BY <1>1, SumOfChosen
<1> HIDE DEF Sum
<1>4. ASSUME NEW U \in SUBSET S, \A x \in U : U \ {x} \in Q PROVE U \in Q
  <2>1. CASE U = {}
    BY <1>3, <2>1
  <2>2. CASE U # {}
    <3>1. PICK x \in U : TRUE
      BY <2>2
    <3>2. Sum(U \ {x}) \in Nat /\ f[x] \in Nat
      BY <1>4
    <3> QED
      BY <1>2, <3>2
  <2> QED
    BY <2>1, <2>2
<1>5. \A U \in SUBSET S : U \in Q
  <2> HIDE DEF Q
  <2> QED
    BY <1>4, SubsetInduction
<1>6. ASSUME NEW x \in S PROVE f[x] <= Sum(S)
  <2>1. Sum(S \ {x}) \in Nat /\ Sum(S) = f[x] + Sum(S \ {x})
    BY <1>2, <1>5
  <2> QED
    BY <2>1
<1> QED
  BY <1>5, <1>6 DEF Sum

(* Summands that are between multiples of others, and so are their sums.       *)
LEMMA SumBetween ==
  ASSUME NEW S, IsFiniteSet(S), NEW f, NEW g, NEW m \in Int, NEW n \in Int,
         \A x \in S : f[x] \in Int /\ g[x] \in Int,
         \A x \in S : m * g[x] <= f[x] /\ f[x] <= m * g[x] + n
  PROVE  /\ m * SumFunctionOnSet(g, S) <= SumFunctionOnSet(f, S)
         /\ SumFunctionOnSet(f, S) <= m * SumFunctionOnSet(g, S) + n * Cardinality(S)
<1> DEFINE F(U) == SumFunctionOnSet(f, U)
           G(U) == SumFunctionOnSet(g, U)
           Q == {U \in SUBSET S : /\ m * G(U) <= F(U)
                                  /\ F(U) <= m * G(U) + n * Cardinality(U)}
<1>1. \A U \in SUBSET S : /\ IsFiniteSet(U) /\ Cardinality(U) \in Nat
                          /\ \A y \in U : f[y] \in Int /\ g[y] \in Int
  BY FS_Subset, FS_CardinalityType
<1>2. \A U \in SUBSET S : F(U) \in Int /\ G(U) \in Int
  BY <1>1, SumType
<1>3. \A U \in SUBSET S : \A x \in U :
        F(U) = f[x] + F(U \ {x}) /\ G(U) = g[x] + G(U \ {x})
  BY <1>1, SumStep
<1>4. F({}) = 0 /\ G({}) = 0 /\ Cardinality({}) = 0
  BY SumOfChosen, FS_EmptySet
<1> HIDE DEF F, G
<1>5. ASSUME NEW U \in SUBSET S, \A x \in U : U \ {x} \in Q PROVE U \in Q
  <2>1. CASE U = {}
    BY <1>4, <2>1
  <2>2. CASE U # {}
    <3>1. PICK x \in U : TRUE
      BY <2>2
    <3> DEFINE V == U \ {x}
    <3>2. V \in SUBSET S /\ Cardinality(U) = Cardinality(V) + 1
      BY <1>1, FS_RemoveElement
    <3>3. /\ F(U) = f[x] + F(V) /\ G(U) = g[x] + G(V)
          /\ m * G(V) <= F(V) /\ F(V) <= m * G(V) + n * Cardinality(V)
      BY <1>3, <1>5
    <3> HIDE DEF V
    <3>4. /\ F(V) \in Int /\ G(V) \in Int /\ Cardinality(V) \in Int
          /\ f[x] \in Int /\ g[x] \in Int
          /\ m * g[x] <= f[x] /\ f[x] <= m * g[x] + n
      BY <1>1, <1>2, <3>2
    <3>5. \A a, b \in Int : m * (a + b) = m * a + m * b /\ m * a \in Int /\ n * a \in Int
      OBVIOUS
    <3>6. n * (Cardinality(V) + 1) = n * Cardinality(V) + n
      BY <3>4
    <3>7. /\ m * G(U) = m * g[x] + m * G(V) /\ m * g[x] \in Int /\ m * G(V) \in Int
          /\ n * Cardinality(V) \in Int
      BY <3>3, <3>4, <3>5
    <3>8. /\ m * G(U) <= F(U)
          /\ F(U) <= m * G(U) + n * Cardinality(U)
      BY <3>2, <3>3, <3>4, <3>6, <3>7
    <3> QED
      BY <3>8
  <2> QED
    BY <2>1, <2>2
<1>6. S \in Q
  <2> HIDE DEF Q
  <2>1. \A U \in SUBSET S : U \in Q
    BY <1>5, SubsetInduction
  <2> QED
    BY <2>1
<1> QED
  BY <1>6 DEF F, G

(* A sum in which each summand grows by one.                                   *)
LEMMA SumOfNext ==
  ASSUME NEW S, IsFiniteSet(S), NEW f, NEW g, \A x \in S : f[x] \in Int /\ g[x] = f[x] + 1
  PROVE  SumFunctionOnSet(g, S) = SumFunctionOnSet(f, S) + Cardinality(S)
<1> DEFINE F(U) == SumFunctionOnSet(f, U)
           G(U) == SumFunctionOnSet(g, U)
           Q == {U \in SUBSET S : G(U) = F(U) + Cardinality(U)}
<1>1. \A U \in SUBSET S : /\ IsFiniteSet(U) /\ Cardinality(U) \in Nat
                          /\ \A y \in U : f[y] \in Int /\ g[y] \in Int
  BY FS_Subset, FS_CardinalityType
<1>2. \A U \in SUBSET S : F(U) \in Int /\ G(U) \in Int
  BY <1>1, SumType
<1>3. \A U \in SUBSET S : \A x \in U :
        F(U) = f[x] + F(U \ {x}) /\ G(U) = g[x] + G(U \ {x})
  BY <1>1, SumStep
<1>4. F({}) = 0 /\ G({}) = 0 /\ Cardinality({}) = 0
  BY SumOfChosen, FS_EmptySet
<1> HIDE DEF F, G
<1>5. ASSUME NEW U \in SUBSET S, \A x \in U : U \ {x} \in Q PROVE U \in Q
  <2>1. CASE U = {}
    BY <1>4, <2>1
  <2>2. CASE U # {}
    <3>1. PICK x \in U : TRUE
      BY <2>2
    <3> DEFINE V == U \ {x}
    <3>2. V \in SUBSET S /\ Cardinality(U) = Cardinality(V) + 1
      BY <1>1, FS_RemoveElement
    <3>3. /\ F(U) = f[x] + F(V) /\ G(U) = g[x] + G(V)
          /\ G(V) = F(V) + Cardinality(V)
      BY <1>3, <1>5
    <3> HIDE DEF V
    <3>4. F(V) \in Int /\ Cardinality(V) \in Int /\ f[x] \in Int /\ g[x] = f[x] + 1
      BY <1>1, <1>2, <3>2
    <3>5. G(U) = F(U) + Cardinality(U)
      BY <3>2, <3>3, <3>4
    <3> QED
      BY <3>5
  <2> QED
    BY <2>1, <2>2
<1>6. S \in Q
  <2> HIDE DEF Q
  <2>1. \A U \in SUBSET S : U \in Q
    BY <1>5, SubsetInduction
  <2> QED
    BY <2>1
<1> QED
  BY <1>6 DEF F, G

(* A sum of zeros.                                                             *)
LEMMA SumOfZero ==
  ASSUME NEW S, IsFiniteSet(S), NEW f, \A x \in S : f[x] = 0
  PROVE  SumFunctionOnSet(f, S) = 0
<1> DEFINE Q == {U \in SUBSET S : SumFunctionOnSet(f, U) = 0}
<1>1. \A U \in SUBSET S : IsFiniteSet(U) /\ \A y \in U : f[y] \in Int /\ f[y] = 0
  BY FS_Subset
<1>2. ASSUME NEW U \in SUBSET S, \A x \in U : U \ {x} \in Q PROVE U \in Q
  <2>1. CASE U = {}
    <3>1. SumFunctionOnSet(f, {}) = 0
      BY <1>1, SumOfChosen
    <3> QED
      BY <2>1, <3>1
  <2>2. CASE U # {}
    <3>1. PICK x \in U : TRUE
      BY <2>2
    <3>2. SumFunctionOnSet(f, U) = f[x] + SumFunctionOnSet(f, U \ {x})
      BY <1>1, SumStep
    <3> QED
      BY <1>1, <1>2, <3>2
  <2> QED
    BY <2>1, <2>2
<1>3. S \in Q
  <2> HIDE DEF Q
  <2>1. \A U \in SUBSET S : U \in Q
    BY <1>2, SubsetInduction
  <2> QED
    BY <2>1
<1> QED
  BY <1>3

(* The values of a function on a finite set are finitely many.                 *)
LEMMA ImageFinite ==
  ASSUME NEW S, IsFiniteSet(S), NEW f
  PROVE  IsFiniteSet({f[x] : x \in S})
<1> DEFINE Q == {U \in SUBSET S : IsFiniteSet({f[x] : x \in U})}
<1>1. ASSUME NEW U \in SUBSET S, \A x \in U : U \ {x} \in Q PROVE U \in Q
  <2>1. CASE U = {}
    <3>1. {f[x] : x \in U} = {}
      BY <2>1
    <3> QED
      BY <3>1, FS_EmptySet
  <2>2. CASE U # {}
    <3>1. PICK y \in U : TRUE
      BY <2>2
    <3>2. IsFiniteSet({f[x] : x \in U \ {y}})
      BY <1>1
    <3>3. {f[x] : x \in U} = {f[x] : x \in U \ {y}} \cup {f[y]}
      OBVIOUS
    <3>4. IsFiniteSet({f[x] : x \in U \ {y}} \cup {f[y]})
      BY <3>2, FS_AddElement
    <3> QED
      BY <3>3, <3>4
  <2> QED
    BY <2>1, <2>2
<1>2. S \in Q
  <2> HIDE DEF Q
  <2>1. \A U \in SUBSET S : U \in Q
    BY <1>1, SubsetInduction
  <2> QED
    BY <2>1
<1> QED
  BY <1>2

=============================================================================
