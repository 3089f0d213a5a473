-------------------- MODULE EmerCircularFileCells_proofs ---------------------
(* What the operators of EmerCircularFile do with cells: which elements are   *)
(* read from cells that hold their records, and what is left of them when the *)
(* file is cut short, written to, wrapped round, or partly zeroed.            *)
EXTENDS EmerCircularFile, RecursionFacts, SequenceTheorems

-----------------------------------------------------------------------------
(* Sequences, and the room that elements take *)

Element == (0..MaxElements) \X (Nat \ {0})

First(s, k) == SubSeq(s, 1, k)
Rest(s, k)  == SubSeq(s, k + 1, Len(s))

\* A function on 1..n is a sequence.
LEMMA FunctionIsSeq ==
  ASSUME NEW S, NEW n \in Nat, NEW f \in [1..n -> S]
  PROVE  f \in Seq(S) /\ Len(f) = n
<1>1. f \in Seq(S)
  BY SeqDef
<1> QED
  BY <1>1, LenProperties

\* The first k elements of a sequence.
LEMMA FirstFacts ==
  ASSUME NEW S, NEW s \in Seq(S), NEW k \in 0..Len(s)
  PROVE  /\ First(s, k) \in Seq(S)
         /\ Len(First(s, k)) = k
         /\ \A i \in 1..k : First(s, k)[i] = s[i]
<1>1. \A i \in 1..k : s[i] \in S
  BY ElementOfSeq
<1> QED
  BY <1>1, SubSeqProperties DEF First

\* The elements after the first k.
LEMMA RestFacts ==
  ASSUME NEW S, NEW s \in Seq(S), NEW k \in 0..Len(s)
  PROVE  /\ Rest(s, k) \in Seq(S)
         /\ Len(Rest(s, k)) = Len(s) - k
         /\ \A i \in 1..Len(s) - k : Rest(s, k)[i] = s[k + i]
<1>1. \A i \in k + 1..Len(s) : s[i] \in S
  BY ElementOfSeq
<1>2. Len(s) \in Nat
  BY LenProperties
<1> QED
  BY <1>1, <1>2, SubSeqProperties DEF Rest

\* The first elements of the first elements are first elements.
LEMMA FirstOfFirst ==
  ASSUME NEW S, NEW s \in Seq(S), NEW k \in 0..Len(s), NEW j \in 0..k
  PROVE  First(First(s, k), j) = First(s, j)
<1>1. /\ First(s, k) \in Seq(S) /\ Len(First(s, k)) = k
      /\ \A i \in 1..k : First(s, k)[i] = s[i]
  BY FirstFacts
<1>2. j \in 0..Len(s) /\ j \in 0..Len(First(s, k))
  BY <1>1, LenProperties
<1>3. /\ First(s, j) \in Seq(S) /\ Len(First(s, j)) = j
      /\ \A i \in 1..j : First(s, j)[i] = s[i]
  BY <1>2, FirstFacts
<1>4. /\ First(First(s, k), j) \in Seq(S) /\ Len(First(First(s, k), j)) = j
      /\ \A i \in 1..j : First(First(s, k), j)[i] = First(s, k)[i]
  BY <1>1, <1>2, FirstFacts
<1>5. \A i \in 1..j : First(First(s, k), j)[i] = First(s, j)[i]
  BY <1>1, <1>3, <1>4
<1> QED
  BY <1>3, <1>4, <1>5, SeqEqual

\* All of a sequence, and none of it.
LEMMA FirstAll ==
  ASSUME NEW S, NEW s \in Seq(S)
  PROVE  First(s, Len(s)) = s /\ First(s, 0) = << >> /\ Rest(s, 0) = s
<1>1. Len(s) \in Nat
  BY LenProperties
<1>2. First(s, 0) = << >>
  BY SubSeqEmpty DEF First
<1> QED
  BY <1>1, <1>2, SubSeqFull DEF First, Rest

\* The first elements and the rest make up the sequence.
LEMMA FirstThenRest ==
  ASSUME NEW S, NEW s \in Seq(S), NEW k \in 0..Len(s)
  PROVE  First(s, k) \o Rest(s, k) = s
<1>1. /\ Len(s) \in Nat /\ 1 \in 1..Len(s) + 1 /\ k \in 1 - 1..Len(s)
      /\ Len(s) \in k..Len(s)
  BY LenProperties
<1>2. SubSeq(s, 1, k) \o SubSeq(s, k + 1, Len(s)) = SubSeq(s, 1, Len(s))
  BY <1>1, ConcatAdjacentSubSeq
<1> QED
  BY <1>2, SubSeqFull DEF First, Rest

\* What of a concatenation comes from which sequence.
LEMMA FirstOfConcat ==
  ASSUME NEW S, NEW s \in Seq(S), NEW t \in Seq(S), NEW k \in 0..Len(s)
  PROVE  /\ First(s \o t, k) = First(s, k)
         /\ First(s \o t, Len(s)) = s
         /\ Rest(s \o t, Len(s)) = t
<1>1. /\ s \o t \in Seq(S) /\ Len(s \o t) = Len(s) + Len(t)
      /\ Len(s) \in Nat /\ Len(t) \in Nat
      /\ \A i \in 1..Len(s) : (s \o t)[i] = s[i]
      /\ \A i \in 1..Len(t) : (s \o t)[Len(s) + i] = t[i]
  BY ConcatProperties, LenProperties
<1>2. ASSUME NEW j \in 0..Len(s) PROVE First(s \o t, j) = First(s, j)
  <2>1. j \in 0..Len(s \o t)
    BY <1>1
  <2>2. /\ First(s, j) \in Seq(S) /\ Len(First(s, j)) = j
        /\ \A i \in 1..j : First(s, j)[i] = s[i]
    BY FirstFacts
  <2>3. /\ First(s \o t, j) \in Seq(S) /\ Len(First(s \o t, j)) = j
        /\ \A i \in 1..j : First(s \o t, j)[i] = (s \o t)[i]
    BY <1>1, <2>1, FirstFacts
  <2>4. \A i \in 1..j : First(s \o t, j)[i] = First(s, j)[i]
    BY <1>1, <2>2, <2>3
  <2> QED
    BY <2>2, <2>3, <2>4, SeqEqual
<1>3. First(s \o t, Len(s)) = s
  BY <1>1, <1>2, FirstAll
<1>4. Rest(s \o t, Len(s)) = t
  <2>1. Len(s) \in 0..Len(s \o t)
    BY <1>1
  <2>2. /\ Rest(s \o t, Len(s)) \in Seq(S)
        /\ Len(Rest(s \o t, Len(s))) = Len(s \o t) - Len(s)
        /\ \A i \in 1..Len(s \o t) - Len(s) : Rest(s \o t, Len(s))[i] = (s \o t)[Len(s) + i]
    BY <1>1, <2>1, RestFacts
  <2>3. Len(Rest(s \o t, Len(s))) = Len(t)
    BY <1>1, <2>2
  <2>4. \A i \in 1..Len(Rest(s \o t, Len(s))) : Rest(s \o t, Len(s))[i] = t[i]
    BY <1>1, <2>2, <2>3
  <2> QED
    BY <2>2, <2>3, <2>4, SeqEqual
<1> QED
  BY <1>2, <1>3, <1>4

-----------------------------------------------------------------------------
(* Totals *)

Total(elems, h) == SumFunction([i \in DOMAIN elems |-> h + elems[i][2]])

\* Elements of the same lengths take the same room.
LEMMA SumOfEqual ==
  ASSUME NEW elems \in Seq(Element), NEW other \in Seq(Element), NEW h \in Nat,
         Len(other) = Len(elems), \A i \in 1..Len(elems) : other[i][2] = elems[i][2]
  PROVE  Total(other, h) = Total(elems, h)
<1>1. DOMAIN elems = 1..Len(elems) /\ DOMAIN other = 1..Len(elems) /\ Len(elems) \in Nat
  BY LenProperties
<1>2. \A i \in 1..Len(elems) : elems[i][2] \in Nat /\ elems[i] \in Element
  BY ElementOfSeq DEF Element
<1>3. [i \in DOMAIN elems |-> h + elems[i][2]] = [i \in DOMAIN other |-> h + other[i][2]]
  BY <1>1
<1> QED
  BY <1>3 DEF Total

\* The room that elements take, one after another.
LEMMA TotalOfFirst ==
  ASSUME NEW elems \in Seq(Element), NEW h \in Nat
  PROVE  /\ Total(First(elems, 0), h) = 0
         /\ \A k \in 0..Len(elems) : Total(First(elems, k), h) \in Int
         /\ \A k \in 1..Len(elems) :
              Total(First(elems, k), h)
                = Total(First(elems, k - 1), h) + (h + elems[k][2])
<1> DEFINE F(k) == [i \in 1..k |-> h + First(elems, k)[i][2]]
<1>0. Len(elems) \in Nat
  BY LenProperties
<1>1. \A i \in 1..Len(elems) : elems[i] \in Element /\ elems[i][2] \in Nat
  BY ElementOfSeq DEF Element
<1>2. ASSUME NEW k \in 0..Len(elems)
      PROVE  /\ Total(First(elems, k), h) = SumFunctionOnSet(F(k), 1..k)
             /\ \A i \in 1..k : F(k)[i] = h + elems[i][2] /\ h + elems[i][2] \in Int
             /\ IsFiniteSet(1..k)
  <2>1. /\ First(elems, k) \in Seq(Element) /\ Len(First(elems, k)) = k
        /\ \A i \in 1..k : First(elems, k)[i] = elems[i]
    BY FirstFacts
  <2>2. DOMAIN First(elems, k) = 1..k
    BY <2>1, LenProperties
  <2>3. DOMAIN F(k) = 1..k
    OBVIOUS
  <2>4. Total(First(elems, k), h) = SumFunctionOnSet(F(k), 1..k)
    BY <2>2, <2>3 DEF Total, SumFunction
  <2>5. \A i \in 1..k : F(k)[i] = h + elems[i][2] /\ h + elems[i][2] \in Int
    BY <1>0, <1>1, <2>1
  <2>6. IsFiniteSet(1..k)
    BY FS_Interval
  <2> QED
    BY <2>4, <2>5, <2>6
<1> HIDE DEF F
<1>3. ASSUME NEW k \in 0..Len(elems)
      PROVE  Total(First(elems, k), h) \in Int
  <2>1. \A i \in 1..k : F(k)[i] \in Int
    BY <1>2
  <2> QED
    BY <1>2, <2>1, SumType
<1>4. Total(First(elems, 0), h) = 0
  <2>1. 0 \in 0..Len(elems) /\ 1..0 = {} /\ \A i \in {} : F(0)[i] \in Int
    BY <1>0
  <2>2. Total(First(elems, 0), h) = SumFunctionOnSet(F(0), {})
    BY <1>2, <2>1
  <2>3. SumFunctionOnSet(F(0), {}) = 0
    BY <2>1, FS_EmptySet, SumOfChosen
  <2> QED
    BY <2>2, <2>3
<1>5. ASSUME NEW k \in 1..Len(elems)
      PROVE  Total(First(elems, k), h)
               = Total(First(elems, k - 1), h) + (h + elems[k][2])
  <2>1. k \in 0..Len(elems) /\ k - 1 \in 0..Len(elems) /\ k \in 1..k
    BY <1>0
  <2> DEFINE j == k - 1
  <2>2. j \in 0..Len(elems) /\ (1..k) \ {k} = 1..j /\ \A i \in 1..j : i \in 1..k
    BY <2>1
  <2> HIDE DEF j
  <2>3. /\ \A i \in 1..k : F(k)[i] \in Int /\ F(k)[i] = h + elems[i][2]
        /\ \A i \in 1..j : F(j)[i] \in Int /\ F(k)[i] = F(j)[i]
        /\ IsFiniteSet(1..k) /\ IsFiniteSet(1..j)
    BY <1>2, <2>1, <2>2
  <2> DEFINE f == F(k)
             S == 1..k
  <2>4. SumFunctionOnSet(f, S) = f[k] + SumFunctionOnSet(f, S \ {k})
    <3>1. IsFiniteSet(S) /\ k \in S /\ \A i \in S : f[i] \in Int
      BY <2>1, <2>3
    <3> HIDE DEF f, S
    <3> QED
      BY <3>1, SumStep
  <2>5. SumFunctionOnSet(F(k), 1..j) = SumFunctionOnSet(F(j), 1..j)
    BY <2>3, SumCongruent
  <2>6. Total(First(elems, k), h) = (h + elems[k][2]) + Total(First(elems, j), h)
    BY <1>2, <2>1, <2>2, <2>3, <2>4, <2>5
  <2>7. h + elems[k][2] \in Int /\ Total(First(elems, j), h) \in Int
    BY <1>1, <1>3, <2>2
  <2> QED
    BY <2>6, <2>7 DEF j
<1> QED
  BY <1>3, <1>4, <1>5

\* More elements take more room, each what it costs.
LEMMA TotalGrows ==
  ASSUME NEW elems \in Seq(Element), NEW h \in Nat
  PROVE  /\ \A k \in 0..Len(elems) : /\ Total(First(elems, k), h) \in Nat
                                     /\ k <= Total(First(elems, k), h)
         /\ \A j, k \in 0..Len(elems) :
              /\ j < k => Total(First(elems, j), h) + (h + elems[j + 1][2])
                           <= Total(First(elems, k), h)
              /\ j <= k => Total(First(elems, j), h) <= Total(First(elems, k), h)
<1> DEFINE T(k) == Total(First(elems, k), h)
           n == Len(elems)
           Q == {k \in Nat : k <= n =>
                   /\ T(k) \in Nat /\ k <= T(k)
                   /\ \A j \in 0..k - 1 : T(j) + (h + elems[j + 1][2]) <= T(k)
                   /\ \A j \in 0..k : T(j) <= T(k)}
<1>1. n \in Nat
  BY LenProperties
<1>2. /\ T(0) = 0
      /\ \A k \in 0..n : T(k) \in Int
      /\ \A k \in 1..n : T(k) = T(k - 1) + (h + elems[k][2])
  BY TotalOfFirst
<1>3. \A k \in 1..n : elems[k][2] \in Nat /\ elems[k][2] >= 1
  BY ElementOfSeq DEF Element
<1> HIDE DEF T, n
<1>4. 0 \in Q
  BY <1>2
<1>5. ASSUME NEW k \in Nat, k \in Q PROVE k + 1 \in Q
  <2> DEFINE m == k + 1
  <2> SUFFICES ASSUME m <= n
               PROVE  /\ T(m) \in Nat /\ m <= T(m)
                      /\ \A j \in 0..m - 1 : T(j) + (h + elems[j + 1][2]) <= T(m)
                      /\ \A j \in 0..m : T(j) <= T(m)
    OBVIOUS
  <2>1. m \in 1..n /\ m - 1 = k /\ k <= n /\ k \in 0..n
    BY <1>1
  <2>2. T(m) = T(k) + (h + elems[m][2])
    BY <1>2, <2>1
  <2>3. elems[m][2] \in Nat /\ elems[m][2] >= 1
    BY <1>3, <2>1
  <2>4. /\ T(k) \in Nat /\ k <= T(k)
        /\ \A j \in 0..k - 1 : T(j) + (h + elems[j + 1][2]) <= T(k)
        /\ \A j \in 0..k : T(j) <= T(k)
    BY <1>5, <2>1
  <2>5. T(m) \in Nat /\ m <= T(m) /\ T(k) <= T(m)
    BY <2>2, <2>3, <2>4
  <2>6. ASSUME NEW j \in 0..m - 1 PROVE T(j) + (h + elems[j + 1][2]) <= T(m)
    <3>1. CASE j = k
      BY <2>2, <2>5, <3>1
    <3>2. CASE j # k
      <4>1. j \in 0..k - 1 /\ j \in 0..n /\ j + 1 \in 1..n
        BY <1>1, <2>1, <3>2
      <4>2. T(j) \in Int /\ elems[j + 1][2] \in Nat /\ T(j) + (h + elems[j + 1][2]) <= T(k)
        BY <1>2, <1>3, <2>4, <4>1
      <4> QED
        BY <2>4, <2>5, <4>2, SMTT(40)
    <3> QED
      BY <3>1, <3>2
  <2>7. ASSUME NEW j \in 0..m PROVE T(j) <= T(m)
    <3>1. CASE j = m
      BY <2>5, <3>1
    <3>2. CASE j # m
      <4>1. j \in 0..k /\ j \in 0..n
        BY <1>1, <2>1, <3>2
      <4>2. T(j) \in Int /\ T(j) <= T(k)
        BY <1>2, <2>4, <4>1
      <4> QED
        BY <2>4, <2>5, <4>2
    <3> QED
      BY <3>1, <3>2
  <2> QED
    BY <2>5, <2>6, <2>7
<1>6. Nat \subseteq Q
  <2> HIDE DEF Q
  <2> QED
    BY <1>4, <1>5, NatSetInduction
<1>7. ASSUME NEW k \in 0..n
      PROVE  /\ T(k) \in Nat /\ k <= T(k)
             /\ \A j \in 0..n : j < k => T(j) + (h + elems[j + 1][2]) <= T(k)
             /\ \A j \in 0..n : j <= k => T(j) <= T(k)
  BY <1>1, <1>6, SMTT(40)
<1> QED
  BY <1>7 DEF T, n

\* The room that the elements of a concatenation take.
LEMMA TotalOfConcat ==
  ASSUME NEW s \in Seq(Element), NEW t \in Seq(Element), NEW h \in Nat
  PROVE  /\ \A k \in 0..Len(t) :
              Total(First(s \o t, Len(s) + k), h) = Total(s, h) + Total(First(t, k), h)
         /\ Total(s \o t, h) = Total(s, h) + Total(t, h)
<1> DEFINE u == s \o t
           m == Len(s)
           n == Len(t)
           T(k) == Total(First(u, m + k), h)
           Q == {k \in Nat : k <= n => T(k) = Total(s, h) + Total(First(t, k), h)}
<1>1. /\ u \in Seq(Element) /\ Len(u) = m + n /\ m \in Nat /\ n \in Nat
      /\ \A i \in 1..n : u[m + i] = t[i]
  BY ConcatProperties, LenProperties
<1>2. First(u, m) = s /\ First(s, m) = s
  BY FirstOfConcat, FirstAll, LenProperties
<1>3. /\ Total(First(t, 0), h) = 0
      /\ \A k \in 0..n : Total(First(t, k), h) \in Int
      /\ \A k \in 1..n : Total(First(t, k), h) = Total(First(t, k - 1), h) + (h + t[k][2])
  BY TotalOfFirst
<1>4. Total(s, h) \in Int
  BY <1>1, <1>2, TotalOfFirst
<1>5. \A k \in 1..Len(u) : Total(First(u, k), h) = Total(First(u, k - 1), h) + (h + u[k][2])
  BY <1>1, TotalOfFirst
<1>6. \A k \in 1..n : t[k][2] \in Nat
  BY ElementOfSeq DEF Element
<1> HIDE DEF u, m, n
<1>7. 0 \in Q
  BY <1>1, <1>2, <1>3, <1>4
<1>8. ASSUME NEW k \in Nat, k \in Q PROVE k + 1 \in Q
  <2> SUFFICES ASSUME k + 1 <= n
               PROVE  T(k + 1) = Total(s, h) + Total(First(t, k + 1), h)
    OBVIOUS
  <2> DEFINE j == k + 1
             i == m + j
  <2>1. /\ j \in 1..n /\ i \in 1..Len(u) /\ j - 1 = k /\ i - 1 = m + k /\ k <= n
        /\ k \in 0..n
    BY <1>1
  <2>2. T(k) = Total(s, h) + Total(First(t, k), h)
    BY <1>8, <2>1
  <2>3. u[i] = t[j] /\ t[j][2] \in Nat
    BY <1>1, <1>6, <2>1
  <2>4. Total(First(u, i), h) = Total(First(u, i - 1), h) + (h + u[i][2])
    <3> HIDE DEF i
    <3> QED
      BY <1>5, <2>1
  <2>5. Total(First(t, j), h) = Total(First(t, j - 1), h) + (h + t[j][2])
    <3> HIDE DEF j
    <3> QED
      BY <1>3, <2>1
  <2>6. T(j) = T(k) + (h + t[j][2])
    BY <2>1, <2>3, <2>4
  <2>7. Total(First(t, j), h) = Total(First(t, k), h) + (h + t[j][2])
    BY <2>1, <2>5
  <2>8. Total(First(t, k), h) \in Int
    BY <1>3, <2>1
  <2>9. \A a, b, c \in Int : (a + b) + c = a + (b + c)
    OBVIOUS
  <2>10. T(j) = Total(s, h) + (Total(First(t, k), h) + (h + t[j][2]))
    BY <1>4, <2>2, <2>3, <2>6, <2>8, <2>9
  <2> QED
    BY <2>7, <2>10
<1>9. Nat \subseteq Q
  <2> HIDE DEF Q
  <2> QED
    BY <1>7, <1>8, NatSetInduction
<1>10. \A k \in 0..n : T(k) = Total(s, h) + Total(First(t, k), h)
  BY <1>1, <1>9
<1>11. Total(u, h) = Total(s, h) + Total(t, h)
  <2>1. First(u, m + n) = u /\ First(t, n) = t
    BY <1>1, FirstAll DEF n
  <2> QED
    BY <1>1, <1>10, <2>1
<1> QED
  BY <1>10, <1>11 DEF u, m, n

-----------------------------------------------------------------------------
(* Records in cells *)

\* The n cells after the first a.
Part(cells, a, n) == SubSeq(cells, a + 1, a + n)

\* The n cells after the first b of d are those after the first a of c.
Agree(d, b, c, a, n) == \A x \in 1..n : d[b + x] = c[a + x]

LaidAt(cells, base, elems) ==
  /\ base + Total(elems, HeaderCells) <= Len(cells)
  /\ \A i \in 1..Len(elems) :
       LET at == base + Total(First(elems, i - 1), HeaderCells)
           n  == elems[i][2]
       IN /\ Part(cells, at, HeaderCells) = Header(n)
          /\ ElementIn(Part(cells, at + HeaderCells, n)) = elems[i]

\* The cells of a header are cells.
LEMMA ZeroIsCell == Zero \in Cell /\ \A n \in Nat : <<0, n>> \in Cell
BY CircularFileAssumption DEF Zero, Cell

\* Part of some cells.
LEMMA PartFacts ==
  ASSUME NEW S, NEW c \in Seq(S), NEW a \in Nat, NEW n \in Nat, a + n <= Len(c)
  PROVE  /\ Part(c, a, n) \in Seq(S)
         /\ Len(Part(c, a, n)) = n
         /\ \A x \in 1..n : Part(c, a, n)[x] = c[a + x]
<1>1. Len(c) \in Nat
  BY LenProperties
<1>2. \A i \in a + 1..a + n : c[i] \in S
  BY <1>1, ElementOfSeq
<1>3. /\ SubSeq(c, a + 1, a + n) \in Seq(S)
      /\ Len(SubSeq(c, a + 1, a + n)) = IF a + 1 <= a + n THEN (a + n) - (a + 1) + 1 ELSE 0
      /\ \A x \in 1..(a + n) - (a + 1) + 1 : SubSeq(c, a + 1, a + n)[x] = c[(a + 1) + x - 1]
  BY <1>2, SubSeqProperties
<1> QED
  BY <1>3 DEF Part

\* The same, for use where the provers do not see through the sum.
IsPart(p, c, a, n) == \A x \in 1..n : p[x] = c[a + x]

\* The same, with the values as a fact of their own.
LEMMA PartValues ==
  ASSUME NEW S, NEW c \in Seq(S), NEW a \in Nat, NEW n \in Nat, a + n <= Len(c)
  PROVE  /\ Part(c, a, n) \in Seq(S) /\ Len(Part(c, a, n)) = n
         /\ IsPart(Part(c, a, n), c, a, n)
BY PartFacts DEF IsPart

\* Parts are the same where the cells are.
LEMMA PartSame ==
  ASSUME NEW S, NEW c \in Seq(S), NEW d \in Seq(S), NEW a \in Nat, NEW b \in Nat,
         NEW n \in Nat, a + n <= Len(c), b + n <= Len(d), Agree(d, b, c, a, n)
  PROVE  Part(d, b, n) = Part(c, a, n)
<1>1. Part(c, a, n) \in Seq(S) /\ Len(Part(c, a, n)) = n
      /\ \A x \in 1..n : Part(c, a, n)[x] = c[a + x]
  BY PartFacts
<1>2. Part(d, b, n) \in Seq(S) /\ Len(Part(d, b, n)) = n
      /\ \A x \in 1..n : Part(d, b, n)[x] = d[b + x]
  BY PartFacts
<1>3. \A x \in 1..Len(Part(d, b, n)) : Part(d, b, n)[x] = Part(c, a, n)[x]
  BY <1>1, <1>2 DEF Agree
<1> QED
  BY <1>1, <1>2, <1>3, SeqEqual

\* Where a record of a sequence begins, and that it ends where the next begins.
LEMMA RecordPlace ==
  ASSUME NEW s \in Seq(Element), NEW i \in 1..Len(s)
  PROVE  /\ Total(First(s, i - 1), HeaderCells) \in Nat
         /\ s[i] \in Element /\ s[i][2] \in Nat \ {0} /\ i - 1 \in 0..Len(s)
         /\ Total(s, HeaderCells) \in Nat
         /\ Total(First(s, i), HeaderCells)
              = Total(First(s, i - 1), HeaderCells) + (HeaderCells + s[i][2])
         /\ Total(First(s, i - 1), HeaderCells) + (HeaderCells + s[i][2])
              <= Total(s, HeaderCells)
<1>1. Len(s) \in Nat /\ First(s, Len(s)) = s /\ HeaderCells \in Nat
  BY LenProperties, FirstAll, CircularFileAssumption
<1>2. i - 1 \in 0..Len(s) /\ Len(s) \in 0..Len(s) /\ i - 1 < Len(s) /\ (i - 1) + 1 = i
  BY <1>1
<1>3. s[i] \in Element /\ s[i][2] \in Nat \ {0}
  BY ElementOfSeq DEF Element
<1>4. Total(First(s, i), HeaderCells)
              = Total(First(s, i - 1), HeaderCells) + (HeaderCells + s[i][2])
  BY <1>1, TotalOfFirst
<1>5. /\ Total(First(s, i - 1), HeaderCells) \in Nat
      /\ Total(First(s, Len(s)), HeaderCells) \in Nat
      /\ Total(First(s, i - 1), HeaderCells) + (HeaderCells + s[(i - 1) + 1][2])
              <= Total(First(s, Len(s)), HeaderCells)
  BY <1>1, <1>2, TotalGrows
<1> QED
  BY <1>1, <1>2, <1>3, <1>4, <1>5

\* The room that elements take is a number of cells.
LEMMA TotalType ==
  ASSUME NEW s \in Seq(Element)
  PROVE  Total(s, HeaderCells) \in Nat /\ Len(s) \in Nat /\ HeaderCells \in Nat \ {0}
<1>1. Len(s) \in 0..Len(s) /\ Len(s) \in Nat /\ First(s, Len(s)) = s /\ HeaderCells \in Nat
  BY LenProperties, FirstAll, CircularFileAssumption
<1> QED
  BY <1>1, TotalGrows, CircularFileAssumption

\* Records are the same where the cells are the same.
LEMMA LaidMoves ==
  ASSUME NEW c \in Seq(Cell), NEW d \in Seq(Cell), NEW a \in Nat, NEW b \in Nat,
         NEW s \in Seq(Element), LaidAt(c, a, s), b + Total(s, HeaderCells) <= Len(d),
         Agree(d, b, c, a, Total(s, HeaderCells))
  PROVE  LaidAt(d, b, s)
<1>1. ASSUME NEW i \in 1..Len(s)
      PROVE  LET at == b + Total(First(s, i - 1), HeaderCells)
                 n  == s[i][2]
             IN /\ Part(d, at, HeaderCells) = Header(n)
                /\ ElementIn(Part(d, at + HeaderCells, n)) = s[i]
  <2> DEFINE p == Total(First(s, i - 1), HeaderCells)
             n == s[i][2]
             t == Total(s, HeaderCells)
  <2>1. /\ p \in Nat /\ n \in Nat /\ t \in Nat /\ p + (HeaderCells + n) <= t
        /\ HeaderCells \in Nat
    BY RecordPlace, CircularFileAssumption
  <2>2. a + t <= Len(c) /\ b + t <= Len(d) /\ Len(c) \in Nat /\ Len(d) \in Nat
    BY LenProperties DEF LaidAt
  <2> DEFINE e == a + p
             f == b + p
             g == e + HeaderCells
             h == f + HeaderCells
  <2>3. /\ Part(c, e, HeaderCells) = Header(n)
        /\ ElementIn(Part(c, g, n)) = s[i]
    BY DEF LaidAt
  <2>4. \A x \in 1..t : d[b + x] = c[a + x]
    BY DEF Agree
  <2> HIDE DEF p, n, t
  <2>5. /\ e \in Nat /\ f \in Nat /\ e + HeaderCells <= Len(c) /\ f + HeaderCells <= Len(d)
        /\ g \in Nat /\ h \in Nat /\ g + n <= Len(c) /\ h + n <= Len(d)
    BY <2>1, <2>2
  <2>6. /\ \A x \in 1..HeaderCells : p + x \in 1..t /\ b + (p + x) = f + x /\ a + (p + x) = e + x
        /\ \A x \in 1..n : /\ p + HeaderCells + x \in 1..t
                           /\ b + (p + HeaderCells + x) = h + x
                           /\ a + (p + HeaderCells + x) = g + x
    BY <2>1
  <2> HIDE DEF e, f, g, h
  <2>7. Agree(d, f, c, e, HeaderCells) /\ Agree(d, h, c, g, n)
    BY <2>4, <2>6 DEF Agree
  <2>8. Part(d, f, HeaderCells) = Part(c, e, HeaderCells)
    BY <2>1, <2>5, <2>7, PartSame, SMTT(40)
  <2>9. Part(d, h, n) = Part(c, g, n)
    BY <2>1, <2>5, <2>7, PartSame, SMTT(40)
  <2>10. /\ Part(d, f, HeaderCells) = Header(n)
         /\ ElementIn(Part(d, h, n)) = s[i]
    BY <2>3, <2>8, <2>9
  <2> QED
    BY <2>10 DEF f, h, p, n
<1> QED
  BY <1>1 DEF LaidAt

\* Records are laid one sequence of elements behind another.
LEMMA LaidConcat ==
  ASSUME NEW c \in Seq(Cell), NEW a \in Nat, NEW s \in Seq(Element), NEW t \in Seq(Element)
  PROVE  LaidAt(c, a, s \o t)
           <=> LaidAt(c, a, s) /\ LaidAt(c, a + Total(s, HeaderCells), t)
<1> DEFINE u == s \o t
           OK(el, base, i) ==
             LET at == base + Total(First(el, i - 1), HeaderCells)
                 n  == el[i][2]
             IN /\ Part(c, at, HeaderCells) = Header(n)
                /\ ElementIn(Part(c, at + HeaderCells, n)) = el[i]
           b == a + Total(s, HeaderCells)
<1>1. /\ u \in Seq(Element) /\ Len(u) = Len(s) + Len(t) /\ Len(s) \in Nat /\ Len(t) \in Nat
      /\ \A i \in 1..Len(s) : u[i] = s[i]
      /\ \A i \in 1..Len(t) : u[Len(s) + i] = t[i]
  BY ConcatProperties, LenProperties
<1>2. ASSUME NEW i \in 1..Len(s) PROVE OK(u, a, i) <=> OK(s, a, i)
  <2>1. i - 1 \in 0..Len(s)
    BY <1>1
  <2>2. First(u, i - 1) = First(s, i - 1) /\ u[i] = s[i]
    BY <1>1, <2>1, FirstOfConcat
  <2> QED
    BY <2>2
<1>3. ASSUME NEW i \in 1..Len(t) PROVE OK(u, a, Len(s) + i) <=> OK(t, b, i)
  <2>1. i - 1 \in 0..Len(t) /\ (Len(s) + i) - 1 = Len(s) + (i - 1)
    BY <1>1
  <2>2. Total(First(u, Len(s) + (i - 1)), HeaderCells)
          = Total(s, HeaderCells) + Total(First(t, i - 1), HeaderCells)
    BY <2>1, TotalType, TotalOfConcat
  <2>3. Total(s, HeaderCells) \in Nat /\ Total(First(t, i - 1), HeaderCells) \in Nat
    BY TotalType, RecordPlace
  <2>4. a + Total(First(u, (Len(s) + i) - 1), HeaderCells)
          = b + Total(First(t, i - 1), HeaderCells)
    BY <2>1, <2>2, <2>3
  <2>5. u[Len(s) + i] = t[i]
    BY <1>1
  <2> QED
    BY <2>4, <2>5
<1>4. Total(u, HeaderCells) = Total(s, HeaderCells) + Total(t, HeaderCells)
  BY TotalType, TotalOfConcat
<1>5. Total(s, HeaderCells) \in Nat /\ Total(t, HeaderCells) \in Nat /\ Len(c) \in Nat
  BY TotalType, LenProperties
<1>6. (a + Total(u, HeaderCells) <= Len(c))
        <=> (b + Total(t, HeaderCells) <= Len(c))
  BY <1>4, <1>5
<1>7. b + Total(t, HeaderCells) <= Len(c) => a + Total(s, HeaderCells) <= Len(c)
  BY <1>5
<1>8. LaidAt(c, a, u) <=> /\ a + Total(u, HeaderCells) <= Len(c)
                          /\ \A i \in 1..Len(u) : OK(u, a, i)
  BY DEF LaidAt
<1>9. LaidAt(c, a, s) <=> /\ a + Total(s, HeaderCells) <= Len(c)
                          /\ \A i \in 1..Len(s) : OK(s, a, i)
  BY DEF LaidAt
<1>10. LaidAt(c, b, t) <=> /\ b + Total(t, HeaderCells) <= Len(c)
                           /\ \A i \in 1..Len(t) : OK(t, b, i)
  BY DEF LaidAt
<1> HIDE DEF OK, u, b
<1>11. (\A i \in 1..Len(u) : OK(u, a, i))
         <=> (\A i \in 1..Len(s) : OK(s, a, i)) /\ (\A i \in 1..Len(t) : OK(t, b, i))
  <2>1. \A i \in 1..Len(u) : i \in 1..Len(s) \/ (i - Len(s) \in 1..Len(t)
                                                   /\ Len(s) + (i - Len(s)) = i)
    BY <1>1
  <2>2. \A i \in 1..Len(s) : i \in 1..Len(u)
    BY <1>1
  <2>3. \A i \in 1..Len(t) : Len(s) + i \in 1..Len(u)
    BY <1>1
  <2> QED
    BY <1>2, <1>3, <2>1, <2>2, <2>3
<1> QED
  BY <1>6, <1>7, <1>8, <1>9, <1>10, <1>11 DEF u, b

-----------------------------------------------------------------------------
(* Whole records *)

\* The cells are the records of these elements, up to what was zeroed.
Contents(cells, elems, tainted) ==
  /\ LaidAt(cells, 0, elems)
  /\ IF tainted
     THEN /\ Total(elems, HeaderCells) + HeaderCells <= Len(cells)
          /\ Part(cells, Total(elems, HeaderCells), HeaderCells) = Header(0)
     ELSE Total(elems, HeaderCells) = Len(cells)

\* A header is as long as one, and holds the length it was made of.
LEMMA HeaderFacts ==
  ASSUME NEW n \in Nat
  PROVE  /\ Header(n) \in Seq(Cell) /\ Len(Header(n)) = HeaderCells
         /\ Header(n) # << >> /\ LengthIn(Header(n)) = n
         /\ \A x \in 1..HeaderCells : Header(n)[x] = IF x = 1 THEN <<0, n>> ELSE Zero
<1>1. HeaderCells \in Nat /\ HeaderCells >= 1
  BY CircularFileAssumption
<1>2. Header(n) \in [1..HeaderCells -> Cell]
  BY ZeroIsCell DEF Header
<1>3. Header(n) \in Seq(Cell) /\ Len(Header(n)) = HeaderCells
  BY <1>1, <1>2, FunctionIsSeq
<1>4. \A x \in 1..HeaderCells : Header(n)[x] = IF x = 1 THEN <<0, n>> ELSE Zero
  BY DEF Header
<1>5. Header(n) # << >>
  BY <1>1, <1>3, EmptySeq
<1>6. Header(n)[1] = <<0, n>> /\ \A x \in 2..HeaderCells : Header(n)[x] = Zero
  BY <1>1, <1>4
<1>7. LengthIn(Header(n)) = n
  BY <1>6 DEF LengthIn
<1> QED
  BY <1>3, <1>4, <1>5, <1>7

\* The cells of a record.
LEMMA RecordFacts ==
  ASSUME NEW e \in 1..MaxElements, NEW n \in Nat \ {0}
  PROVE  /\ Record(e, n) \in Seq(Cell) /\ Len(Record(e, n)) = HeaderCells + n
         /\ <<e, n>> \in Element /\ << <<e, n>> >> \in Seq(Element)
         /\ Total(<< <<e, n>> >>, HeaderCells) = HeaderCells + n
         /\ Contents(Record(e, n), << <<e, n>> >>, FALSE)
<1> DEFINE body == [i \in 1..n |-> <<e, i>>]
           s == << <<e, n>> >>
<1>1. MaxElements \in Nat /\ HeaderCells \in Nat \ {0} /\ e \in 0..MaxElements /\ n \in Nat
  BY CircularFileAssumption
<1>2. body \in [1..n -> Cell]
  BY <1>1 DEF Cell
<1>3. body \in Seq(Cell) /\ Len(body) = n /\ \A i \in 1..n : body[i] = <<e, i>>
  BY <1>1, <1>2, FunctionIsSeq
<1>4. Header(n) \in Seq(Cell) /\ Len(Header(n)) = HeaderCells
  BY <1>1, HeaderFacts
<1> DEFINE r == Record(e, n)
<1>5. r = Header(n) \o body
  BY DEF Record
<1> HIDE DEF body, r
<1>6. /\ r \in Seq(Cell) /\ Len(r) = HeaderCells + n
      /\ \A i \in 1..HeaderCells + n :
           r[i] = IF i <= HeaderCells THEN Header(n)[i] ELSE body[i - HeaderCells]
  <2> DEFINE hd == Header(n)
  <2>1. hd \in Seq(Cell) /\ Len(hd) = HeaderCells /\ r = hd \o body
    BY <1>4, <1>5
  <2> HIDE DEF hd
  <2>2. /\ hd \o body \in Seq(Cell) /\ Len(hd \o body) = Len(hd) + Len(body)
        /\ \A i \in 1..Len(hd) + Len(body) :
             (hd \o body)[i] = IF i <= Len(hd) THEN hd[i] ELSE body[i - Len(hd)]
    BY <1>3, <2>1, ConcatProperties
  <2> QED
    BY <1>3, <2>1, <2>2 DEF hd
<1>7. <<e, n>> \in Element
  BY <1>1 DEF Element
<1>8. s \in Seq(Element) /\ Len(s) = 1 /\ s[1] = <<e, n>>
  BY <1>7
<1>9. First(s, 0) = << >> /\ First(s, 1) = s /\ Total(First(s, 0), HeaderCells) = 0
  BY <1>1, <1>8, FirstAll, TotalOfFirst
<1>10. Total(s, HeaderCells) = HeaderCells + n
  <2>1. 1 \in 1..Len(s) /\ 1 - 1 = 0
    BY <1>8
  <2>2. Total(First(s, 1), HeaderCells)
          = Total(First(s, 0), HeaderCells) + (HeaderCells + s[1][2])
    BY <1>1, <1>8, <2>1, TotalOfFirst
  <2> QED
    BY <1>1, <1>8, <1>9, <2>2
<1>11. Part(r, 0, HeaderCells) = Header(n)
  <2>1. /\ Part(r, 0, HeaderCells) \in Seq(Cell) /\ Len(Part(r, 0, HeaderCells)) = HeaderCells
        /\ \A x \in 1..HeaderCells : Part(r, 0, HeaderCells)[x] = r[0 + x]
    BY <1>1, <1>6, PartFacts
  <2>2. \A x \in 1..Len(Part(r, 0, HeaderCells)) : Part(r, 0, HeaderCells)[x] = Header(n)[x]
    BY <1>1, <1>6, <2>1
  <2> QED
    BY <1>4, <2>1, <2>2, SeqEqual
<1>12. Part(r, HeaderCells, n) = body
  <2>1. /\ Part(r, HeaderCells, n) \in Seq(Cell) /\ Len(Part(r, HeaderCells, n)) = n
        /\ \A x \in 1..n : Part(r, HeaderCells, n)[x] = r[HeaderCells + x]
    BY <1>1, <1>6, PartFacts
  <2>2. \A x \in 1..Len(Part(r, HeaderCells, n)) : Part(r, HeaderCells, n)[x] = body[x]
    <3>1. \A x \in 1..n : HeaderCells + x \in 1..HeaderCells + n /\ ~(HeaderCells + x <= HeaderCells)
                          /\ (HeaderCells + x) - HeaderCells = x
      BY <1>1
    <3> QED
      BY <1>6, <2>1, <3>1
  <2> QED
    BY <1>3, <2>1, <2>2, SeqEqual
<1>13. ElementIn(body) = <<e, n>>
  <2>1. body[1][1] = e /\ DOMAIN body = 1..n
    BY <1>1, <1>3, LenProperties
  <2>2. body = [i \in DOMAIN body |-> <<e, i>>]
    BY <2>1 DEF body
  <2> QED
    BY <1>3, <2>1, <2>2 DEF ElementIn
<1>14. LaidAt(r, 0, s)
  <2>1. \A i \in 1..Len(s) : i = 1 /\ First(s, i - 1) = First(s, 0)
    BY <1>8
  <2>2. 0 + HeaderCells = HeaderCells /\ 0 + Total(First(s, 0), HeaderCells) = 0
        /\ 0 + Total(s, HeaderCells) <= Len(r)
    BY <1>1, <1>6, <1>9, <1>10
  <2> HIDE DEF s
  <2>3. s[1][2] = n
    BY <1>8
  <2> QED
    BY <1>8, <1>11, <1>12, <1>13, <2>1, <2>2, <2>3 DEF LaidAt
<1>15. Contents(r, s, FALSE)
  BY <1>6, <1>10, <1>14 DEF Contents
<1> QED
  BY <1>6, <1>7, <1>8, <1>10, <1>15 DEF r

\* No cells hold no element.
LEMMA NoContents ==
  /\ << >> \in Seq(Cell) /\ << >> \in Seq(Element) /\ Total(<< >>, HeaderCells) = 0
  /\ Contents(<< >>, << >>, FALSE)
<1>1. << >> \in Seq(Element) /\ << >> \in Seq(Cell) /\ Len(<< >>) = 0
  BY EmptySeq
<1>2. First(<< >>, 0) = << >>
  BY <1>1, FirstAll
<1>3. Total(<< >>, HeaderCells) = 0
  BY <1>1, <1>2, TotalType, TotalOfFirst
<1> QED
  BY <1>1, <1>3 DEF Contents, LaidAt

\* The contents of cells behind others come behind theirs.
LEMMA ContentsConcat ==
  ASSUME NEW c \in Seq(Cell), NEW d \in Seq(Cell),
         NEW s \in Seq(Element), NEW t \in Seq(Element),
         Contents(c, s, FALSE), Contents(d, t, FALSE)
  PROVE  Contents(c \o d, s \o t, FALSE)
<1> DEFINE v == Total(s, HeaderCells)
           w == Total(t, HeaderCells)
           f == c \o d
<1>1. /\ f \in Seq(Cell) /\ Len(f) = Len(c) + Len(d) /\ Len(c) \in Nat /\ Len(d) \in Nat
      /\ \A i \in 1..Len(c) : f[i] = c[i]
      /\ \A i \in 1..Len(d) : f[Len(c) + i] = d[i]
  BY ConcatProperties, LenProperties
<1>2. v = Len(c) /\ w = Len(d) /\ LaidAt(c, 0, s) /\ LaidAt(d, 0, t)
  BY DEF Contents
<1>3. Agree(f, 0, c, 0, v) /\ Agree(f, v, d, 0, w)
  BY <1>1, <1>2 DEF Agree
<1>4. 0 + v <= Len(f) /\ v + w <= Len(f) /\ v \in Nat /\ 0 + v = v
  BY <1>1, <1>2
<1> HIDE DEF f
<1>5. LaidAt(f, 0, s) /\ LaidAt(f, v, t)
  BY <1>1, <1>2, <1>3, <1>4, LaidMoves
<1>6. LaidAt(f, 0, s \o t)
  BY <1>1, <1>4, <1>5, LaidConcat
<1>7. Total(s \o t, HeaderCells) = v + w
  BY TotalType, TotalOfConcat
<1> QED
  BY <1>1, <1>2, <1>6, <1>7 DEF Contents, f

\* Nothing can be read behind what was zeroed, whatever is appended to it.
LEMMA TaintedConcat ==
  ASSUME NEW c \in Seq(Cell), NEW d \in Seq(Cell), NEW s \in Seq(Element),
         Contents(c, s, TRUE)
  PROVE  Contents(c \o d, s, TRUE)
<1> DEFINE v == Total(s, HeaderCells)
           f == c \o d
<1>1. /\ f \in Seq(Cell) /\ Len(f) = Len(c) + Len(d) /\ Len(c) \in Nat /\ Len(d) \in Nat
      /\ \A i \in 1..Len(c) : f[i] = c[i]
  BY ConcatProperties, LenProperties
<1>2. /\ v + HeaderCells <= Len(c) /\ LaidAt(c, 0, s) /\ v \in Nat /\ HeaderCells \in Nat
      /\ Part(c, v, HeaderCells) = Header(0)
  BY TotalType DEF Contents
<1> HIDE DEF f, v
<1>3. Agree(f, 0, c, 0, v) /\ Agree(f, v, c, v, HeaderCells)
  <2>1. \A x \in 1..v : 0 + x \in 1..Len(c) /\ 0 + x = x
    BY <1>1, <1>2
  <2>2. \A x \in 1..HeaderCells : v + x \in 1..Len(c)
    BY <1>1, <1>2
  <2>3. Agree(f, 0, c, 0, v)
    BY <1>1, <2>1 DEF Agree
  <2>4. Agree(f, v, c, v, HeaderCells)
    BY <1>1, <2>2 DEF Agree
  <2> QED
    BY <2>3, <2>4
<1>4. 0 + v <= Len(f) /\ v + HeaderCells <= Len(f)
  BY <1>1, <1>2
<1>5. LaidAt(f, 0, s)
  BY <1>1, <1>2, <1>3, <1>4, LaidMoves DEF v
<1>6. Part(f, v, HeaderCells) = Part(c, v, HeaderCells)
  BY <1>1, <1>2, <1>3, <1>4, PartSame
<1> QED
  BY <1>2, <1>4, <1>5, <1>6 DEF Contents, f, v

\* The records of a prefix of the elements are a prefix of the cells.
LEMMA ContentsFirst ==
  ASSUME NEW c \in Seq(Cell), NEW s \in Seq(Element), NEW t \in BOOLEAN, Contents(c, s, t),
         NEW k \in 0..Len(s)
  PROVE  /\ Total(First(s, k), HeaderCells) \in 0..Len(c)
         /\ Contents(First(c, Total(First(s, k), HeaderCells)), First(s, k), FALSE)
<1> DEFINE u == First(s, k)
           v == Total(u, HeaderCells)
           d == First(c, v)
<1>1. /\ u \in Seq(Element) /\ Rest(s, k) \in Seq(Element) /\ u \o Rest(s, k) = s
  BY FirstFacts, RestFacts, FirstThenRest
<1>2. LaidAt(c, 0, s)
  BY DEF Contents
<1>3. LaidAt(c, 0, u)
  BY <1>1, <1>2, LaidConcat, ZenonT(60)
<1>4. v \in Nat /\ Len(c) \in Nat
  BY <1>1, TotalType, LenProperties
<1>5. v <= Len(c)
  BY <1>3, <1>4 DEF LaidAt
<1> HIDE DEF u
<1>6. v \in 0..Len(c)
  BY <1>4, <1>5
<1> HIDE DEF v
<1>7. d \in Seq(Cell) /\ Len(d) = v /\ \A i \in 1..v : d[i] = c[i]
  BY <1>6, FirstFacts
<1>8. Agree(d, 0, c, 0, v)
  BY <1>7, <1>4 DEF Agree
<1> HIDE DEF d
<1>9. LaidAt(d, 0, u)
  BY <1>1, <1>3, <1>4, <1>7, <1>8, LaidMoves DEF v
<1> QED
  BY <1>6, <1>7, <1>9 DEF Contents, d, v, u

\* Behind them are those of the others.
LEMMA ContentsRest ==
  ASSUME NEW c \in Seq(Cell), NEW s \in Seq(Element), NEW t \in BOOLEAN, Contents(c, s, t),
         NEW k \in 0..Len(s)
  PROVE  Contents(Rest(c, Total(First(s, k), HeaderCells)), Rest(s, k), t)
<1> DEFINE u == First(s, k)
           r == Rest(s, k)
           v == Total(u, HeaderCells)
           w == Total(r, HeaderCells)
           d == Rest(c, v)
<1>1. /\ u \in Seq(Element) /\ r \in Seq(Element) /\ u \o r = s
  BY FirstFacts, RestFacts, FirstThenRest
<1>2. LaidAt(c, 0, s)
  BY DEF Contents
<1>3. LaidAt(c, 0 + v, r)
  BY <1>1, <1>2, LaidConcat, ZenonT(60)
<1>4. v \in Nat /\ w \in Nat /\ Len(c) \in Nat /\ v \in 0..Len(c) /\ HeaderCells \in Nat
  BY <1>1, TotalType, LenProperties, ContentsFirst
<1> HIDE DEF u, r
<1>5. Total(s, HeaderCells) = v + w
  <2>1. Total(u \o r, HeaderCells) = Total(u, HeaderCells) + Total(r, HeaderCells)
    BY <1>1, <1>4, TotalOfConcat, ZenonT(60)
  <2> QED
    BY <1>1, <2>1
<1> HIDE DEF v, w
<1>6. d \in Seq(Cell) /\ Len(d) = Len(c) - v /\ \A i \in 1..Len(c) - v : d[i] = c[v + i]
  BY <1>4, RestFacts
<1> HIDE DEF d
<1>7. LaidAt(c, v, r) /\ v + w <= Len(c)
  BY <1>3, <1>4 DEF LaidAt, w
<1>8. Agree(d, 0, c, v, w)
  BY <1>4, <1>6, <1>7 DEF Agree
<1>9. LaidAt(d, 0, r)
  <2>1. 0 + w <= Len(d)
    BY <1>4, <1>6, <1>7
  <2> QED
    BY <1>1, <1>4, <1>6, <1>7, <1>8, <2>1, LaidMoves DEF w
<1>10. CASE t
  <2>1. v + w + HeaderCells <= Len(c) /\ Part(c, v + w, HeaderCells) = Header(0)
    BY <1>5, <1>10 DEF Contents
  <2> DEFINE q == v + w
  <2>2. w + HeaderCells <= Len(d) /\ q + HeaderCells <= Len(c) /\ q \in Nat
    BY <1>4, <1>6, <2>1
  <2>3. Agree(d, w, c, q, HeaderCells)
    <3>1. \A x \in 1..HeaderCells : w + x \in 1..Len(c) - v /\ v + (w + x) = q + x
      BY <1>4, <2>2
    <3> HIDE DEF q
    <3> QED
      BY <1>6, <3>1 DEF Agree
  <2> HIDE DEF q
  <2>4. Part(d, w, HeaderCells) = Part(c, q, HeaderCells)
    BY <1>4, <1>6, <2>2, <2>3, PartSame
  <2> QED
    BY <1>9, <1>10, <2>1, <2>2, <2>4 DEF Contents, d, r, u, v, w, q
<1>11. CASE ~t
  <2>1. v + w = Len(c)
    BY <1>5, <1>11 DEF Contents
  <2>2. w = Len(d)
    <3>1. Len(d) = Len(c) - v
      BY <1>6
    <3> QED
      BY <1>4, <2>1, <3>1
  <2> QED
    BY <1>9, <1>11, <2>2 DEF Contents, d, r, u, v, w
<1> QED
  BY <1>10, <1>11

-----------------------------------------------------------------------------
(* The ring *)

\* room cells of the file can be read from a position on.
Geometry(file, max, from, room) ==
  /\ file \in Seq(Cell) /\ max \in Nat /\ from \in Nat /\ room \in Nat
  /\ from < max \/ (from = 0 /\ max = 0)
  /\ room <= max /\ Len(file) <= max
  /\ IF from + room <= max THEN from + room <= Len(file) ELSE Len(file) = max

\* They are these.
RingOf(file, max, from, room) == [i \in 1..room |-> file[After(from, i - 1, max) + 1]]

\* The cells of a ring are cells of the file.
LEMMA RingFacts ==
  ASSUME NEW file, NEW max, NEW from, NEW room, Geometry(file, max, from, room)
  PROVE  /\ RingOf(file, max, from, room) \in Seq(Cell)
         /\ Len(RingOf(file, max, from, room)) = room
         /\ \A i \in 1..room : /\ After(from, i - 1, max) \in Nat
                               /\ After(from, i - 1, max) + 1 \in 1..Len(file)
                               /\ RingOf(file, max, from, room)[i]
                                    = file[After(from, i - 1, max) + 1]
<1>1. /\ file \in Seq(Cell) /\ max \in Nat /\ from \in Nat /\ room \in Nat /\ Len(file) \in Nat
      /\ from < max \/ (from = 0 /\ max = 0)
      /\ room <= max /\ Len(file) <= max
      /\ IF from + room <= max THEN from + room <= Len(file) ELSE Len(file) = max
  BY LenProperties DEF Geometry
<1>2. \A i \in 1..room : /\ After(from, i - 1, max) \in Nat
                         /\ After(from, i - 1, max) + 1 \in 1..Len(file)
  BY <1>1 DEF After
<1>3. \A i \in 1..Len(file) : file[i] \in Cell
  BY <1>1, ElementOfSeq
<1>4. RingOf(file, max, from, room) \in [1..room -> Cell]
  BY <1>2, <1>3 DEF RingOf
<1>5. \A i \in 1..room : RingOf(file, max, from, room)[i] = file[After(from, i - 1, max) + 1]
  BY DEF RingOf
<1> QED
  BY <1>1, <1>2, <1>4, <1>5, FunctionIsSeq

\* Reading goes on where it has ended.
LEMMA PositionFacts ==
  ASSUME NEW file, NEW max, NEW from, NEW room, Geometry(file, max, from, room),
         NEW k \in Nat, NEW n \in Nat, k + n <= room
  PROVE  /\ PositionAfter(file, from, k) \in 0..Len(file)
         /\ PositionAfter(file, PositionAfter(file, from, k), n) = PositionAfter(file, from, k + n)
<1>1. /\ file \in Seq(Cell) /\ max \in Nat /\ from \in Nat /\ room \in Nat /\ Len(file) \in Nat
      /\ from < max \/ (from = 0 /\ max = 0)
      /\ room <= max /\ Len(file) <= max
      /\ IF from + room <= max THEN from + room <= Len(file) ELSE Len(file) = max
  BY LenProperties DEF Geometry
<1> QED
  BY <1>1 DEF PositionAfter

\* A stream on the file reads the cells of the ring.
LEMMA CellsOfRing ==
  ASSUME NEW file, NEW max, NEW from, NEW room, Geometry(file, max, from, room),
         NEW k \in Nat, NEW n \in Nat, k + n <= room
  PROVE  CellsFrom(file, max, PositionAfter(file, from, k), n)
           = Part(RingOf(file, max, from, room), k, n)
<1> DEFINE ring == RingOf(file, max, from, room)
           p == PositionAfter(file, from, k)
           L == Len(file)
<1>1. /\ file \in Seq(Cell) /\ max \in Nat /\ from \in Nat /\ room \in Nat /\ L \in Nat
      /\ from < max \/ (from = 0 /\ max = 0)
      /\ room <= max /\ L <= max
      /\ IF from + room <= max THEN from + room <= L ELSE L = max
  BY LenProperties DEF Geometry
<1>2. p \in 0..L
  BY PositionFacts
<1>3. ring \in Seq(Cell) /\ Len(ring) = room
      /\ \A i \in 1..room : ring[i] = file[After(from, i - 1, max) + 1]
  BY RingFacts, SMTT(40)
<1> HIDE DEF ring
<1>4. \A x \in 1..n : /\ k + x \in 1..room
                      /\ After(from, (k + x) - 1, max) + 1
                           = IF p + x <= L THEN p + x ELSE x - (L - p)
  BY <1>1 DEF After, PositionAfter
<1>5. p + n > L => L = max /\ p + n - max \in 0..L
  BY <1>1 DEF PositionAfter
<1>6. \A x \in 1..n : ring[k + x] = file[IF p + x <= L THEN p + x ELSE x - (L - p)]
  BY <1>3, <1>4
<1> HIDE DEF p
<1>7. Part(ring, k, n) \in Seq(Cell) /\ Len(Part(ring, k, n)) = n
      /\ \A x \in 1..n : Part(ring, k, n)[x] = ring[k + x]
  <2>1. k + n <= Len(ring) /\ ring \in Seq(Cell)
    BY <1>3
  <2> QED
    BY ONLY k \in Nat, n \in Nat, <2>1, PartFacts, SMTT(30)
<1>8. CASE p + n <= L
  <2>1. CellsFrom(file, max, p, n) = Part(file, p, n)
    BY <1>8 DEF CellsFrom, Part
  <2>2. Part(file, p, n) \in Seq(Cell) /\ Len(Part(file, p, n)) = n
        /\ \A x \in 1..n : Part(file, p, n)[x] = file[p + x]
    <3>1. p \in Nat /\ p + n <= Len(file)
      BY <1>1, <1>2, <1>8
    <3>2. file \in Seq(Cell)
      BY <1>1
    <3> HIDE DEF L
    <3> QED
      BY <3>1, <3>2, PartFacts
  <2>3. \A x \in 1..n : p + x <= L
    BY <1>1, <1>2, <1>8
  <2>4. \A x \in 1..n : Part(file, p, n)[x] = Part(ring, k, n)[x]
    BY <1>6, <1>7, <2>2, <2>3
  <2>5. Part(file, p, n) = Part(ring, k, n)
    BY <1>7, <2>2, <2>4, SeqEqual
  <2> QED
    BY <2>1, <2>5 DEF p, ring
<1>9. CASE p + n > L
  <2> DEFINE q == p + n - max
             a == Rest(file, p)
             b == First(file, q)
  <2>1. L = max /\ q \in 0..L /\ Larger(p, L) = max /\ p + n - max <= L /\ ~(p + n <= L)
    BY <1>1, <1>2, <1>5, <1>9 DEF Larger
  <2>2. CellsFrom(file, max, p, n) = a \o b
    BY <2>1 DEF CellsFrom, Rest, First
  <2> HIDE DEF q
  <2>3. a \in Seq(Cell) /\ Len(a) = L - p /\ \A x \in 1..L - p : a[x] = file[p + x]
    BY <1>1, <1>2, RestFacts
  <2>4. b \in Seq(Cell) /\ Len(b) = q /\ \A x \in 1..q : b[x] = file[x]
    BY <1>1, <2>1, FirstFacts
  <2> HIDE DEF a, b
  <2> DEFINE c == a \o b
  <2>5. c \in Seq(Cell) /\ Len(c) = Len(a) + Len(b)
        /\ \A x \in 1..Len(a) + Len(b) : c[x] = IF x <= Len(a) THEN a[x] ELSE b[x - Len(a)]
    BY <2>3, <2>4, ConcatProperties
  <2> HIDE DEF c
  <2>6. (L - p) + q = n /\ \A x \in 1..n : /\ x <= L - p => x \in 1..L - p /\ p + x <= L
                                    /\ ~(x <= L - p) => x - (L - p) \in 1..q /\ ~(p + x <= L)
    BY <1>1, <1>2, <2>1 DEF q
  <2>7. Len(c) = n /\ \A x \in 1..n : c[x] = IF x <= L - p THEN a[x] ELSE b[x - (L - p)]
    BY <2>3, <2>4, <2>5, <2>6
  <2>8. \A x \in 1..n : c[x] = Part(ring, k, n)[x]
    <3> SUFFICES ASSUME NEW x \in 1..n PROVE c[x] = Part(ring, k, n)[x]
      OBVIOUS
    <3>1. /\ Part(ring, k, n)[x] = ring[k + x]
          /\ ring[k + x] = file[IF p + x <= L THEN p + x ELSE x - (L - p)]
          /\ c[x] = IF x <= L - p THEN a[x] ELSE b[x - (L - p)]
      BY <1>6, <1>7, <2>7
    <3>2. CASE x <= L - p
      <4>1. a[x] = file[p + x] /\ p + x <= L
        <5>1. x \in 1..L - p /\ p + x <= L
          BY <1>1, <1>2, <3>2
        <5> QED
          BY <2>3, <5>1
      <4> QED
        BY <3>1, <3>2, <4>1
    <3>3. CASE ~(x <= L - p)
      <4> DEFINE y == x - (L - p)
      <4>1. y \in 1..q /\ ~(p + x <= L)
        BY <2>6, <3>3
      <4>2. b[y] = file[y]
        <5> HIDE DEF y
        <5> QED
          BY <2>4, <4>1
      <4> QED
        BY <3>1, <3>3, <4>1, <4>2
    <3> QED
      BY <3>2, <3>3
  <2>9. c = Part(ring, k, n)
    BY <1>7, <2>5, <2>7, <2>8, SeqEqual
  <2> QED
    BY <2>2, <2>9 DEF c, p, ring
<1> QED
  BY <1>1, <1>2, <1>8, <1>9

-----------------------------------------------------------------------------
(* How many elements fit *)

\* The first k of the elements fit into n, at a cost of h each, and no more do.
Most(elems, h, n, k) ==
  /\ k \in 0..Len(elems)
  /\ \A j \in 0..Len(elems) : Total(First(elems, j), h) <= n <=> j <= k

\* Some number of elements is the most there is room for.
LEMMA MostExists ==
  ASSUME NEW elems \in Seq(Element), NEW h \in Nat, NEW n \in Nat
  PROVE  \E k \in 0..Len(elems) : Most(elems, h, n, k)
<1> DEFINE L == Len(elems)
           T(j) == Total(First(elems, j), h)
           Over == {j \in 0..L + 1 : j = L + 1 \/ T(j) > n}
<1>1. L \in Nat
  BY LenProperties
<1>2. \A j \in 0..L : T(j) \in Nat
  BY TotalGrows
<1>3. \A i, j \in 0..L : i <= j => T(i) <= T(j)
  BY TotalGrows
<1>4. T(0) = 0
  BY TotalOfFirst
<1> HIDE DEF L, T
<1>5. Over \subseteq Nat /\ L + 1 \in Over
  BY <1>1
<1>6. PICK m \in Over : \A j \in Over : m <= j
  <2> HIDE DEF Over
  <2> QED
    BY <1>5, LeastNat
<1>7. m # 0
  BY <1>1, <1>4
<1> DEFINE k == m - 1
<1>8. k \in 0..L /\ \A j \in 0..L : j <= k => T(j) <= n
  BY <1>1, <1>2, <1>6, <1>7
<1>9. ASSUME NEW j \in 0..L, ~(j <= k) PROVE ~(T(j) <= n)
  <2>1. m \in 0..L /\ T(m) > n /\ m <= j
    BY <1>1, <1>9
  <2>2. T(m) <= T(j) /\ T(m) \in Nat /\ T(j) \in Nat
    BY <1>2, <1>3, <2>1
  <2> QED
    BY <2>1, <2>2
<1> QED
  BY <1>8, <1>9 DEF Most, L, T

\* The data of an element are not longer than its record.
LEMMA DataShorter ==
  ASSUME NEW elems \in Seq(Element)
  PROVE  \A k \in 0..Len(elems) :
           /\ Total(First(elems, k), 0) \in Nat
           /\ Total(First(elems, k), 0) <= Total(First(elems, k), HeaderCells)
<1> DEFINE L == Len(elems)
           T(j) == Total(First(elems, j), 0)
           U(j) == Total(First(elems, j), HeaderCells)
           Q == {k \in Nat : k <= L => T(k) <= U(k)}
<1>1. L \in Nat /\ HeaderCells \in Nat
  BY LenProperties, CircularFileAssumption
<1>2. T(0) = 0 /\ \A k \in 1..L : T(k) = T(k - 1) + (0 + elems[k][2])
  BY TotalOfFirst
<1>3. U(0) = 0 /\ \A k \in 1..L : U(k) = U(k - 1) + (HeaderCells + elems[k][2])
  BY <1>1, TotalOfFirst
<1>4. \A k \in 0..L : T(k) \in Nat /\ U(k) \in Nat
  BY <1>1, TotalGrows
<1>5. \A k \in 1..L : elems[k][2] \in Nat
  BY ElementOfSeq DEF Element
<1> HIDE DEF L, T, U
<1>6. 0 \in Q
  BY <1>2, <1>3
<1>7. ASSUME NEW k \in Nat, k \in Q PROVE k + 1 \in Q
  <2> SUFFICES ASSUME k + 1 <= L PROVE T(k + 1) <= U(k + 1)
    OBVIOUS
  <2> DEFINE m == k + 1
  <2>1. m \in 1..L /\ m - 1 = k /\ k \in 0..L
    BY <1>1
  <2> HIDE DEF m
  <2>2. T(m) = T(k) + (0 + elems[m][2]) /\ U(m) = U(k) + (HeaderCells + elems[m][2])
    BY <1>2, <1>3, <2>1
  <2>3. T(k) \in Nat /\ U(k) \in Nat /\ elems[m][2] \in Nat
    BY <1>4, <1>5, <2>1
  <2>4. T(k) <= U(k)
    BY <1>1, <1>7, <2>1
  <2>5. T(m) <= U(m)
    BY <1>1, <2>2, <2>3, <2>4
  <2> QED
    BY <2>5 DEF m
<1>8. Nat \subseteq Q
  <2> HIDE DEF Q
  <2> QED
    BY <1>6, <1>7, NatSetInduction
<1>9. \A k \in 0..L : T(k) <= U(k)
  BY <1>1, <1>8
<1> QED
  BY <1>4, <1>9 DEF L, T, U

-----------------------------------------------------------------------------
(* Reading *)

\* What a stream reads are cells.
LEMMA CellsFromType ==
  ASSUME NEW file \in Seq(Cell), NEW max \in Nat, NEW p \in Nat, NEW n \in Nat
  PROVE  CellsFrom(file, max, p, n) \in Seq(Cell)
<1>1. Len(file) \in Nat
  BY LenProperties
<1>2. \A i \in 1..Len(file) : file[i] \in Cell
  BY ElementOfSeq
<1>3. CASE p + n <= Len(file)
  <2>1. \A i \in p + 1..p + n : file[i] \in Cell
    BY <1>1, <1>2, <1>3
  <2> QED
    BY <1>3, <2>1, SubSeqProperties DEF CellsFrom
<1>4. CASE /\ ~(p + n <= Len(file))
           /\ Larger(p, Len(file)) = max /\ p + n - max <= Len(file)
  <2> DEFINE q == p + n - max
             a == SubSeq(file, p + 1, Len(file))
             b == SubSeq(file, 1, q)
  <2>1. q \in Nat /\ q <= Len(file)
    BY <1>1, <1>4 DEF Larger
  <2>2. \A i \in p + 1..Len(file) : file[i] \in Cell
    BY <1>1, <1>2
  <2>3. a \in Seq(Cell)
    BY <1>1, <2>2, SubSeqProperties
  <2>4. b \in Seq(Cell)
    BY <1>1, <1>2, <2>1, SubSeqProperties
  <2>5. CellsFrom(file, max, p, n) = a \o b
    BY <1>4 DEF CellsFrom
  <2> HIDE DEF a, b
  <2> QED
    BY <2>3, <2>4, <2>5, ConcatProperties
<1>5. CASE /\ ~(p + n <= Len(file))
           /\ ~(Larger(p, Len(file)) = max /\ p + n - max <= Len(file))
  BY <1>5 DEF CellsFrom
<1> QED
  BY <1>3, <1>4, <1>5

\* What is made of cells that were read.
LEMMA CellsType ==
  ASSUME NEW c \in Seq(Cell), c # << >>
  PROVE  /\ LengthIn(c) \in Nat \cup {Garbage}
         /\ ElementIn(c) \in (0..MaxElements) \X Nat
<1>1. Len(c) \in Nat /\ 1 \in 1..Len(c)
  BY EmptySeq, LenProperties
<1>2. c[1] \in Cell
  BY <1>1, ElementOfSeq
<1>3. c[1][1] \in 0..MaxElements /\ c[1][2] \in Nat /\ 0 \in 0..MaxElements
  BY <1>2, CircularFileAssumption DEF Cell
<1> QED
  BY <1>1, <1>3 DEF LengthIn, ElementIn

\* A round of reading returns what a round starts with.
LEMMA ReadElementType ==
  ASSUME NEW file \in Seq(Cell), NEW max \in Nat, NEW from \in Nat, NEW room \in Nat,
         NEW limit \in Nat, NEW got \in Got
  PROVE  ReadElement(file, max, from, room, limit, got) \in Got
<1> DEFINE position == PositionAfter(file, from, got.cells)
           header   == CellsFrom(file, max, position, HeaderCells)
           length   == LengthIn(header)
           start    == PositionAfter(file, position, HeaderCells)
           contents == CellsFrom(file, max, start, length)
           more == [elems |-> Append(got.elems, ElementIn(contents)), ended |-> "no",
                    cells |-> got.cells + HeaderCells + length,
                    dataCells |-> got.dataCells + length]
           Ends(how) == [got EXCEPT !.ended = how]
<1>1. /\ got.elems \in Seq((0..MaxElements) \X Nat) /\ got.cells \in Nat
      /\ got.dataCells \in Nat /\ HeaderCells \in Nat /\ Len(file) \in Nat
  BY LenProperties, CircularFileAssumption DEF Got
<1>2. ASSUME NEW how \in {"no", "all", "short", "garbage", "invalid", "limit"}
      PROVE  Ends(how) \in Got
  BY DEF Got
<1>3. position \in Nat /\ start \in Nat
  <2>1. \A p, n \in Nat : PositionAfter(file, p, n) \in Nat
    BY <1>1 DEF PositionAfter
  <2>2. position \in Nat
    BY <1>1, <2>1
  <2> HIDE DEF position
  <2> QED
    BY <1>1, <2>1, <2>2
<1>4. header \in Seq(Cell)
  <2> HIDE DEF position
  <2> QED
    BY <1>1, <1>3, CellsFromType
<1>5. header # << >> => length \in Nat \cup {Garbage}
  <2> HIDE DEF header
  <2> QED
    BY <1>4, CellsType
<1>6. ASSUME length \in Nat, contents # << >> PROVE more \in Got
  <2>1. contents \in Seq(Cell)
    <3> HIDE DEF length, start
    <3> QED
      BY <1>3, <1>6, CellsFromType
  <2>2. ElementIn(contents) \in (0..MaxElements) \X Nat
    <3> HIDE DEF contents
    <3> QED
      BY <1>6, <2>1, CellsType
  <2> HIDE DEF length, contents
  <2>3. Append(got.elems, ElementIn(contents)) \in Seq((0..MaxElements) \X Nat)
    BY <1>1, <2>2, AppendProperties
  <2>4. got.cells + HeaderCells + length \in Nat /\ got.dataCells + length \in Nat
    BY <1>1, <1>6
  <2> QED
    BY <2>3, <2>4 DEF Got
<1>7. ReadElement(file, max, from, room, limit, got)
        = IF got.ended # "no" THEN got
          ELSE IF got.cells >= room THEN Ends("all")
          ELSE IF header = << >> THEN Ends("short")
          ELSE IF length = Garbage THEN Ends("garbage")
          ELSE IF length = 0 THEN Ends("invalid")
          ELSE IF got.dataCells + length > limit THEN Ends("limit")
          ELSE IF contents = << >> THEN Ends("short")
          ELSE more
  BY DEF ReadElement
<1> HIDE DEF Ends, header, contents, length, more
<1> QED
  BY <1>2, <1>5, <1>6, <1>7

\* What has been read before round k of the loop.
SoFar(elems, k) ==
  [elems |-> First(elems, k), ended |-> "no",
   cells |-> Total(First(elems, k), HeaderCells), dataCells |-> Total(First(elems, k), 0)]

\* A round reads the next element, unless it is too long.
LEMMA ReadOne ==
  ASSUME NEW file, NEW max, NEW from, NEW room, Geometry(file, max, from, room),
         NEW limit \in Nat, NEW elems \in Seq(Element), NEW tainted \in BOOLEAN,
         Contents(RingOf(file, max, from, room), elems, tainted),
         NEW k \in 0..Len(elems) - 1
  PROVE  ReadElement(file, max, from, room, limit, SoFar(elems, k))
           = IF Total(First(elems, k + 1), 0) > limit
             THEN [SoFar(elems, k) EXCEPT !.ended = "limit"]
             ELSE SoFar(elems, k + 1)
<1> DEFINE got == SoFar(elems, k)
           m == k + 1
           v == Total(First(elems, k), HeaderCells)
           n == elems[m][2]
           ring == RingOf(file, max, from, room)
           position == PositionAfter(file, from, v)
           header   == CellsFrom(file, max, position, HeaderCells)
           length   == LengthIn(header)
           start    == PositionAfter(file, position, HeaderCells)
           contents == CellsFrom(file, max, start, length)
<1>1. /\ m \in 1..Len(elems) /\ m - 1 = k /\ k \in 0..Len(elems) /\ Len(elems) \in Nat
  BY LenProperties
<1>2. HeaderCells \in Nat /\ HeaderCells >= 1 /\ room \in Nat
  BY CircularFileAssumption DEF Geometry
<1> HIDE DEF m
<1>3. /\ v \in Nat /\ n \in Nat \ {0}
      /\ Total(First(elems, m), HeaderCells) = v + (HeaderCells + n)
      /\ v + (HeaderCells + n) <= Total(elems, HeaderCells)
      /\ Total(elems, HeaderCells) \in Nat
  BY <1>1, RecordPlace
<1>4. Total(First(elems, m), 0) = Total(First(elems, k), 0) + (0 + n)
      /\ Total(First(elems, k), 0) \in Nat
  BY <1>1, TotalOfFirst, DataShorter
<1>5. Len(ring) = room
  BY RingFacts
<1>6. LaidAt(ring, 0, elems)
  BY DEF Contents
<1> HIDE DEF ring
<1>7. v + (HeaderCells + n) <= room
  <2>1. 0 + Total(elems, HeaderCells) <= room
    BY <1>5, <1>6 DEF LaidAt
  <2> QED
    BY <1>2, <1>3, <2>1, SMTT(40)
<1>8. /\ Part(ring, 0 + v, HeaderCells) = Header(n)
      /\ ElementIn(Part(ring, (0 + v) + HeaderCells, n)) = elems[m]
  BY <1>1, <1>6 DEF LaidAt
<1>9. 0 + v = v
  BY <1>3
<1> HIDE DEF v, n
<1>10. v + HeaderCells <= room /\ v + HeaderCells \in Nat /\ (v + HeaderCells) + n <= room
  BY <1>2, <1>3, <1>7
<1>11. header = Header(n)
  <2>1. header = Part(ring, v, HeaderCells)
    BY <1>2, <1>3, <1>10, CellsOfRing DEF ring
  <2> QED
    BY <1>8, <1>9, <2>1
<1>12. header # << >> /\ length = n
  BY <1>3, <1>11, HeaderFacts
<1>13. start = PositionAfter(file, from, v + HeaderCells)
  BY <1>2, <1>3, <1>10, PositionFacts
<1> HIDE DEF header, position
<1> HIDE DEF length, start
<1>14. contents = Part(ring, v + HeaderCells, n)
  <2> DEFINE w == v + HeaderCells
  <2> HIDE DEF w
  <2>1. w \in Nat /\ w + n <= room /\ start = PositionAfter(file, from, w)
    BY <1>10, <1>13 DEF w
  <2>2. CellsFrom(file, max, PositionAfter(file, from, w), n) = Part(ring, w, n)
    BY <1>3, <2>1, CellsOfRing DEF ring
  <2> QED
    BY <1>12, <2>1, <2>2 DEF w
<1>15. ElementIn(contents) = elems[m] /\ contents # << >>
  <2>1. ring \in Seq(Cell) /\ room = Len(ring)
    BY RingFacts DEF ring
  <2> DEFINE w == v + HeaderCells
  <2>2. w \in Nat /\ w + n <= Len(ring) /\ n \in Nat
    BY <1>3, <1>5, <1>10
  <2> HIDE DEF w
  <2>3. Len(Part(ring, w, n)) = n
    BY <2>1, <2>2, PartFacts
  <2>4. Len(contents) # 0
    BY <1>3, <1>14, <2>3 DEF w
  <2>5. contents # << >>
    BY <2>4, EmptySeq
  <2> QED
    BY <1>8, <1>9, <1>14, <2>5
<1> HIDE DEF contents
<1>16. /\ got.ended = "no" /\ got.cells = v /\ got.elems = First(elems, k)
       /\ got.dataCells = Total(First(elems, k), 0)
  BY DEF SoFar, v
<1>17. ~(got.cells >= room) /\ n # Garbage /\ n # 0
  BY <1>2, <1>3, <1>7, <1>16 DEF Garbage
<1>18. ReadElement(file, max, from, room, limit, got)
        = IF got.dataCells + n > limit THEN [got EXCEPT !.ended = "limit"]
          ELSE [elems |-> Append(got.elems, elems[m]), ended |-> "no",
                cells |-> got.cells + HeaderCells + n,
                dataCells |-> got.dataCells + n]
  <2> HIDE DEF got
  <2> QED
    BY <1>12, <1>15, <1>16, <1>17
    DEF ReadElement, position, header, length, start, contents
<1>19. Append(First(elems, k), elems[m]) = First(elems, m)
  <2> DEFINE a == First(elems, k)
             b == First(elems, m)
  <2>1. a \in Seq(Element) /\ Len(a) = k /\ \A i \in 1..k : a[i] = elems[i]
    BY <1>1, FirstFacts
  <2>2. b \in Seq(Element) /\ Len(b) = m /\ \A i \in 1..m : b[i] = elems[i]
    BY <1>1, FirstFacts
  <2>3. elems[m] \in Element
    BY <1>1, ElementOfSeq
  <2> HIDE DEF a, b
  <2>4. /\ Append(a, elems[m]) \in Seq(Element) /\ Len(Append(a, elems[m])) = k + 1
        /\ \A i \in 1..k : Append(a, elems[m])[i] = a[i]
        /\ Append(a, elems[m])[k + 1] = elems[m]
    BY <2>1, <2>3, AppendProperties
  <2>5. \A i \in 1..m : Append(a, elems[m])[i] = b[i]
    <3>1. \A i \in 1..m : i \in 1..k \/ i = k + 1
      BY <1>1
    <3>2. k + 1 = m
      BY DEF m
    <3> QED
      BY <2>1, <2>2, <2>4, <3>1, <3>2
  <2>6. Len(Append(a, elems[m])) = m
    BY <2>4 DEF m
  <2> QED
    BY <2>2, <2>4, <2>5, <2>6, SeqEqual DEF a, b
<1>20. /\ got.cells + HeaderCells + n = Total(First(elems, m), HeaderCells)
       /\ got.dataCells + n = Total(First(elems, m), 0)
  BY <1>2, <1>3, <1>4, <1>16, SMTT(40) DEF n
<1> HIDE DEF got
<1>21. ReadElement(file, max, from, room, limit, got)
         = IF Total(First(elems, m), 0) > limit THEN [got EXCEPT !.ended = "limit"]
           ELSE SoFar(elems, m)
  BY <1>16, <1>18, <1>19, <1>20 DEF SoFar
<1> QED
  BY <1>21 DEF got, m

\* The round after the last element ends the loop.
LEMMA ReadNone ==
  ASSUME NEW file, NEW max, NEW from, NEW room, Geometry(file, max, from, room),
         NEW limit \in Nat, NEW elems \in Seq(Element), NEW tainted \in BOOLEAN,
         Contents(RingOf(file, max, from, room), elems, tainted)
  PROVE  ReadElement(file, max, from, room, limit, SoFar(elems, Len(elems)))
           = [SoFar(elems, Len(elems)) EXCEPT !.ended = IF tainted THEN "invalid" ELSE "all"]
<1> DEFINE k == Len(elems)
           got == SoFar(elems, k)
           v == Total(elems, HeaderCells)
           ring == RingOf(file, max, from, room)
           position == PositionAfter(file, from, v)
           header   == CellsFrom(file, max, position, HeaderCells)
<1>1. First(elems, k) = elems /\ v \in Nat /\ HeaderCells \in Nat \ {0}
  BY FirstAll, TotalType
<1>2. got.ended = "no" /\ got.cells = v
  BY <1>1 DEF SoFar
<1>3. room \in Nat /\ Len(ring) = room
  BY RingFacts DEF Geometry
<1> HIDE DEF ring, got
<1>4. CASE tainted
  <2>1. v + HeaderCells <= room /\ Part(ring, v, HeaderCells) = Header(0)
    BY <1>3, <1>4 DEF Contents, ring
  <2> HIDE DEF v
  <2>2. header = Part(ring, v, HeaderCells)
    BY <1>1, <2>1, CellsOfRing DEF ring
  <2>3. header # << >> /\ LengthIn(header) = 0 /\ 0 # Garbage
    <3>1. Header(0) # << >> /\ LengthIn(Header(0)) = 0
      BY HeaderFacts
    <3>2. header = Header(0)
      BY <2>1, <2>2
    <3> HIDE DEF header
    <3> QED
      BY <3>1, <3>2 DEF Garbage
  <2>4. ~(v >= room)
    BY <1>1, <1>3, <2>1
  <2> QED
    BY <1>2, <1>4, <2>3, <2>4 DEF ReadElement, got, header, position, k
<1>5. CASE ~tainted
  <2>1. v = room
    BY <1>3, <1>5 DEF Contents, ring
  <2>2. v >= room
    BY <1>3, <2>1
  <2> QED
    BY <1>2, <1>5, <2>2 DEF ReadElement, got, k
<1> QED
  BY <1>4, <1>5

\* The loop of emer_circular_file_read, round by round.
Rounds(f, file, max, from, room, limit) ==
  /\ f \in [Nat -> Got] /\ f[0] = NothingRead
  /\ \A n \in Nat : f[n + 1] = ReadElement(file, max, from, room, limit, f[n])
  /\ Reading(file, max, from, room, limit) = f[room + 1]

\* The recursive function in Reading is the loop over the rounds.
LEMMA ReadingLoop ==
  ASSUME NEW file \in Seq(Cell), NEW max \in Nat, NEW from \in Nat, NEW room \in Nat,
         NEW limit \in Nat
  PROVE  \E f : Rounds(f, file, max, from, room, limit)
<1> DEFINE round == [got \in Got |-> ReadElement(file, max, from, room, limit, got)]
           after[n \in Nat] == IF n = 0 THEN NothingRead ELSE round[after[n - 1]]
<1>1. Reading(file, max, from, room, limit) = after[room + 1]
  BY DEF Reading
<1>2. round \in [Got -> Got]
  BY ReadElementType
<1>3. NothingRead \in Got
  BY EmptySeq DEF NothingRead, Got
<1>4. \A got \in Got : round[got] = ReadElement(file, max, from, room, limit, got)
  OBVIOUS
<1> HIDE DEF round
<1>5. PICK g : LoopEquation(g, NothingRead, round)
  BY <1>2, <1>3, LoopSolution
<1>6. g = [n \in Nat |-> IF n = 0 THEN NothingRead ELSE round[g[n - 1]]]
  BY <1>5 DEF LoopEquation
<1>7. after = [n \in Nat |-> IF n = 0 THEN NothingRead ELSE round[after[n - 1]]]
  BY <1>6
<1>8. LoopEquation(after, NothingRead, round)
  BY <1>7 DEF LoopEquation
<1> HIDE DEF after
<1>9. /\ after \in [Nat -> Got] /\ after[0] = NothingRead
      /\ \A n \in Nat : after[n + 1] = round[after[n]]
  BY <1>2, <1>3, <1>8, LoopFunction, SMTT(40)
<1>10. \A n \in Nat : after[n + 1] = ReadElement(file, max, from, room, limit, after[n])
  BY <1>4, <1>9
<1> QED
  BY <1>1, <1>9, <1>10 DEF Rounds

\* What reading whole records gets, and why it ends.
LEMMA ReadingOfContents ==
  ASSUME NEW file, NEW max, NEW from, NEW room, Geometry(file, max, from, room),
         NEW limit \in Nat, NEW elems \in Seq(Element), NEW tainted \in BOOLEAN,
         Contents(RingOf(file, max, from, room), elems, tainted),
         NEW k \in 0..Len(elems), Most(elems, 0, limit, k)
  PROVE  Reading(file, max, from, room, limit)
           = [SoFar(elems, k) EXCEPT !.ended =
                IF k < Len(elems) THEN "limit" ELSE IF tainted THEN "invalid" ELSE "all"]
<1>1. /\ file \in Seq(Cell) /\ max \in Nat /\ from \in Nat /\ room \in Nat
      /\ Len(elems) \in Nat
  BY LenProperties DEF Geometry
<1>0. PICK after : Rounds(after, file, max, from, room, limit)
  BY <1>1, ReadingLoop
<1>2. /\ after \in [Nat -> Got] /\ after[0] = NothingRead
      /\ \A n \in Nat : after[n + 1] = ReadElement(file, max, from, room, limit, after[n])
      /\ Reading(file, max, from, room, limit) = after[room + 1]
  BY <1>0 DEF Rounds
<1>3. NothingRead = SoFar(elems, 0)
  <2>1. First(elems, 0) = << >> /\ Total(First(elems, 0), 0) = 0
        /\ Total(First(elems, 0), HeaderCells) = 0
    BY FirstAll, TotalOfFirst, CircularFileAssumption
  <2> QED
    BY <2>1 DEF NothingRead, SoFar
<1> DEFINE last == [SoFar(elems, k) EXCEPT !.ended =
                IF k < Len(elems) THEN "limit" ELSE IF tainted THEN "invalid" ELSE "all"]
           Q == {n \in Nat : after[n] = IF n <= k THEN SoFar(elems, n) ELSE last}
<1>7. 0 \in Q
  BY <1>1, <1>2, <1>3
<1>8. ASSUME NEW n \in Nat, n \in Q PROVE n + 1 \in Q
  <2>1. after[n + 1] = ReadElement(file, max, from, room, limit, after[n])
    BY <1>2
  <2>2. CASE n < k
    <3>1. n \in 0..Len(elems) - 1 /\ n + 1 \in 0..Len(elems) /\ n + 1 <= k /\ n <= k
      BY <1>1, <2>2
    <3> DEFINE m == n + 1
    <3> HIDE DEF m
    <3>2. ~(Total(First(elems, m), 0) > limit)
      <4>1. Total(First(elems, m), 0) <= limit /\ Total(First(elems, m), 0) \in Nat
        BY <3>1, DataShorter DEF Most, m
      <4> QED
        BY <4>1
    <3>3. ReadElement(file, max, from, room, limit, SoFar(elems, n)) = SoFar(elems, m)
      BY <3>1, <3>2, ReadOne DEF m
    <3> QED
      BY <1>8, <2>1, <3>1, <3>3 DEF m
  <2>3. CASE n = k
    <3>1. ~(n + 1 <= k) /\ n <= k /\ after[n] = SoFar(elems, k)
      BY <1>8, <2>3
    <3>2. CASE k < Len(elems)
      <4> DEFINE m == k + 1
      <4>1. m \in 0..Len(elems) /\ ~(m <= k) /\ k \in 0..Len(elems) - 1
        BY <1>1, <3>2
      <4> HIDE DEF m
      <4>2. ~(Total(First(elems, m), 0) <= limit) /\ Total(First(elems, m), 0) \in Nat
        BY <4>1, DataShorter DEF Most
      <4>3. Total(First(elems, m), 0) > limit
        BY <4>2
      <4>4. ReadElement(file, max, from, room, limit, SoFar(elems, k)) = last
        BY <3>2, <4>1, <4>3, ReadOne DEF m
      <4> QED
        BY <2>1, <3>1, <4>4
    <3>3. CASE ~(k < Len(elems))
      <4>1. k = Len(elems)
        BY <1>1, <3>3
      <4>2. ReadElement(file, max, from, room, limit, SoFar(elems, k)) = last
        BY <3>3, <4>1, ReadNone
      <4> QED
        BY <2>1, <3>1, <4>2
    <3> QED
      BY <3>2, <3>3
  <2>4. CASE n > k
    <3>1. ~(n <= k) /\ ~(n + 1 <= k)
      BY <2>4
    <3>2. after[n] = last /\ last.ended # "no"
      BY <1>8, <3>1 DEF SoFar
    <3>3. ReadElement(file, max, from, room, limit, last) = last
      <4> HIDE DEF last
      <4> QED
        BY <3>2 DEF ReadElement
    <3> QED
      BY <2>1, <3>1, <3>2, <3>3
  <2> QED
    BY <2>2, <2>3, <2>4
<1>9. Nat \subseteq Q
  <2> HIDE DEF Q
  <2> QED
    BY <1>7, <1>8, NatSetInduction
<1>10. ~(room + 1 <= k) /\ room + 1 \in Nat
  <2>1. Total(First(elems, k), HeaderCells) <= room
    <3>1. RingOf(file, max, from, room) \in Seq(Cell) /\ Len(RingOf(file, max, from, room)) = room
      BY RingFacts
    <3> DEFINE ring == RingOf(file, max, from, room)
    <3>2. ring \in Seq(Cell) /\ Len(ring) = room /\ Contents(ring, elems, tainted)
      BY <3>1
    <3> HIDE DEF ring
    <3>3. Total(First(elems, k), HeaderCells) \in 0..Len(ring)
      BY <3>2, ContentsFirst
    <3> QED
      BY <1>1, <3>2, <3>3
  <2>2. k <= Total(First(elems, k), HeaderCells) /\ Total(First(elems, k), HeaderCells) \in Nat
    BY TotalGrows, CircularFileAssumption
  <2> QED
    <3> DEFINE v == Total(First(elems, k), HeaderCells)
    <3>1. v <= room /\ k <= v /\ v \in Nat
      BY <2>1, <2>2
    <3>2. k \in Nat /\ room \in Nat
      BY <1>1
    <3> HIDE DEF v
    <3> QED
      BY <3>1, <3>2
<1> QED
  BY <1>2, <1>9, <1>10

\* Nothing is left where as much may be read as there is.
LEMMA ReadingOfAll ==
  ASSUME NEW file, NEW max, NEW from, NEW room, Geometry(file, max, from, room),
         NEW elems \in Seq(Element), NEW tainted \in BOOLEAN,
         Contents(RingOf(file, max, from, room), elems, tainted)
  PROVE  /\ Reading(file, max, from, room, room).elems = elems
         /\ Reading(file, max, from, room, room).ended = IF tainted THEN "invalid" ELSE "all"
<1> DEFINE k == Len(elems)
<1>1. k \in Nat /\ k \in 0..k /\ room \in Nat /\ First(elems, k) = elems
  BY LenProperties, FirstAll DEF Geometry
<1>2. Most(elems, 0, room, k)
  <2>1. RingOf(file, max, from, room) \in Seq(Cell) /\ Len(RingOf(file, max, from, room)) = room
    BY RingFacts
  <2>2. \A j \in 0..k : Total(First(elems, j), HeaderCells) \in 0..room
    BY <2>1, ContentsFirst
  <2>3. \A j \in 0..k : /\ Total(First(elems, j), 0) \in Nat
                        /\ Total(First(elems, j), 0) <= Total(First(elems, j), HeaderCells)
    BY DataShorter
  <2>4. ASSUME NEW j \in 0..k
        PROVE  Total(First(elems, j), 0) <= room /\ j <= k
    <3>1. /\ Total(First(elems, j), HeaderCells) \in 0..room
          /\ Total(First(elems, j), 0) \in Nat
          /\ Total(First(elems, j), 0) <= Total(First(elems, j), HeaderCells)
      BY <2>2, <2>3
    <3> QED
      BY <1>1, <3>1
  <2> QED
    BY <1>1, <2>4 DEF Most
<1>3. Reading(file, max, from, room, room)
           = [SoFar(elems, k) EXCEPT !.ended =
                IF k < Len(elems) THEN "limit" ELSE IF tainted THEN "invalid" ELSE "all"]
  BY <1>1, <1>2, ReadingOfContents
<1> QED
  BY <1>1, <1>3 DEF SoFar

-----------------------------------------------------------------------------
(* Other rings in the same file *)

\* A ring with room for less is a prefix of it.
LEMMA RingShrinks ==
  ASSUME NEW file, NEW max, NEW from, NEW room, Geometry(file, max, from, room),
         NEW n \in 0..room
  PROVE  /\ Geometry(file, max, from, n)
         /\ RingOf(file, max, from, n) = First(RingOf(file, max, from, room), n)
<1> DEFINE a == RingOf(file, max, from, room)
           b == RingOf(file, max, from, n)
<1>1. Geometry(file, max, from, n) /\ room \in Nat
  BY LenProperties DEF Geometry
<1>2. a \in Seq(Cell) /\ Len(a) = room
      /\ \A i \in 1..room : a[i] = file[After(from, i - 1, max) + 1]
  BY RingFacts
<1>3. b \in Seq(Cell) /\ Len(b) = n
      /\ \A i \in 1..n : b[i] = file[After(from, i - 1, max) + 1]
  BY <1>1, RingFacts
<1> HIDE DEF a, b
<1>4. First(a, n) \in Seq(Cell) /\ Len(First(a, n)) = n
      /\ \A i \in 1..n : First(a, n)[i] = a[i]
  BY <1>2, FirstFacts
<1>5. \A i \in 1..n : i \in 1..room
  BY <1>1
<1>6. \A i \in 1..n : b[i] = First(a, n)[i]
  BY <1>2, <1>3, <1>4, <1>5
<1>7. b = First(a, n)
  BY <1>3, <1>4, <1>6, SeqEqual
<1> QED
  BY <1>1, <1>7 DEF a, b

\* One that begins later is the rest of it.
LEMMA RingMoves ==
  ASSUME NEW file, NEW max, NEW from, NEW room, Geometry(file, max, from, room),
         NEW n \in 0..room
  PROVE  /\ Geometry(file, max, After(from, n, max), room - n)
         /\ RingOf(file, max, After(from, n, max), room - n)
              = Rest(RingOf(file, max, from, room), n)
<1> DEFINE to == After(from, n, max)
           a == RingOf(file, max, from, room)
           b == RingOf(file, max, to, room - n)
<1>0. /\ file \in Seq(Cell) /\ max \in Nat /\ from \in Nat /\ room \in Nat /\ Len(file) \in Nat
      /\ from < max \/ (from = 0 /\ max = 0)
      /\ room <= max /\ Len(file) <= max
      /\ IF from + room <= max THEN from + room <= Len(file) ELSE Len(file) = max
  BY LenProperties DEF Geometry
<1>1. Geometry(file, max, to, room - n)
  BY <1>0 DEF Geometry, After
<1>2. a \in Seq(Cell) /\ Len(a) = room
      /\ \A i \in 1..room : a[i] = file[After(from, i - 1, max) + 1]
  BY RingFacts
<1>3. b \in Seq(Cell) /\ Len(b) = room - n
      /\ \A i \in 1..room - n : b[i] = file[After(to, i - 1, max) + 1]
  <2> DEFINE h == room - n
  <2>1. Geometry(file, max, to, h)
    BY <1>1
  <2> HIDE DEF to, h
  <2>2. LET r == RingOf(file, max, to, h)
        IN  r \in Seq(Cell) /\ Len(r) = h
            /\ \A i \in 1..h : r[i] = file[After(to, i - 1, max) + 1]
    BY <2>1, RingFacts
  <2> QED
    BY <2>2 DEF h
<1>4. \A i \in 1..room - n : /\ n + i \in 1..room
                             /\ After(from, (n + i) - 1, max) = After(to, i - 1, max)
  BY <1>0 DEF After
<1> HIDE DEF a, b, to
<1>5. Rest(a, n) \in Seq(Cell) /\ Len(Rest(a, n)) = room - n
      /\ \A i \in 1..room - n : Rest(a, n)[i] = a[n + i]
  <2>1. a \in Seq(Cell) /\ Len(a) = room /\ n \in 0..Len(a)
    BY <1>2
  <2>2. Rest(a, n) \in Seq(Cell) /\ Len(Rest(a, n)) = Len(a) - n
        /\ \A i \in 1..Len(a) - n : Rest(a, n)[i] = a[n + i]
    BY <2>1, RestFacts
  <2> QED
    BY <2>1, <2>2
<1>6. \A i \in 1..room - n : b[i] = Rest(a, n)[i]
  BY <1>2, <1>3, <1>4, <1>5, ZenonT(60)
<1>7. b = Rest(a, n)
  BY <1>3, <1>5, <1>6, SeqEqual
<1> QED
  BY <1>1, <1>7 DEF a, b, to

\* A file that does not wrap is its ring.
LEMMA RingWhole ==
  ASSUME NEW file \in Seq(Cell), NEW max \in Nat, Len(file) <= max
  PROVE  Geometry(file, max, 0, Len(file)) /\ RingOf(file, max, 0, Len(file)) = file
<1> DEFINE n == Len(file)
           a == RingOf(file, max, 0, n)
<1>1. n \in Nat /\ Geometry(file, max, 0, n)
  BY LenProperties DEF Geometry
<1>2. a \in Seq(Cell) /\ Len(a) = n
      /\ \A i \in 1..n : a[i] = file[After(0, i - 1, max) + 1]
  <2> HIDE DEF n
  <2> QED
    BY <1>1, RingFacts
<1>3. \A i \in 1..n : After(0, i - 1, max) + 1 = i
  BY <1>1 DEF After
<1> HIDE DEF a
<1>4. \A i \in 1..Len(a) : a[i] = file[i]
  BY <1>2, <1>3
<1>5. a = file
  BY <1>2, <1>4, SeqEqual
<1> QED
  BY <1>1, <1>5 DEF a

\* An empty ring.
LEMMA RingEmpty ==
  ASSUME NEW file \in Seq(Cell), NEW max \in Nat, Len(file) <= max
  PROVE  Geometry(file, max, 0, 0) /\ RingOf(file, max, 0, 0) = << >>
<1>1. Geometry(file, max, 0, 0)
  BY LenProperties DEF Geometry
<1>2. RingOf(file, max, 0, 0) \in Seq(Cell) /\ Len(RingOf(file, max, 0, 0)) = 0
  BY <1>1, RingFacts
<1> QED
  BY <1>1, <1>2, EmptySeq

\* What the constructor reads when the maximum size has changed is a prefix too.
LEMMA RingRead ==
  ASSUME NEW file, NEW meta, Geometry(file, meta.maxSize, meta.head, meta.size),
         NEW n \in 0..meta.size
  PROVE  Ring(file, meta, n) = First(RingOf(file, meta.maxSize, meta.head, meta.size), n)
<1> DEFINE r == RingOf(file, meta.maxSize, meta.head, n)
<1>1. Geometry(file, meta.maxSize, meta.head, n)
      /\ r = First(RingOf(file, meta.maxSize, meta.head, meta.size), n)
  BY RingShrinks
<1>2. \A i \in 1..n : After(meta.head, i - 1, meta.maxSize) + 1 \in 1..Len(file)
  BY <1>1, RingFacts
<1>3. DOMAIN file = 1..Len(file)
  BY LenProperties DEF Geometry
<1>4. Ring(file, meta, n) = r
  BY <1>2, <1>3 DEF Ring, RingOf
<1> QED
  BY <1>1, <1>4

\* What is written elsewhere leaves a ring as it was.
LEMMA RingKept ==
  ASSUME NEW file, NEW max, NEW from, NEW room, Geometry(file, max, from, room),
         NEW other \in Seq(Cell), Len(file) <= Len(other), Len(other) <= max,
         \A i \in 1..room : other[After(from, i - 1, max) + 1]
                              = file[After(from, i - 1, max) + 1]
  PROVE  /\ Geometry(other, max, from, room)
         /\ RingOf(other, max, from, room) = RingOf(file, max, from, room)
<1>0. /\ file \in Seq(Cell) /\ max \in Nat /\ from \in Nat /\ room \in Nat /\ Len(file) \in Nat
      /\ (from < max \/ (from = 0 /\ max = 0)) /\ Len(other) \in Nat
      /\ room <= max /\ Len(file) <= max
      /\ IF from + room <= max THEN from + room <= Len(file) ELSE Len(file) = max
  BY LenProperties DEF Geometry
<1>1. /\ Len(other) \in Nat /\ Len(file) <= Len(other) /\ Len(other) <= max
      /\ IF from + room <= max THEN from + room <= Len(other) ELSE Len(other) = max
  BY <1>0
<1>2. Geometry(other, max, from, room)
  BY <1>0, <1>1 DEF Geometry
<1>3. RingOf(other, max, from, room) = RingOf(file, max, from, room)
  BY DEF RingOf
<1> QED
  BY <1>2, <1>3

\* Only these cells of a file are different.
IsWritten(w, file, position, cells) ==
  /\ w \in Seq(Cell) /\ Len(w) = Larger(Len(file), position + Len(cells))
  /\ \A p \in 1..Len(file) : p <= position \/ p > position + Len(cells) => w[p] = file[p]
  /\ \A x \in 1..Len(cells) : w[position + x] = cells[x]

\* What was written is there, and the rest as it was.
LEMMA WrittenFacts ==
  ASSUME NEW file \in Seq(Cell), NEW position \in Nat, NEW cells \in Seq(Cell)
  PROVE  IsWritten(Written(file, position, cells), file, position, cells)
<1> DEFINE w == Written(file, position, cells)
           n == Larger(Len(file), position + Len(cells))
<1>1. Len(file) \in Nat /\ Len(cells) \in Nat
  BY LenProperties
<1>2. n \in Nat /\ n >= Len(file) /\ n >= position + Len(cells)
  BY <1>1 DEF Larger
<1>3. \A i \in 1..Len(file) : file[i] \in Cell
  BY ElementOfSeq
<1>4. \A i \in 1..Len(cells) : cells[i] \in Cell
  BY ElementOfSeq
<1>5. w = [p \in 1..n |->
             IF p \in position + 1 .. position + Len(cells) THEN cells[p - position]
             ELSE IF p <= Len(file) THEN file[p] ELSE Zero]
  BY DEF Written
<1> HIDE DEF w, n
<1>6. w \in [1..n -> Cell]
  <2>1. \A p \in position + 1 .. position + Len(cells) : p - position \in 1..Len(cells)
    BY <1>1
  <2>2. \A p \in 1..n : p <= Len(file) => p \in 1..Len(file)
    BY <1>1
  <2> QED
    BY <1>3, <1>4, <1>5, <2>1, <2>2, ZeroIsCell
<1>7. \A p \in 1..Len(file) :
         p <= position \/ p > position + Len(cells) => w[p] = file[p]
  <2>1. \A p \in 1..Len(file) : p \in 1..n /\ p <= Len(file)
    BY <1>1, <1>2
  <2>2. \A p \in 1..Len(file) : p <= position \/ p > position + Len(cells)
          => ~(p \in position + 1 .. position + Len(cells))
    BY <1>1
  <2> QED
    BY <1>5, <2>1, <2>2
<1>8. ASSUME NEW x \in 1..Len(cells) PROVE w[position + x] = cells[x]
  <2> DEFINE p == position + x
  <2>1. /\ p \in 1..n /\ p \in position + 1 .. position + Len(cells)
        /\ p - position = x
    BY <1>1, <1>2
  <2> HIDE DEF p
  <2>2. w[p] = cells[p - position]
    BY <1>5, <2>1
  <2> QED
    BY <2>1, <2>2 DEF p
<1> QED
  BY <1>2, <1>6, <1>7, <1>8, FunctionIsSeq DEF IsWritten, w, n

-----------------------------------------------------------------------------
(* Saving *)

\* Where the cells are written that are saved, and where they are read then.
SavePlaced(max, from, room, n, m, tail) ==
  /\ tail \in Nat /\ m \in 0..n /\ tail + m <= max /\ n - m <= max
  /\ m < n => /\ m = max - tail /\ tail = from + room /\ n - m <= from
              /\ from + room < max
  /\ \A i \in 1..room : LET p == After(from, i - 1, max) + 1
                       IN /\ p > n - m
                          /\ p <= tail \/ p > tail + m
  /\ \A x \in 1..n :
       After(from, (room + x) - 1, max) + 1 = IF x <= m THEN tail + x ELSE x - m

\* Saving writes where the ring is not, at its end and at the start of the file.
LEMMA SavePlace ==
  ASSUME NEW max \in Nat, NEW from \in Nat, NEW room \in Nat, NEW n \in Nat,
         from < max \/ (from = 0 /\ max = 0), room + n <= max
  PROVE  SavePlaced(max, from, room, n, Smaller(n, max - After(from, room, max)),
                    After(from, room, max))
BY DEF SavePlaced, After, Smaller

\* The cells at the start of the file are written first.
LEMMA SaveStart ==
  ASSUME NEW file, NEW max, NEW from, NEW room, Geometry(file, max, from, room),
         NEW cells \in Seq(Cell), room + Len(cells) <= max,
         NEW m, m = Smaller(Len(cells), max - After(from, room, max)),
         NEW j \in 0..Len(cells) - m
  PROVE  LET w == Written(file, 0, First(Rest(cells, m), j))
         IN /\ Geometry(w, max, from, room)
            /\ RingOf(w, max, from, room) = RingOf(file, max, from, room)
            /\ j <= Len(w) /\ \A x \in 1..j : w[x] = cells[m + x]
<1> DEFINE n == Len(cells)
           c == First(Rest(cells, m), j)
           w == Written(file, 0, c)
<1>1. /\ file \in Seq(Cell) /\ max \in Nat /\ from \in Nat /\ room \in Nat /\ Len(file) \in Nat
      /\ from < max \/ (from = 0 /\ max = 0)
      /\ room <= max /\ Len(file) <= max /\ n \in Nat
  BY LenProperties DEF Geometry
<1> DEFINE tail == After(from, room, max)
<1>2. /\ tail \in Nat /\ m \in 0..n /\ tail + m <= max /\ n - m <= max
      /\ m < n => /\ m = max - tail /\ tail = from + room /\ n - m <= from
                  /\ from + room < max
      /\ \A i \in 1..room :
           LET p == After(from, i - 1, max) + 1
           IN /\ p > n - m
              /\ p <= tail \/ p > tail + m
  <2>1. room + n <= max /\ m = Smaller(n, max - tail)
    OBVIOUS
  <2> HIDE DEF n
  <2>2. SavePlaced(max, from, room, n, m, tail)
    BY <1>1, <2>1, SavePlace
  <2> HIDE DEF tail
  <2> QED
    BY <2>2 DEF SavePlaced, tail
<1>3. Rest(cells, m) \in Seq(Cell) /\ Len(Rest(cells, m)) = n - m
      /\ \A i \in 1..n - m : Rest(cells, m)[i] = cells[m + i]
  BY <1>2, RestFacts
<1>4. c \in Seq(Cell) /\ Len(c) = j /\ \A i \in 1..j : c[i] = Rest(cells, m)[i]
  <2> DEFINE r == Rest(cells, m)
  <2>1. r \in Seq(Cell) /\ j \in 0..Len(r)
    BY <1>3
  <2> HIDE DEF r
  <2>2. First(r, j) \in Seq(Cell) /\ Len(First(r, j)) = j
        /\ \A i \in 1..j : First(r, j)[i] = r[i]
    BY <2>1, FirstFacts
  <2> QED
    BY <2>2 DEF r
<1>5. j \in Nat /\ j <= n - m
  BY <1>1, <1>2
<1> HIDE DEF c
<1>6. /\ w \in Seq(Cell) /\ Len(w) = Larger(Len(file), 0 + Len(c))
      /\ \A p \in 1..Len(file) : p <= 0 \/ p > 0 + Len(c) => w[p] = file[p]
      /\ \A x \in 1..Len(c) : w[0 + x] = c[x]
  <2>1. 0 \in Nat /\ file \in Seq(Cell) /\ c \in Seq(Cell)
    BY <1>1, <1>4
  <2>2. IsWritten(w, file, 0, c)
    BY <2>1, WrittenFacts
  <2> HIDE DEF w
  <2> QED
    BY <2>2 DEF IsWritten
<1> HIDE DEF w
<1>7. Len(file) <= Len(w) /\ Len(w) <= max /\ j <= Len(w)
  <2>1. Len(w) = Larger(Len(file), j)
    BY <1>4, <1>5, <1>6
  <2>2. n - m <= max /\ n - m \in Int
    BY <1>1, <1>2
  <2> QED
    BY <1>1, <1>5, <2>1, <2>2 DEF Larger
<1>8. \A p \in 1..Len(file) : p > j => w[p] = file[p]
  BY <1>4, <1>5, <1>6
<1>9. ASSUME NEW i \in 1..room
      PROVE  w[After(from, i - 1, max) + 1] = file[After(from, i - 1, max) + 1]
  <2> DEFINE p == After(from, i - 1, max) + 1
  <2>1. p \in 1..Len(file)
    BY RingFacts
  <2>2. p > n - m
    BY <1>2
  <2> HIDE DEF p
  <2>3. p > j
    <3>1. m \in Int
      BY <1>2
    <3> QED
      BY <1>1, <1>5, <2>1, <2>2, <3>1
  <2> QED
    BY <1>8, <2>1, <2>3 DEF p
<1>10. Geometry(w, max, from, room) /\ RingOf(w, max, from, room) = RingOf(file, max, from, room)
  BY <1>6, <1>7, <1>9, RingKept
<1>11. ASSUME NEW x \in 1..j PROVE w[x] = cells[m + x]
  <2>1. 0 + x = x /\ x \in 1..Len(c) /\ x \in 1..n - m
    BY <1>1, <1>2, <1>4, <1>5
  <2>2. w[0 + x] = c[x] /\ c[x] = Rest(cells, m)[x] /\ Rest(cells, m)[x] = cells[m + x]
    BY <1>3, <1>4, <1>6, <2>1
  <2> QED
    BY <2>1, <2>2
<1> QED
  BY <1>7, <1>10, <1>11 DEF w, c

\* Then those at its tail, which leaves both as they were.
LEMMA SaveTail ==
  ASSUME NEW file, NEW max, NEW from, NEW room, Geometry(file, max, from, room),
         NEW cells \in Seq(Cell), room + Len(cells) <= max,
         NEW m, m = Smaller(Len(cells), max - After(from, room, max)),
         Len(cells) - m <= Len(file), \A x \in 1..Len(cells) - m : file[x] = cells[m + x],
         NEW j \in 0..m
  PROVE  LET w == Written(file, After(from, room, max), First(First(cells, m), j))
         IN /\ Geometry(w, max, from, room)
            /\ RingOf(w, max, from, room) = RingOf(file, max, from, room)
            /\ j = m => /\ Geometry(w, max, from, room + Len(cells))
                        /\ RingOf(w, max, from, room + Len(cells))
                             = RingOf(file, max, from, room) \o cells
<1> DEFINE n == Len(cells)
           tail == After(from, room, max)
           c == First(First(cells, m), j)
           w == Written(file, tail, c)
<1>1. /\ file \in Seq(Cell) /\ max \in Nat /\ from \in Nat /\ room \in Nat /\ Len(file) \in Nat
      /\ from < max \/ (from = 0 /\ max = 0)
      /\ room <= max /\ Len(file) <= max /\ n \in Nat
  BY LenProperties DEF Geometry
<1>2. /\ tail \in Nat /\ m \in 0..n /\ tail + m <= max /\ n - m <= max
      /\ m < n => /\ m = max - tail /\ tail = from + room /\ n - m <= from
                  /\ from + room < max
      /\ \A i \in 1..room :
           LET p == After(from, i - 1, max) + 1
           IN /\ p > n - m
              /\ p <= tail \/ p > tail + m
      /\ \A x \in 1..n :
           After(from, (room + x) - 1, max) + 1 = IF x <= m THEN tail + x ELSE x - m
  <2>1. room + n <= max /\ m = Smaller(n, max - tail)
    OBVIOUS
  <2> HIDE DEF n
  <2>2. SavePlaced(max, from, room, n, m, tail)
    BY <1>1, <2>1, SavePlace
  <2> HIDE DEF tail
  <2> QED
    BY <2>2 DEF SavePlaced, tail
<1>3. c \in Seq(Cell) /\ Len(c) = j /\ \A i \in 1..j : c[i] = cells[i]
  <2>1. First(First(cells, m), j) = First(cells, j) /\ j \in 0..n
    BY <1>1, <1>2, FirstOfFirst
  <2>2. First(cells, j) \in Seq(Cell) /\ Len(First(cells, j)) = j
        /\ \A i \in 1..j : First(cells, j)[i] = cells[i]
    BY <2>1, FirstFacts
  <2> QED
    BY <2>1, <2>2
<1>4. j \in Nat /\ j <= m /\ m \in Nat /\ m <= n
  BY <1>1, <1>2
<1>5. tail \in Nat /\ tail + m <= max
  BY <1>2
<1> HIDE DEF c, tail
<1>6. /\ w \in Seq(Cell) /\ Len(w) = Larger(Len(file), tail + Len(c))
      /\ \A p \in 1..Len(file) : p <= tail \/ p > tail + Len(c) => w[p] = file[p]
      /\ \A x \in 1..Len(c) : w[tail + x] = c[x]
  <2>1. tail \in Nat /\ file \in Seq(Cell) /\ c \in Seq(Cell)
    BY <1>1, <1>3, <1>5
  <2>2. IsWritten(w, file, tail, c)
    BY <2>1, WrittenFacts
  <2> HIDE DEF w
  <2> QED
    BY <2>2 DEF IsWritten
<1> HIDE DEF w
<1>7. Len(w) = Larger(Len(file), tail + j)
  BY <1>3, <1>6
<1>8. Len(file) <= Len(w) /\ Len(w) <= max /\ tail + j <= Len(w) /\ Len(w) \in Nat
  BY <1>1, <1>4, <1>5, <1>7 DEF Larger
<1>9. \A p \in 1..Len(file) : p <= tail \/ p > tail + m => w[p] = file[p]
  BY <1>1, <1>3, <1>4, <1>5, <1>6
<1>10. ASSUME NEW i \in 1..room
       PROVE  w[After(from, i - 1, max) + 1] = file[After(from, i - 1, max) + 1]
  <2> DEFINE p == After(from, i - 1, max) + 1
  <2>1. p \in 1..Len(file)
    BY RingFacts
  <2>2. p <= tail \/ p > tail + m
    BY <1>2
  <2> HIDE DEF p
  <2>3. w[p] = file[p]
    BY <1>9, <2>1, <2>2
  <2> QED
    BY <2>3 DEF p
<1>11. Geometry(w, max, from, room) /\ RingOf(w, max, from, room) = RingOf(file, max, from, room)
  BY <1>6, <1>8, <1>10, RingKept
<1>12. ASSUME j = m
       PROVE  /\ Geometry(w, max, from, room + n)
              /\ RingOf(w, max, from, room + n) = RingOf(file, max, from, room) \o cells
  <2>1. IF from + room <= max THEN from + room <= Len(file) ELSE Len(file) = max
    BY DEF Geometry
  <2>2. room + n <= max
    OBVIOUS
  <2>3. IF from + (room + n) <= max THEN from + (room + n) <= Len(w) ELSE Len(w) = max
    <3>1. m < n => m = max - tail
      BY <1>2
    <3>2. tail = IF from + room < max THEN from + room ELSE from + room - max
      BY DEF tail, After
    <3> HIDE DEF n
    <3> QED
      BY <1>1, <1>4, <1>5, <1>8, <1>12, <2>1, <2>2, <3>1, <3>2, SMTT(40)
  <2>4. Geometry(w, max, from, room + n)
    BY <1>1, <1>6, <1>8, <2>2, <2>3 DEF Geometry
  <2> DEFINE a == RingOf(w, max, from, room + n)
             b == RingOf(file, max, from, room)
  <2>5. a \in Seq(Cell) /\ Len(a) = room + n
        /\ \A i \in 1..room + n : a[i] = w[After(from, i - 1, max) + 1]
    BY <2>4, RingFacts
  <2>6. b \in Seq(Cell) /\ Len(b) = room
        /\ \A i \in 1..room : b[i] = file[After(from, i - 1, max) + 1]
    BY RingFacts
  <2> HIDE DEF a, b
  <2>7. /\ b \o cells \in Seq(Cell) /\ Len(b \o cells) = room + n
        /\ \A i \in 1..room : (b \o cells)[i] = b[i]
        /\ \A x \in 1..n : (b \o cells)[room + x] = cells[x]
    <3>1. /\ b \o cells \in Seq(Cell) /\ Len(b \o cells) = Len(b) + Len(cells)
          /\ \A i \in 1..Len(b) : (b \o cells)[i] = b[i]
          /\ \A x \in 1..Len(cells) : (b \o cells)[Len(b) + x] = cells[x]
      <4>1. b \in Seq(Cell)
        BY <2>6
      <4> QED
        BY <4>1, ConcatProperties, LenProperties
    <3>2. Len(b) = room
      BY <2>6
    <3> QED
      BY <3>1, <3>2
  <2>8. ASSUME NEW i \in 1..room PROVE a[i] = (b \o cells)[i]
    <3>1. i \in 1..room + n
      BY <1>1
    <3> QED
      BY <1>10, <2>5, <2>6, <2>7, <3>1, SMTT(40)
  <2>9. ASSUME NEW x \in 1..n PROVE a[room + x] = (b \o cells)[room + x]
    <3> DEFINE i == room + x
    <3>1. i \in 1..room + n
      BY <1>1
    <3>2. After(from, i - 1, max) + 1 = IF x <= m THEN tail + x ELSE x - m
      BY <1>2 DEF tail
    <3> HIDE DEF i
    <3>3. a[i] = w[IF x <= m THEN tail + x ELSE x - m]
      BY <2>5, <3>1, <3>2
    <3>4. CASE x <= m
      <4>1. x \in 1..j /\ x \in 1..Len(c)
        BY <1>1, <1>3, <1>4, <1>12, <3>4
      <4>2. w[tail + x] = c[x] /\ c[x] = cells[x]
        BY <1>3, <1>6, <4>1
      <4> QED
        BY <2>7, <3>3, <3>4, <4>2 DEF i
    <3>5. CASE ~(x <= m)
      <4> DEFINE y == x - m
      <4>1. y \in 1..n - m /\ m + y = x /\ m < n
        BY <1>1, <1>4, <3>5
      <4> HIDE DEF y
      <4>2. file[y] = cells[m + y]
        BY <4>1
      <4>3. y \in 1..Len(file) /\ y <= tail
        <5>1. n - m <= from /\ tail = from + room
          BY <1>2, <4>1 DEF tail
        <5> HIDE DEF n
        <5>2. n - m <= Len(file)
          BY DEF n
        <5> QED
          BY <1>1, <1>4, <4>1, <5>1, <5>2, SMTT(40)
      <4>4. w[y] = file[y]
        BY <1>9, <4>3
      <4> QED
        BY <2>7, <3>3, <3>5, <4>1, <4>2, <4>4 DEF i, y
    <3> QED
      BY <3>4, <3>5
  <2>10. ASSUME NEW i \in 1..room + n PROVE a[i] = (b \o cells)[i]
    <3>1. CASE i \in 1..room
      BY <2>8, <3>1
    <3>2. CASE ~(i \in 1..room)
      <4> DEFINE x == i - room
      <4>1. x \in 1..n /\ room + x = i
        BY <1>1, <3>2
      <4> HIDE DEF x
      <4> QED
        BY <2>9, <4>1
    <3> QED
      BY <3>1, <3>2
  <2>11. a = b \o cells
    BY <2>5, <2>7, <2>10, SeqEqual
  <2> QED
    BY <2>4, <2>11 DEF a, b
<1> QED
  BY <1>11, <1>12 DEF w, c, tail

-----------------------------------------------------------------------------
(* Trimming *)

\* Zeroed cells stay in any prefix that has the length that was zeroed.
LEMMA TaintedFirst ==
  ASSUME NEW c \in Seq(Cell), NEW s \in Seq(Element), Contents(c, s, TRUE),
         NEW n \in Nat, Total(s, HeaderCells) + HeaderCells <= n, n <= Len(c)
  PROVE  Contents(First(c, n), s, TRUE)
<1> DEFINE v == Total(s, HeaderCells)
           d == First(c, n)
<1>1. v \in Nat /\ HeaderCells \in Nat /\ Len(c) \in Nat /\ n \in 0..Len(c)
  BY TotalType, LenProperties
<1>2. /\ v + HeaderCells <= n /\ LaidAt(c, 0, s)
      /\ Part(c, v, HeaderCells) = Header(0)
  BY DEF Contents
<1> HIDE DEF v
<1>3. d \in Seq(Cell) /\ Len(d) = n /\ \A i \in 1..n : d[i] = c[i]
  BY <1>1, FirstFacts
<1> HIDE DEF d
<1>4. Agree(d, 0, c, 0, v) /\ Agree(d, v, c, v, HeaderCells)
  BY <1>1, <1>2, <1>3 DEF Agree
<1>5. 0 + v <= Len(d) /\ v + HeaderCells <= Len(d) /\ v + HeaderCells <= Len(c)
  BY <1>1, <1>2, <1>3
<1>6. LaidAt(d, 0, s)
  BY <1>1, <1>2, <1>3, <1>4, <1>5, LaidMoves DEF v
<1>7. Part(d, v, HeaderCells) = Part(c, v, HeaderCells)
  BY <1>1, <1>3, <1>4, <1>5, PartSame
<1> QED
  BY <1>2, <1>5, <1>6, <1>7 DEF Contents, d, v

\* The loop of get_trimmed_size, round by round.
TrimRounds(f, cells) ==
  /\ f \in [Nat -> Nat] /\ f[0] = 0
  /\ \A n \in Nat : f[n + 1] = TrimRecord(cells, f[n])
  /\ TrimmedSize(cells) = f[Len(cells)]

\* It stays within the cells, and does not go on by less than a length.
LEMMA TrimRecordType ==
  ASSUME NEW cells \in Seq(Cell), NEW at \in Nat
  PROVE  /\ TrimRecord(cells, at) \in Nat
         /\ TrimRecord(cells, at) = at
            \/ TrimRecord(cells, at) \in at + HeaderCells..Len(cells)
<1> DEFINE header == SubSeq(cells, at + 1, at + HeaderCells)
           length == LengthIn(header)
<1>1. Len(cells) \in Nat /\ HeaderCells \in Nat /\ HeaderCells >= 1
  BY LenProperties, CircularFileAssumption
<1>2. CASE at + HeaderCells < Len(cells)
  <2>1. header = Part(cells, at, HeaderCells) /\ at + HeaderCells <= Len(cells)
    BY <1>1, <1>2 DEF Part
  <2>2. header \in Seq(Cell) /\ Len(header) = HeaderCells
    <3> HIDE DEF header
    <3> QED
      BY <1>1, <2>1, PartFacts
  <2>3. header # << >>
    <3> HIDE DEF header
    <3> QED
      BY <1>1, <2>2, EmptySeq
  <2>4. length \in Nat \cup {Garbage}
    <3> HIDE DEF header
    <3> QED
      BY <2>2, <2>3, CellsType
  <2>5. TrimRecord(cells, at)
          = IF /\ at + HeaderCells < Len(cells) /\ length # Garbage
               /\ at + HeaderCells + length <= Len(cells)
            THEN at + HeaderCells + length ELSE at
    BY DEF TrimRecord
  <2> HIDE DEF length
  <2> QED
    BY <1>1, <2>4, <2>5
<1>3. CASE ~(at + HeaderCells < Len(cells))
  BY <1>3 DEF TrimRecord
<1> QED
  BY <1>2, <1>3

\* The recursive function in TrimmedSize is the loop over the records.
LEMMA TrimLoop ==
  ASSUME NEW cells \in Seq(Cell)
  PROVE  \E f : TrimRounds(f, cells)
<1> DEFINE round == [at \in Nat |-> TrimRecord(cells, at)]
           after[n \in Nat] == IF n = 0 THEN 0 ELSE round[after[n - 1]]
<1>1. TrimmedSize(cells) = after[Len(cells)]
  BY DEF TrimmedSize
<1>2. round \in [Nat -> Nat] /\ 0 \in Nat
  BY TrimRecordType
<1>3. \A at \in Nat : round[at] = TrimRecord(cells, at)
  OBVIOUS
<1> HIDE DEF round
<1>4. PICK g : LoopEquation(g, 0, round)
  BY <1>2, LoopSolution
<1>5. g = [n \in Nat |-> IF n = 0 THEN 0 ELSE round[g[n - 1]]]
  BY <1>4 DEF LoopEquation
<1>6. after = [n \in Nat |-> IF n = 0 THEN 0 ELSE round[after[n - 1]]]
  BY <1>5
<1>7. LoopEquation(after, 0, round)
  BY <1>6 DEF LoopEquation
<1> HIDE DEF after
<1>8. /\ after \in [Nat -> Nat] /\ after[0] = 0
      /\ \A n \in Nat : after[n + 1] = round[after[n]]
  <2>1. ASSUME NEW S, S = Nat, NEW s0, s0 = 0
        PROVE  /\ after \in [S -> S] /\ after[0] = s0
               /\ \A n \in Nat : after[n + 1] = round[after[n]]
    <3>1. round \in [S -> S] /\ s0 \in S /\ LoopEquation(after, s0, round)
      BY <1>2, <1>7, <2>1
    <3>2. /\ after \in [Nat -> S] /\ after[0] = s0
          /\ \A n \in Nat : after[n + 1] = round[after[n]]
      BY <3>1, LoopFunction, SMTT(40)
    <3> QED
      BY <2>1, <3>2
  <2> QED
    BY <2>1
<1>9. \A n \in Nat : after[n + 1] = TrimRecord(cells, after[n])
  BY <1>3, <1>8
<1> QED
  BY <1>1, <1>8, <1>9 DEF TrimRounds

\* A round goes on by an element, if it is all there.
LEMMA TrimOne ==
  ASSUME NEW c \in Seq(Cell), NEW elems \in Seq(Element), NEW tainted \in BOOLEAN,
         Contents(c, elems, tainted), NEW n \in 0..Len(c), NEW k \in 0..Len(elems) - 1
  PROVE  TrimRecord(First(c, n), Total(First(elems, k), HeaderCells))
           = IF Total(First(elems, k + 1), HeaderCells) <= n
             THEN Total(First(elems, k + 1), HeaderCells)
             ELSE Total(First(elems, k), HeaderCells)
<1> DEFINE m == k + 1
           v == Total(First(elems, k), HeaderCells)
           l == elems[m][2]
           cells == First(c, n)
           header == SubSeq(cells, v + 1, v + HeaderCells)
<1>1. /\ m \in 1..Len(elems) /\ m - 1 = k /\ k \in 0..Len(elems) /\ Len(elems) \in Nat
      /\ HeaderCells \in Nat /\ HeaderCells >= 1 /\ Len(c) \in Nat /\ n \in Nat
  BY LenProperties, CircularFileAssumption
<1> HIDE DEF m
<1>2. /\ v \in Nat /\ l \in Nat \ {0}
      /\ Total(First(elems, m), HeaderCells) = v + (HeaderCells + l)
  BY <1>1, RecordPlace
<1>3. LaidAt(c, 0, elems)
  BY DEF Contents
<1>4. Part(c, 0 + v, HeaderCells) = Header(l)
  BY <1>1, <1>3 DEF LaidAt
<1>5. 0 + v = v
  BY <1>2
<1> HIDE DEF v, l
<1>6. cells \in Seq(Cell) /\ Len(cells) = n /\ \A i \in 1..n : cells[i] = c[i]
  BY FirstFacts
<1> HIDE DEF cells
<1>7. CASE v + HeaderCells < n
  <2>1. v + HeaderCells <= Len(c) /\ v + HeaderCells <= Len(cells)
    BY <1>1, <1>2, <1>6, <1>7
  <2>2. Agree(cells, v, c, v, HeaderCells)
    BY <1>1, <1>2, <1>6, <1>7 DEF Agree
  <2>3. Part(cells, v, HeaderCells) = Part(c, v, HeaderCells)
    BY <1>1, <1>2, <1>6, <2>1, <2>2, PartSame
  <2>4. header = Header(l)
    BY <1>4, <1>5, <2>3 DEF Part
  <2>5. LengthIn(header) = l /\ l # Garbage
    <3>1. LengthIn(Header(l)) = l
      BY <1>2, HeaderFacts
    <3> HIDE DEF header
    <3> QED
      BY <1>2, <2>4, <3>1 DEF Garbage
  <2>6. TrimRecord(cells, v)
          = IF /\ v + HeaderCells < Len(cells) /\ LengthIn(header) # Garbage
               /\ v + HeaderCells + LengthIn(header) <= Len(cells)
            THEN v + HeaderCells + LengthIn(header) ELSE v
    BY DEF TrimRecord
  <2> HIDE DEF header
  <2>7. TrimRecord(cells, v) = IF v + HeaderCells + l <= n THEN v + HeaderCells + l ELSE v
    BY <1>6, <1>7, <2>5, <2>6
  <2>8. v + HeaderCells + l = v + (HeaderCells + l)
    BY <1>1, <1>2
  <2>9. TrimRecord(cells, v) = IF Total(First(elems, m), HeaderCells) <= n
                              THEN Total(First(elems, m), HeaderCells) ELSE v
    BY <1>2, <2>7, <2>8
  <2> QED
    BY <2>9 DEF cells, v, m
<1>8. CASE ~(v + HeaderCells < n)
  <2>1. TrimRecord(cells, v) = v
    BY <1>6, <1>8 DEF TrimRecord
  <2>2. ~(Total(First(elems, m), HeaderCells) <= n)
    BY <1>1, <1>2, <1>8
  <2> QED
    BY <2>1, <2>2 DEF cells, v, m
<1> QED
  BY <1>7, <1>8

\* What is left of whole records is as many of them as there is room for.
LEMMA TrimmedContents ==
  ASSUME NEW c \in Seq(Cell), NEW elems \in Seq(Element), NEW tainted \in BOOLEAN,
         Contents(c, elems, tainted), NEW n \in 0..Len(c),
         NEW k \in 0..Len(elems), Most(elems, HeaderCells, n, k)
  PROVE  LET cells == First(c, n)
             left  == SubSeq(cells, 1, TrimmedSize(cells))
         IN /\ left \in Seq(Cell) /\ Len(left) <= n
            /\ \E t \in {tainted, FALSE} : Contents(left, First(elems, k), t)
<1> DEFINE cells == First(c, n)
           v == Total(First(elems, k), HeaderCells)
           Beyond(at) == /\ tainted /\ k = Len(elems)
                         /\ v + HeaderCells <= at /\ at <= n
           left == First(cells, TrimmedSize(cells))
<1>1. /\ Len(elems) \in Nat /\ k \in Nat /\ Len(c) \in Nat /\ n \in Nat
      /\ HeaderCells \in Nat /\ HeaderCells >= 1
  BY LenProperties, CircularFileAssumption
<1>2. v \in Nat /\ k <= v /\ v <= n
  <2>1. k <= k
    BY <1>1
  <2> QED
    BY <1>1, <2>1, TotalGrows DEF Most
<1>3. cells \in Seq(Cell) /\ Len(cells) = n
  BY FirstFacts
<1>4. PICK f : TrimRounds(f, cells)
  <2> HIDE DEF cells
  <2> QED
    BY <1>3, TrimLoop
<1> DEFINE Q == {i \in Nat : IF i <= k THEN f[i] = Total(First(elems, i), HeaderCells)
                             ELSE f[i] = v \/ Beyond(f[i])}
<1>5. 0 \in Q
  BY <1>1, <1>4, TotalOfFirst DEF TrimRounds
<1>6. ASSUME NEW i \in Nat, i \in Q PROVE i + 1 \in Q
  <2>1. f[i + 1] = TrimRecord(cells, f[i]) /\ f[i] \in Nat
    BY <1>4 DEF TrimRounds
  <2>2. CASE i < k
    <3> DEFINE m == i + 1
    <3>1. i \in 0..Len(elems) - 1 /\ m \in 0..Len(elems) /\ m <= k /\ i <= k
      BY <1>1, <2>2
    <3>2. f[i] = Total(First(elems, i), HeaderCells)
      BY <1>6, <3>1
    <3> HIDE DEF m
    <3>3. Total(First(elems, m), HeaderCells) <= n
      BY <3>1 DEF Most
    <3>4. f[m] = Total(First(elems, m), HeaderCells)
      BY <2>1, <3>1, <3>2, <3>3, TrimOne DEF m
    <3> QED
      BY <3>1, <3>4 DEF m
  <2>3. CASE f[i] = v /\ i >= k
    <3>1. ~(i + 1 <= k)
      BY <1>1, <2>3
    <3>2. CASE k < Len(elems)
      <4> DEFINE m == k + 1
      <4>1. k \in 0..Len(elems) - 1 /\ m \in 0..Len(elems) /\ ~(m <= k)
        BY <1>1, <3>2
      <4> HIDE DEF m
      <4>2. ~(Total(First(elems, m), HeaderCells) <= n)
        BY <4>1 DEF Most
      <4>3. TrimRecord(cells, v) = v
        BY <4>1, <4>2, TrimOne DEF m
      <4> QED
        BY <2>1, <2>3, <3>1, <4>3
    <3>3. CASE k = Len(elems) /\ tainted
      <4>1. TrimRecord(cells, v) = v \/ TrimRecord(cells, v) \in v + HeaderCells..n
        <5> HIDE DEF cells, v
        <5>1. TrimRecord(cells, v) = v \/ TrimRecord(cells, v) \in v + HeaderCells..Len(cells)
          BY <1>2, <1>3, TrimRecordType
        <5> QED
          BY <1>3, <5>1
      <4>2. TrimRecord(cells, v) = v \/ Beyond(TrimRecord(cells, v))
        BY <1>1, <1>2, <3>3, <4>1
      <4> HIDE DEF cells, v, Beyond
      <4> QED
        BY <2>1, <2>3, <3>1, <4>2
    <3>4. CASE k = Len(elems) /\ ~tainted
      <4>1. v = Len(c)
        BY <3>4, FirstAll DEF Contents
      <4>2. ~(v + HeaderCells < Len(cells))
        BY <1>1, <1>3, <4>1
      <4>3. TrimRecord(cells, v) = v
        BY <4>2 DEF TrimRecord
      <4> QED
        BY <2>1, <2>3, <3>1, <4>3
    <3> QED
      BY <1>1, <3>2, <3>3, <3>4
  <2>4. CASE Beyond(f[i]) /\ i >= k
    <3>1. ~(i + 1 <= k)
      BY <1>1, <2>4
    <3>2. TrimRecord(cells, f[i]) = f[i] \/ TrimRecord(cells, f[i]) \in f[i] + HeaderCells..n
      <4> DEFINE at == f[i]
      <4> HIDE DEF cells, v, at
      <4>1. TrimRecord(cells, at) = at \/ TrimRecord(cells, at) \in at + HeaderCells..Len(cells)
        BY <1>3, <2>1, TrimRecordType DEF at
      <4> QED
        BY <1>3, <4>1 DEF at
    <3>3. Beyond(f[i + 1])
      <4> HIDE DEF v, cells
      <4> QED
        BY <1>1, <1>2, <2>1, <2>4, <3>2
    <3> QED
      BY <3>1, <3>3
  <2>5. i < k \/ i >= k
    BY <1>1
  <2>6. i >= k => f[i] = v \/ Beyond(f[i])
    <3>1. CASE i = k
      BY <1>1, <1>6, <3>1
    <3>2. CASE i > k
      BY <1>1, <1>6, <3>2
    <3> QED
      BY <1>1, <3>1, <3>2
  <2> QED
    BY <2>2, <2>3, <2>4, <2>5, <2>6
<1>7. Nat \subseteq Q
  <2> HIDE DEF Q
  <2> QED
    BY <1>5, <1>6, NatSetInduction
<1>8. TrimmedSize(cells) = v \/ Beyond(TrimmedSize(cells))
  <2>1. TrimmedSize(cells) = f[n] /\ n \in Nat
    BY <1>1, <1>3, <1>4 DEF TrimRounds
  <2>2. n \in Q
    BY <1>7, <2>1
  <2>3. CASE n <= k
    <3>1. n = k
      BY <1>1, <1>2, <2>3
    <3> QED
      BY <2>1, <2>2, <2>3, <3>1
  <2>4. CASE ~(n <= k)
    BY <2>1, <2>2, <2>4
  <2> QED
    BY <2>3, <2>4
<1> DEFINE z == TrimmedSize(cells)
<1>9. z \in 0..n /\ First(cells, z) = First(c, z)
  <2>1. z \in 0..n
    <3>1. z = v \/ (v + HeaderCells <= z /\ z <= n)
      BY <1>8
    <3>2. z \in Nat
      <4>1. z = f[n] /\ f \in [Nat -> Nat]
        BY <1>3, <1>4 DEF TrimRounds
      <4> HIDE DEF z
      <4> QED
        BY <1>1, <4>1
    <3> HIDE DEF z, v
    <3> QED
      BY <1>1, <1>2, <3>1, <3>2
  <2> HIDE DEF z
  <2> QED
    BY <2>1, FirstOfFirst
<1>10. z \in 0..Len(c)
  <2> HIDE DEF z
  <2> QED
    BY <1>1, <1>9
<1>11. left \in Seq(Cell) /\ Len(left) = z
  <2> HIDE DEF z
  <2>1. First(c, z) \in Seq(Cell) /\ Len(First(c, z)) = z
    BY <1>10, FirstFacts
  <2> QED
    BY <1>9, <2>1 DEF z
<1>12. \E t \in {tainted, FALSE} : Contents(left, First(elems, k), t)
  <2>1. CASE z = v
    <3>1. Contents(First(c, v), First(elems, k), FALSE)
      BY ContentsFirst
    <3> QED
      BY <1>9, <2>1, <3>1
  <2>2. CASE Beyond(z)
    <3>1. First(elems, k) = elems /\ tainted = TRUE
      BY <2>2, FirstAll
    <3>2. z \in Nat /\ Total(elems, HeaderCells) + HeaderCells <= z /\ z <= Len(c)
      BY <1>1, <1>10, <2>2, <3>1
    <3>3. Contents(c, elems, TRUE)
      BY <3>1
    <3>4. Contents(First(c, z), elems, TRUE)
      <4> HIDE DEF z
      <4> QED
        BY <3>2, <3>3, TaintedFirst
    <3> QED
      BY <1>9, <3>1, <3>4
  <2> QED
    BY <1>8, <2>1, <2>2
<1>13. left = SubSeq(cells, 1, TrimmedSize(cells)) /\ Len(left) <= n
  BY <1>1, <1>9, <1>11 DEF First
<1> QED
  BY <1>11, <1>12, <1>13

-----------------------------------------------------------------------------
(* A power loss *)

\* An element alone, and behind others.
LEMMA OneElement ==
  ASSUME NEW f \in Element, NEW s, s = <<f>>
  PROVE  /\ s \in Seq(Element) /\ Len(s) = 1 /\ s[1] = f
         /\ Total(s, HeaderCells) = HeaderCells + f[2] /\ Total(First(s, 0), HeaderCells) = 0
<1>1. s \in Seq(Element) /\ Len(s) = 1 /\ s[1] = f
  OBVIOUS
<1>2. HeaderCells \in Nat /\ f[2] \in Nat
  BY CircularFileAssumption DEF Element
<1>3. First(s, 1) = s /\ 1 \in 1..Len(s) /\ 1 - 1 = 0
  <2>1. First(s, Len(s)) = s
    BY <1>1, FirstAll
  <2> QED
    BY <1>1, <2>1
<1>4. Total(First(s, 1), HeaderCells)
        = Total(First(s, 1 - 1), HeaderCells) + (HeaderCells + s[1][2])
  BY <1>1, <1>2, <1>3, TotalOfFirst
<1>5. Total(First(s, 0), HeaderCells) = 0
  BY <1>1, <1>2, TotalOfFirst
<1> QED
  BY <1>1, <1>2, <1>3, <1>4, <1>5

\* One element more.
LEMMA ConcatOne ==
  ASSUME NEW S, NEW a \in Seq(S), NEW f \in S
  PROVE  /\ a \o <<f>> \in Seq(S) /\ Len(a \o <<f>>) = Len(a) + 1
         /\ \A i \in 1..Len(a) : (a \o <<f>>)[i] = a[i]
         /\ (a \o <<f>>)[Len(a) + 1] = f
         /\ a \o <<f>> = Append(a, f)
<1>1. Append(a, f) = a \o <<f>>
  BY AppendIsConcat
<1> QED
  BY <1>1, AppendProperties

\* The first k elements, of which the last may have lost its contents.
Survivors(kept, elems, k) ==
  \/ kept = First(elems, k)
  \/ k > 0 /\ kept = [First(elems, k) EXCEPT ![k] = <<0, elems[k][2]>>]

\* The header of a zeroed record is zero.
LEMMA ZeroedHeader ==
  Header(0) \in Seq(Cell) /\ Len(Header(0)) = HeaderCells
  /\ \A x \in 1..HeaderCells : Header(0)[x] = Zero
<1>1. \A x \in 1..HeaderCells : Header(0)[x] = Zero
  BY DEF Header, Zero
<1> QED
  BY <1>1, HeaderFacts

\* n cells of d after the first a are zeroed.
AllZero(d, a, n) == \A x \in 1..n : d[a + x] = Zero

\* Zeroed cells are such a header.
LEMMA ZeroedPart ==
  ASSUME NEW d \in Seq(Cell), NEW a \in Nat, a + HeaderCells <= Len(d),
         AllZero(d, a, HeaderCells)
  PROVE  Part(d, a, HeaderCells) = Header(0)
<1>1. HeaderCells \in Nat
  BY CircularFileAssumption
<1>2. Part(d, a, HeaderCells) \in Seq(Cell) /\ Len(Part(d, a, HeaderCells)) = HeaderCells
      /\ \A x \in 1..HeaderCells : Part(d, a, HeaderCells)[x] = d[a + x]
  BY <1>1, PartFacts
<1>3. \A x \in 1..HeaderCells : Part(d, a, HeaderCells)[x] = Header(0)[x]
  BY <1>2, ZeroedHeader DEF AllZero
<1> QED
  BY <1>2, <1>3, ZeroedHeader, SeqEqual

\* Zeroed from some cell on, whole records are still whole records.
LEMMA ZeroedContents ==
  ASSUME NEW c \in Seq(Cell), NEW elems \in Seq(Element), NEW tainted \in BOOLEAN,
         Contents(c, elems, tainted), NEW keep \in 0..Len(c) - 1,
         NEW d \in Seq(Cell), Len(d) = Len(c),
         \A i \in 1..Len(c) : d[i] = IF i > keep THEN Zero ELSE c[i]
  PROVE  \E k \in 0..Len(elems), kept \in Seq(Element), t \in BOOLEAN :
           Survivors(kept, elems, k) /\ Contents(d, kept, t)
<1>1. /\ Len(c) \in Nat /\ Len(d) \in Nat /\ Len(elems) \in Nat /\ keep \in Nat
      /\ HeaderCells \in Nat /\ HeaderCells >= 1
  BY LenProperties, CircularFileAssumption
<1>2. PICK k \in 0..Len(elems) : Most(elems, HeaderCells, keep, k)
  BY <1>1, MostExists
<1> DEFINE u == First(elems, k)
           v == Total(u, HeaderCells)
<1>3. v \in Nat /\ v <= keep
  <2>1. k <= k
    BY <1>1
  <2> QED
    BY <1>1, <1>2, <2>1, TotalGrows DEF Most
<1>4. LaidAt(c, 0, elems)
  BY DEF Contents
<1>5. u \in Seq(Element) /\ Rest(elems, k) \in Seq(Element) /\ u \o Rest(elems, k) = elems
  BY FirstFacts, RestFacts, FirstThenRest
<1>6. LaidAt(c, 0, u)
  <2> HIDE DEF u
  <2> QED
    BY <1>4, <1>5, LaidConcat, ZenonT(60)
<1>7. LaidAt(d, 0, u)
  <2> HIDE DEF u, v
  <2>1. Agree(d, 0, c, 0, v)
    BY <1>1, <1>3 DEF Agree
  <2>2. 0 + v <= Len(d)
    BY <1>1, <1>3
  <2> QED
    BY <1>5, <1>6, <2>1, <2>2, LaidMoves DEF v
<1>8. CASE k = Len(elems)
  <2>1. u = elems
    BY <1>8, FirstAll
  <2>2. tainted = TRUE
    <3>1. ~tainted => v = Len(c)
      BY <2>1 DEF Contents
    <3> HIDE DEF v
    <3> QED
      BY <1>1, <1>3, <3>1
  <2>3. v + HeaderCells <= Len(c) /\ Part(c, v, HeaderCells) = Header(0)
    BY <2>1, <2>2 DEF Contents
  <2> HIDE DEF u, v
  <2>4. \A x \in 1..HeaderCells : c[v + x] = Zero
    <3>1. \A x \in 1..HeaderCells : Part(c, v, HeaderCells)[x] = c[v + x]
      <4>1. IsPart(Part(c, v, HeaderCells), c, v, HeaderCells)
        BY <1>1, <1>3, <2>3, PartValues
      <4> QED
        BY <4>1 DEF IsPart
    <3> QED
      BY <2>3, <3>1, ZeroedHeader
  <2>5. AllZero(d, v, HeaderCells)
    <3>1. \A x \in 1..HeaderCells : v + x \in 1..Len(c)
      BY <1>1, <1>3, <2>3
    <3> QED
      BY <2>4, <3>1 DEF AllZero
  <2>6. Part(d, v, HeaderCells) = Header(0)
    BY <1>3, <2>3, <2>5, ZeroedPart
  <2>7. Contents(d, u, TRUE)
    BY <1>7, <2>3, <2>6 DEF Contents, v
  <2>8. Survivors(u, elems, k)
    BY DEF Survivors, u
  <2> QED
    BY <1>5, <2>7, <2>8
<1>9. CASE k # Len(elems)
  <2> DEFINE m == k + 1
             e == elems[m]
             l == e[2]
             r == v + (HeaderCells + l)
  <2>1. m \in 1..Len(elems) /\ m - 1 = k /\ m \in 0..Len(elems) /\ ~(m <= k) /\ m > 0
    BY <1>1, <1>9
  <2> HIDE DEF m
  <2>2. /\ l \in Nat \ {0} /\ e \in Element
        /\ Total(First(elems, m), HeaderCells) = r
    BY <2>1, RecordPlace
  <2>3. r > keep /\ r \in Nat
    <3>1. ~(r <= keep)
      BY <1>2, <2>1, <2>2 DEF Most
    <3> HIDE DEF v, l
    <3> QED
      BY <1>1, <1>3, <2>2, <3>1
  <2>4. r <= Len(c)
    <3>1. Total(First(elems, m), HeaderCells) \in 0..Len(c)
      BY <2>1, ContentsFirst
    <3> QED
      BY <1>1, <2>2, <3>1
  <2>5. Part(c, 0 + v, HeaderCells) = Header(l)
    BY <1>4, <2>1 DEF LaidAt
  <2>6. 0 + v = v
    BY <1>3
  <2>7. v + HeaderCells <= Len(c) /\ (v + HeaderCells) + l = r /\ (v + HeaderCells) + l <= Len(c)
        /\ v + HeaderCells \in Nat
    <3> HIDE DEF v, l
    <3> QED
      BY <1>1, <1>3, <2>2, <2>4
  <2>8. CASE v = keep
    <3> HIDE DEF v
    <3>1. AllZero(d, v, HeaderCells)
      BY <1>1, <1>3, <2>7, <2>8, SMTT(40) DEF AllZero
    <3>2. Part(d, v, HeaderCells) = Header(0)
      BY <1>3, <2>7, <3>1, ZeroedPart
    <3>3. Contents(d, u, TRUE)
      BY <1>7, <2>7, <3>2 DEF Contents, v
    <3>4. Survivors(u, elems, k)
      BY DEF Survivors
    <3> HIDE DEF u
    <3> QED
      BY <1>5, <3>3, <3>4
  <2>9. CASE v # keep
    <3> DEFINE f == <<0, l>>
               s == <<f>>
               kept == u \o s
    <3> HIDE DEF v
    <3>1. f \in Element /\ s \in Seq(Element) /\ Len(s) = 1 /\ s[1] = f /\ f[2] = l
      BY <2>2, CircularFileAssumption, SMTT(40) DEF Element
    <3>2. Part(d, v, HeaderCells) = Header(l)
      <4>1. \A x \in 1..HeaderCells : Part(c, v, HeaderCells)[x] = c[v + x]
        <5> HIDE DEF f, s, kept, l, r, e, u
        <5>1. v + HeaderCells <= Len(c)
          BY <2>7
        <5>2. IsPart(Part(c, v, HeaderCells), c, v, HeaderCells)
          BY <1>1, <1>3, <5>1, PartValues
        <5> QED
          BY <5>2 DEF IsPart
      <4>2. \A x \in 1..HeaderCells : c[v + x] = IF x = 1 THEN <<0, l>> ELSE Zero
        BY <2>2, <2>5, <2>6, <4>1, HeaderFacts
      <4>3. Agree(d, v, c, v, HeaderCells)
        <5> SUFFICES ASSUME NEW x \in 1..HeaderCells PROVE d[v + x] = c[v + x]
          BY DEF Agree
        <5> DEFINE i == v + x
        <5>1. i \in 1..Len(c) /\ (x = 1 => ~(i > keep))
          BY <1>1, <1>3, <2>7, <2>9
        <5>2. x # 1 => c[i] = Zero
          BY <4>2
        <5> HIDE DEF i
        <5>3. d[i] = c[i]
          <6>1. CASE x = 1
            BY <5>1, <6>1
          <6>2. CASE x # 1
            BY <5>1, <5>2, <6>2
          <6> QED
            BY <6>1, <6>2
        <5> QED
          BY <5>3 DEF i
      <4>4. Part(d, v, HeaderCells) = Part(c, v, HeaderCells)
        BY <1>1, <1>3, <2>7, <4>3, PartSame
      <4> QED
        BY <2>5, <2>6, <4>4
    <3> DEFINE w == v + HeaderCells
               y == Part(d, w, l)
    <3>3. y \in Seq(Cell) /\ Len(y) = l /\ \A x \in 1..l : y[x] = d[w + x]
      <4> HIDE DEF w, l, f, s, kept, r, e, u
      <4>1. w \in Nat /\ w + l <= Len(d) /\ l \in Nat
        BY <2>2, <2>7 DEF w
      <4>2. y \in Seq(Cell) /\ Len(y) = l /\ IsPart(y, d, w, l)
        BY <4>1, PartValues
      <4> QED
        BY <4>2 DEF IsPart
    <3>4. y[l] = Zero
      <4>1. w + l = r /\ r \in 1..Len(c) /\ l \in 1..l
        BY <2>2, <2>3, <2>4, <2>7
      <4> HIDE DEF w, l, y, r
      <4>2. y[l] = d[r]
        BY <3>3, <4>1
      <4> QED
        BY <2>3, <4>1, <4>2
    <3>5. ElementIn(y) = f
      <4>1. DOMAIN y = 1..l /\ l \in 1..l
        BY <2>2, <3>3, LenProperties
      <4> HIDE DEF y, l
      <4>2. ASSUME NEW z, y = [i \in DOMAIN y |-> <<z, i>>] PROVE FALSE
        <5>1. y[l] = <<z, l>>
          BY <4>1, <4>2
        <5>2. l = 0
          BY <3>4, <5>1 DEF Zero
        <5> QED
          BY <2>2, <5>2
      <4>3. y # [i \in DOMAIN y |-> <<y[1][1], i>>]
        BY <4>2
      <4> QED
        BY <3>3, <4>3 DEF ElementIn
    <3>6. Total(s, HeaderCells) = HeaderCells + l /\ Total(First(s, 0), HeaderCells) = 0
      BY <3>1, OneElement
    <3>7. LaidAt(d, v, s)
      <4>1. \A i \in 1..Len(s) : i = 1 /\ First(s, i - 1) = First(s, 0)
        BY <3>1
      <4>2. /\ v + 0 = v /\ v + Total(First(s, 0), HeaderCells) = v
            /\ v + Total(s, HeaderCells) <= Len(d)
        BY <1>3, <2>4, <3>6
      <4>3. s[1][2] = l
        BY <3>1
      <4> HIDE DEF s, f, l
      <4> QED
        BY <3>1, <3>2, <3>5, <4>1, <4>2, <4>3 DEF LaidAt, w, y
    <3>8. LaidAt(d, 0, kept) /\ Total(kept, HeaderCells) = r
          /\ kept \in Seq(Element) /\ Len(kept) = k + 1
      <4>1. Len(u) = k
        BY FirstFacts
      <4> HIDE DEF u, s
      <4>2. LaidAt(d, 0 + Total(u, HeaderCells), s)
        BY <2>6, <3>7 DEF v
      <4>3. LaidAt(d, 0, kept)
        BY <1>5, <1>7, <3>1, <4>2, LaidConcat
      <4>4. Total(kept, HeaderCells) = Total(u, HeaderCells) + Total(s, HeaderCells)
        BY <1>1, <1>5, <3>1, TotalOfConcat
      <4>5. kept \in Seq(Element) /\ Len(kept) = Len(u) + Len(s)
        BY <1>5, <3>1, ConcatProperties
      <4> QED
        BY <3>1, <3>6, <4>1, <4>3, <4>4, <4>5 DEF v
    <3>9. Survivors(kept, elems, m)
      <4> DEFINE g == First(elems, m)
                 h == [g EXCEPT ![m] = f]
      <4>1. g \in Seq(Element) /\ Len(g) = m /\ \A i \in 1..m : g[i] = elems[i]
        BY <2>1, FirstFacts
      <4>2. u \in Seq(Element) /\ Len(u) = k /\ \A i \in 1..k : u[i] = elems[i]
        BY FirstFacts
      <4>3. DOMAIN g = 1..m
        BY <4>1, LenProperties
      <4> HIDE DEF g, u, s, f
      <4>4. \A i \in 1..Len(u) : kept[i] = u[i]
        BY <1>5, <3>1, ConcatOne DEF s
      <4>5. kept[m] = f
        <5>1. Len(u) + 1 = m
          BY <4>2 DEF m
        <5>2. kept[Len(u) + 1] = f
          BY <1>5, <3>1, ConcatOne DEF s
        <5> QED
          BY <5>1, <5>2
      <4>6. \A i \in 1..m : i \in 1..k \/ i = m
        BY <1>1, <2>1
      <4>7. h \in [1..m -> Element] /\ \A i \in 1..m : h[i] = IF i = m THEN f ELSE g[i]
        <5>1. \A i \in 1..m : g[i] \in Element
          BY <4>1, ElementOfSeq
        <5> QED
          BY <2>1, <3>1, <4>3, <5>1
      <4> HIDE DEF h
      <4>8. h \in Seq(Element) /\ Len(h) = m
        BY <2>1, <4>7, FunctionIsSeq
      <4>9. \A i \in 1..m : kept[i] = h[i]
        <5> HIDE DEF kept
        <5>1. \A i \in 1..k : i # m /\ i \in 1..m
          BY <1>1, <2>1
        <5> QED
          BY <4>1, <4>2, <4>4, <4>5, <4>6, <4>7, <5>1
      <4>10. kept = h
        <5>1. Len(kept) = m
          BY <3>8 DEF m
        <5> QED
          BY <3>8, <4>8, <4>9, <5>1, SeqEqual
      <4> QED
        BY <2>1, <4>10 DEF Survivors, h, g, f
    <3>10. \E t \in BOOLEAN : Contents(d, kept, t)
      <4>1. CASE r = Len(c)
        <5>1. Contents(d, kept, FALSE)
          BY <3>8, <4>1 DEF Contents
        <5> QED
          BY <5>1
      <4>2. CASE r # Len(c)
        <5>1. r + HeaderCells <= Len(c)
          <6>1. CASE m < Len(elems)
            <7> DEFINE q == m + 1
            <7>1. q \in 1..Len(elems) /\ q - 1 = m /\ q \in 0..Len(elems)
              BY <1>1, <2>1, <6>1
            <7> HIDE DEF q
            <7>2. /\ Total(First(elems, q), HeaderCells)
                       = Total(First(elems, m), HeaderCells) + (HeaderCells + elems[q][2])
                  /\ elems[q][2] \in Nat
              BY <7>1, RecordPlace
            <7>3. Total(First(elems, q), HeaderCells) \in 0..Len(c)
              BY <7>1, ContentsFirst
            <7> HIDE DEF r
            <7> QED
              BY <1>1, <2>2, <2>3, <7>2, <7>3, SMTT(40)
          <6>2. CASE ~(m < Len(elems))
            <7>1. m = Len(elems)
              BY <1>1, <2>1, <6>2
            <7>2. Total(elems, HeaderCells) = r
              BY <2>2, <7>1, FirstAll
            <7>3. tainted = TRUE
              BY <4>2, <7>2 DEF Contents
            <7> QED
              BY <7>2, <7>3 DEF Contents
          <6> QED
            BY <6>1, <6>2
        <5> HIDE DEF r
        <5>2. AllZero(d, r, HeaderCells)
          BY <1>1, <2>3, <5>1 DEF AllZero
        <5>3. Part(d, r, HeaderCells) = Header(0)
          BY <2>3, <5>1, <5>2, ZeroedPart
        <5>4. Contents(d, kept, TRUE)
          BY <3>8, <5>1, <5>3 DEF Contents
        <5> QED
          BY <5>4
      <4> QED
        BY <4>1, <4>2
    <3> HIDE DEF kept
    <3> QED
      BY <2>1, <3>8, <3>9, <3>10
  <2> QED
    BY <2>8, <2>9
<1> QED
  BY <1>8, <1>9

\* The cells of a ring from the one after keep of them on.
Lost(max, from, room, keep) == {After(from, i, max) + 1 : i \in keep..room - 1}

\* The file, and the cells of it, once those are zeroed.
Zeroed(file, lost)     == [p \in DOMAIN file |-> IF p \in lost THEN Zero ELSE file[p]]
ZeroedFrom(d, c, n, keep) == \A i \in 1..n : d[i] = IF i > keep THEN Zero ELSE c[i]

\* The ring after a power loss.
LEMMA RingZeroed ==
  ASSUME NEW file, NEW max, NEW from, NEW room, Geometry(file, max, from, room),
         NEW keep \in 0..room - 1,
         NEW other, other = Zeroed(file, Lost(max, from, room, keep))
  PROVE  /\ Geometry(other, max, from, room)
         /\ ZeroedFrom(RingOf(other, max, from, room), RingOf(file, max, from, room), room, keep)
<1> DEFINE lost == Lost(max, from, room, keep)
<1>a. other = [p \in DOMAIN file |-> IF p \in lost THEN Zero ELSE file[p]]
  BY DEF Zeroed
<1>b. lost = {After(from, i, max) + 1 : i \in keep..room - 1}
  BY DEF Lost
<1> HIDE DEF lost
<1>1. /\ file \in Seq(Cell) /\ max \in Nat /\ from \in Nat /\ room \in Nat /\ Len(file) \in Nat
      /\ from < max \/ (from = 0 /\ max = 0)
      /\ room <= max /\ Len(file) <= max
      /\ IF from + room <= max THEN from + room <= Len(file) ELSE Len(file) = max
  BY LenProperties DEF Geometry
<1>2. DOMAIN file = 1..Len(file) /\ \A p \in 1..Len(file) : file[p] \in Cell
  BY <1>1, LenProperties, ElementOfSeq
<1>3. other \in [1..Len(file) -> Cell]
  BY <1>2, <1>a, ZeroIsCell
<1>4. other \in Seq(Cell) /\ Len(other) = Len(file)
  BY <1>1, <1>3, FunctionIsSeq
<1>5. Geometry(other, max, from, room)
  BY <1>1, <1>4 DEF Geometry
<1>6. ASSUME NEW i \in 1..room
      PROVE  After(from, i - 1, max) + 1 \in lost <=> i > keep
  <2>1. \A j \in keep..room - 1 : After(from, j, max) = After(from, i - 1, max) => j = i - 1
    BY <1>1 DEF After
  <2>2. \A j \in keep..room - 1 : After(from, j, max) \in Int
    BY <1>1 DEF After
  <2>3. i - 1 \in keep..room - 1 <=> i > keep
    BY <1>1
  <2>4. After(from, i - 1, max) \in Int
    BY <1>1 DEF After
  <2>5. \A j \in keep..room - 1 :
          After(from, j, max) + 1 = After(from, i - 1, max) + 1 => j = i - 1
    BY <2>1, <2>2, <2>4
  <2> QED
    BY <1>b, <2>3, <2>5
<1>7. \A i \in 1..room : /\ After(from, i - 1, max) + 1 \in 1..Len(file)
                         /\ RingOf(file, max, from, room)[i]
                              = file[After(from, i - 1, max) + 1]
  BY RingFacts
<1>8. \A i \in 1..room : RingOf(other, max, from, room)[i]
                           = other[After(from, i - 1, max) + 1]
  BY DEF RingOf
<1> QED
  BY <1>2, <1>5, <1>6, <1>7, <1>8, <1>a DEF ZeroedFrom
=============================================================================
