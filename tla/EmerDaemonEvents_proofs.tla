------------------------ MODULE EmerDaemonEvents_proofs ------------------------
(***************************************************************************)
(* Where the events are and in which order: what is proved of the cache,   *)
(* the buffer and the write buffer of EmerDaemon as sequences.             *)
(***************************************************************************)
EXTENDS EmerDaemon_proofs, FiniteSetTheorems

-----------------------------------------------------------------------------
(* Costs.                                                                  *)

\* A sequence has finitely many events of a kind.
LEMMA PositionsType ==
  ASSUME NEW s \in Seq(Event), NEW events
  PROVE  /\ IsFiniteSet(Positions(s, events))
         /\ Cardinality(Positions(s, events)) \in Nat
<1>1. Len(s) \in Nat /\ DOMAIN s = 1..Len(s)
  BY LenProperties
<1>2. IsFiniteSet(1..Len(s))
  BY <1>1, FS_Interval
<1>3. Positions(s, events) \in SUBSET (1..Len(s))
  BY <1>1 DEF Positions
<1>4. IsFiniteSet(Positions(s, events))
  BY <1>2, <1>3, FS_Subset
<1> QED
  BY <1>4, FS_CardinalityType

\* Two sequences, one after the other, have as many events of a kind as both.
LEMMA PositionsConcat ==
  ASSUME NEW s \in Seq(Event), NEW t \in Seq(Event), NEW events
  PROVE  Cardinality(Positions(s \o t, events))
           = Cardinality(Positions(s, events)) + Cardinality(Positions(t, events))
<1>1. /\ s \o t \in Seq(Event)
      /\ Len(s \o t) = Len(s) + Len(t)
      /\ \A i \in 1..Len(s) : (s \o t)[i] = s[i]
      /\ \A i \in 1..Len(t) : (s \o t)[i + Len(s)] = t[i]
  BY ConcatProperties, LenProperties
<1>2. /\ Len(s) \in Nat /\ Len(t) \in Nat
      /\ DOMAIN s = 1..Len(s) /\ DOMAIN t = 1..Len(t)
      /\ DOMAIN (s \o t) = 1..Len(s) + Len(t)
  BY <1>1, LenProperties
<1> DEFINE shift == [i \in Positions(t, events) |-> i + Len(s)]
           moved == {i + Len(s) : i \in Positions(t, events)}
<1>3. Positions(s, events) \subseteq 1..Len(s) /\ Positions(t, events) \subseteq 1..Len(t)
  BY <1>2 DEF Positions
<1>4. Positions(s \o t, events) = Positions(s, events) \cup moved
  <2>1. ASSUME NEW i \in Positions(s \o t, events) PROVE i \in Positions(s, events) \cup moved
    <3>1. i \in 1..Len(s) + Len(t) /\ (s \o t)[i] \in events
      BY <1>2 DEF Positions
    <3>2. CASE i <= Len(s)
      BY <1>1, <1>2, <3>1, <3>2 DEF Positions
    <3>3. CASE i > Len(s)
      <4>1. i - Len(s) \in 1..Len(t) /\ i = (i - Len(s)) + Len(s)
        BY <1>2, <3>1, <3>3
      <4>2. t[i - Len(s)] \in events
        BY <1>1, <3>1, <4>1
      <4>3. i - Len(s) \in Positions(t, events)
        BY <1>2, <4>1, <4>2 DEF Positions
      <4> QED
        BY <4>1, <4>3
    <3> QED
      BY <1>2, <3>1, <3>2, <3>3
  <2>2. ASSUME NEW i \in Positions(s, events) PROVE i \in Positions(s \o t, events)
    <3>1. i \in 1..Len(s) /\ s[i] \in events
      BY <1>2 DEF Positions
    <3>2. i \in DOMAIN (s \o t) /\ (s \o t)[i] = s[i]
      BY <1>1, <1>2, <3>1
    <3> QED
      BY <3>1, <3>2 DEF Positions
  <2>3. ASSUME NEW i \in Positions(t, events) PROVE i + Len(s) \in Positions(s \o t, events)
    <3>1. i \in 1..Len(t) /\ t[i] \in events
      BY <1>2 DEF Positions
    <3>2. i + Len(s) \in DOMAIN (s \o t) /\ (s \o t)[i + Len(s)] = t[i]
      BY <1>1, <1>2, <3>1
    <3> QED
      BY <3>1, <3>2 DEF Positions
  <2> QED
    BY <2>1, <2>2, <2>3
<1>5. Positions(s, events) \cap moved = {}
  BY <1>2, <1>3
<1>6. shift \in Bijection(Positions(t, events), moved)
  <2>1. \A i, j \in Positions(t, events) : i + Len(s) = j + Len(s) => i = j
    BY <1>2, <1>3
  <2> QED
    BY <2>1 DEF Bijection, Injection, Surjection, IsInjective
<1>7. IsFiniteSet(Positions(t, events)) /\ IsFiniteSet(Positions(s, events))
  BY PositionsType
<1>8. IsFiniteSet(moved) /\ Cardinality(moved) = Cardinality(Positions(t, events))
  <2>1. ExistsBijection(Positions(t, events), moved)
    BY <1>6 DEF ExistsBijection
  <2> QED
    BY <1>7, <2>1, FS_Bijection
<1>9. Cardinality(Positions(s \o t, events)) = Cardinality(Positions(s, events)) + Cardinality(Positions(t, events))
  <2>1. Cardinality(Positions(s, events) \cup moved)
          = Cardinality(Positions(s, events)) + Cardinality(moved) - Cardinality({})
    BY <1>5, <1>7, <1>8, FS_Union
  <2>2. Cardinality({}) = 0
    BY FS_EmptySet
  <2>3. Cardinality(Positions(s, events)) \in Nat /\ Cardinality(Positions(t, events)) \in Nat
    BY PositionsType
  <2> QED
    BY <1>4, <1>8, <2>1, <2>2, <2>3
<1> QED
  BY <1>9

\* The cost of a sequence is a number.
LEMMA CostType ==
  ASSUME NEW s \in Seq(Event)
  PROVE  CostOf(s) \in Nat
<1> DEFINE a == Cardinality(Positions(s, Large))
           b == Cardinality(Positions(s, Oversized))
<1>1. a \in Nat /\ b \in Nat
  BY PositionsType
<1>2. CostOf(s) = (Len(s) + a) + MaxRequestPayload * b
  BY DEF CostOf
<1>3. Len(s) \in Nat /\ MaxRequestPayload \in Nat
  BY LenProperties, DaemonAssumption
<1> HIDE DEF a, b
<1>4. MaxRequestPayload * b \in Nat
  BY <1>1, <1>3
<1> QED
  BY <1>1, <1>2, <1>3, <1>4

\* An empty sequence costs nothing.
LEMMA EmptyCost == CostOf(<<>>) = 0
<1>1. Len(<<>>) = 0 /\ DOMAIN <<>> = {}
  BY EmptySeq
<1>2. Positions(<<>>, Large) = {} /\ Positions(<<>>, Oversized) = {}
  BY <1>1 DEF Positions
<1>3. Cardinality(Positions(<<>>, Large)) = 0 /\ Cardinality(Positions(<<>>, Oversized)) = 0
  BY <1>2, FS_EmptySet
<1>4. MaxRequestPayload * 0 = 0
  BY DaemonAssumption
<1> QED
  BY <1>1, <1>3, <1>4 DEF CostOf

\* The cost of two sequences is that of one after the other, so the room in the
\* cache can be counted element by element (emer_circular_file_append).
LEMMA ConcatCost ==
  ASSUME NEW s \in Seq(Event), NEW t \in Seq(Event)
  PROVE  CostOf(s \o t) = CostOf(s) + CostOf(t)
<1> DEFINE a == Cardinality(Positions(s, Oversized))
           b == Cardinality(Positions(t, Oversized))
           c == Cardinality(Positions(s, Large))
           d == Cardinality(Positions(t, Large))
<1>1. /\ s \o t \in Seq(Event)
      /\ Len(s \o t) = Len(s) + Len(t)
      /\ Len(s) \in Nat /\ Len(t) \in Nat
  BY ConcatProperties, LenProperties
<1>2. a \in Nat /\ b \in Nat /\ c \in Nat /\ d \in Nat
  BY PositionsType
<1>3. /\ CostOf(s) = (Len(s) + c) + MaxRequestPayload * a
      /\ CostOf(t) = (Len(t) + d) + MaxRequestPayload * b
  BY DEF CostOf
<1>4. /\ Cardinality(Positions(s \o t, Oversized)) = a + b
      /\ Cardinality(Positions(s \o t, Large)) = c + d
  BY PositionsConcat
<1>5. CostOf(s \o t) = ((Len(s) + Len(t)) + (c + d)) + MaxRequestPayload * (a + b)
  BY <1>1, <1>4 DEF CostOf
<1>6. MaxRequestPayload \in Nat
  BY DaemonAssumption
<1> HIDE DEF a, b, c, d
<1>7. MaxRequestPayload * (a + b) = MaxRequestPayload * a + MaxRequestPayload * b
  BY <1>2, <1>6
<1>8. MaxRequestPayload * a \in Nat /\ MaxRequestPayload * b \in Nat
  BY <1>2, <1>6
<1> QED
  BY <1>1, <1>2, <1>3, <1>5, <1>7, <1>8

-----------------------------------------------------------------------------
(* Parts.  Whatever the daemon does to the cache or to the buffer leaves a  *)
(* part of it, in its order, to which events may be appended.               *)

\* The events that are in s at two places.
Twice(s) ==
  {event \in Event : \E i, j \in DOMAIN s : i # j /\ s[i] = event /\ s[j] = event}

\* What a part of a sequence inherits from it.
Part(p, s) ==
  /\ p \in Seq(Event)
  /\ Range(p) \subseteq Range(s)
  /\ Twice(p) \subseteq Twice(s)
  /\ Increasing(s) => Increasing(p)
  /\ CostOf(p) <= CostOf(s)

\* A sequence and the empty one are parts of it.
LEMMA PartTrivial ==
  ASSUME NEW s \in Seq(Event)
  PROVE  Part(s, s) /\ Part(<<>>, s)
<1>1. <<>> \in Seq(Event) /\ DOMAIN <<>> = {}
  BY EmptySeq
<1>2. Range(<<>>) = {} /\ Twice(<<>>) = {} /\ Increasing(<<>>)
  BY <1>1 DEF Range, Twice, Increasing
<1>3. CostOf(s) \in Nat /\ CostOf(<<>>) = 0
  BY CostType, EmptyCost
<1> QED
  BY <1>1, <1>2, <1>3 DEF Part

\* Both halves of a sequence are parts of it, an event that is in both is in it
\* twice, and the first half of an ordered sequence comes before the second.
LEMMA ConcatParts ==
  ASSUME NEW s \in Seq(Event), NEW t \in Seq(Event)
  PROVE  /\ Part(s, s \o t)
         /\ Part(t, s \o t)
         /\ Range(s) \cap Range(t) \subseteq Twice(s \o t)
         /\ Increasing(s \o t) => \A a \in Range(s), b \in Range(t) : a < b
<1> DEFINE u == s \o t
<1>1. /\ u \in Seq(Event)
      /\ \A i \in 1..Len(s) : u[i] = s[i]
      /\ \A i \in 1..Len(t) : u[i + Len(s)] = t[i]
      /\ Len(s) \in Nat /\ Len(t) \in Nat
      /\ DOMAIN s = 1..Len(s) /\ DOMAIN t = 1..Len(t)
      /\ DOMAIN u = 1..Len(s) + Len(t)
  BY ConcatProperties, LenProperties
<1>2. Range(u) = Range(s) \cup Range(t)
  BY ConcatRange
<1>3. CostOf(s) <= CostOf(u) /\ CostOf(t) <= CostOf(u)
  BY CostType, ConcatCost
<1> HIDE DEF u
<1>4. ASSUME NEW i \in DOMAIN s PROVE i \in DOMAIN u /\ u[i] = s[i]
  BY <1>1
<1>5. ASSUME NEW i \in DOMAIN t PROVE i + Len(s) \in DOMAIN u /\ u[i + Len(s)] = t[i]
  BY <1>1
<1>6. Twice(s) \subseteq Twice(u) /\ (Increasing(u) => Increasing(s))
  BY <1>4 DEF Twice, Increasing
<1>7. \A i, j \in DOMAIN t : /\ i # j => i + Len(s) # j + Len(s)
                            /\ i < j => i + Len(s) < j + Len(s)
  BY <1>1
<1>8. Twice(t) \subseteq Twice(u)
  BY <1>5, <1>7 DEF Twice
<1>9. ASSUME Increasing(u), NEW i \in DOMAIN t, NEW j \in DOMAIN t, i < j
      PROVE  t[i] < t[j]
  <2>1. i + Len(s) \in DOMAIN u /\ j + Len(s) \in DOMAIN u /\ i + Len(s) < j + Len(s)
    BY <1>5, <1>7, <1>9
  <2>2. u[i + Len(s)] < u[j + Len(s)]
    BY <1>9, <2>1 DEF Increasing
  <2> QED
    BY <1>5, <2>2
<1>10. ASSUME NEW i \in DOMAIN s, NEW j \in DOMAIN t
       PROVE  /\ i \in DOMAIN u /\ j + Len(s) \in DOMAIN u /\ i < j + Len(s)
              /\ u[i] = s[i] /\ u[j + Len(s)] = t[j]
  BY <1>1
<1>11. Range(s) \cap Range(t) \subseteq Twice(u)
  <2> SUFFICES ASSUME NEW e \in Range(s), e \in Range(t) PROVE e \in Twice(u)
    OBVIOUS
  <2>1. PICK i \in DOMAIN s : s[i] = e
    BY DEF Range
  <2>2. PICK j \in DOMAIN t : t[j] = e
    BY DEF Range
  <2>3. /\ i \in DOMAIN u /\ j + Len(s) \in DOMAIN u /\ i # j + Len(s)
        /\ u[i] = e /\ u[j + Len(s)] = e
    BY <1>1, <1>10, <2>1, <2>2
  <2>4. e \in Event
    BY RangeType
  <2> QED
    BY <2>3, <2>4 DEF Twice
<1>12. ASSUME Increasing(u), NEW a \in Range(s), NEW b \in Range(t) PROVE a < b
  <2>1. PICK i \in DOMAIN s : s[i] = a
    BY DEF Range
  <2>2. PICK j \in DOMAIN t : t[j] = b
    BY DEF Range
  <2> QED
    BY <1>10, <1>12, <2>1, <2>2 DEF Increasing
<1>13. Increasing(u) => Increasing(t)
  BY <1>9 DEF Increasing
<1> QED
  BY <1>1, <1>2, <1>3, <1>6, <1>8, <1>11, <1>12, <1>13 DEF Part, u

\* An event that is in s \o t twice is in s twice, in t twice, or in both.
LEMMA ConcatTwice ==
  ASSUME NEW s \in Seq(Event), NEW t \in Seq(Event)
  PROVE  Twice(s \o t) \subseteq Twice(s) \cup Twice(t) \cup (Range(s) \cap Range(t))
<1> DEFINE u == s \o t
<1>1. /\ \A i \in 1..Len(s) : u[i] = s[i]
      /\ \A i \in 1..Len(t) : u[i + Len(s)] = t[i]
      /\ Len(s) \in Nat /\ Len(t) \in Nat
      /\ DOMAIN s = 1..Len(s) /\ DOMAIN t = 1..Len(t)
      /\ DOMAIN u = 1..Len(s) + Len(t)
  BY ConcatProperties, LenProperties
<1> HIDE DEF u
<1>2. ASSUME NEW i \in DOMAIN u
      PROVE  \/ i \in DOMAIN s /\ u[i] = s[i]
             \/ i - Len(s) \in DOMAIN t /\ u[i] = t[i - Len(s)]
  <2>1. CASE i <= Len(s)
    BY <1>1, <2>1
  <2>2. CASE i > Len(s)
    <3>1. i - Len(s) \in 1..Len(t) /\ (i - Len(s)) + Len(s) = i
      BY <1>1, <2>2
    <3> QED
      BY <1>1, <3>1
  <2> QED
    BY <1>1, <2>1, <2>2
<1>3. ASSUME NEW e \in Twice(u)
      PROVE  e \in Twice(s) \cup Twice(t) \cup (Range(s) \cap Range(t))
  <2>1. PICK i \in DOMAIN u, j \in DOMAIN u : i # j /\ u[i] = e /\ u[j] = e
    BY DEF Twice
  <2>2. e \in Event
    BY DEF Twice
  <2>3. CASE i \in DOMAIN s /\ j \in DOMAIN s /\ u[i] = s[i] /\ u[j] = s[j]
    BY <2>1, <2>2, <2>3 DEF Twice
  <2>4. CASE /\ i - Len(s) \in DOMAIN t /\ u[i] = t[i - Len(s)]
             /\ j - Len(s) \in DOMAIN t /\ u[j] = t[j - Len(s)]
    <3>1. i - Len(s) # j - Len(s)
      BY <1>1, <2>1
    <3> QED
      BY <2>1, <2>2, <2>4, <3>1 DEF Twice
  <2>5. CASE \/ /\ i \in DOMAIN s /\ u[i] = s[i]
                /\ j - Len(s) \in DOMAIN t /\ u[j] = t[j - Len(s)]
             \/ /\ j \in DOMAIN s /\ u[j] = s[j]
                /\ i - Len(s) \in DOMAIN t /\ u[i] = t[i - Len(s)]
    BY <2>1, <2>5 DEF Range
  <2> QED
    BY <1>2, <2>3, <2>4, <2>5
<1> QED
  BY <1>3 DEF u

\* Two increasing sequences, the first of which ends before the second begins,
\* make one.
LEMMA ConcatIncreasing ==
  ASSUME NEW s \in Seq(Event), NEW t \in Seq(Event),
         Increasing(s), Increasing(t), \A a \in Range(s), b \in Range(t) : a < b
  PROVE  Increasing(s \o t)
<1> DEFINE u == s \o t
<1>1. /\ \A i \in 1..Len(s) : u[i] = s[i]
      /\ \A i \in 1..Len(t) : u[i + Len(s)] = t[i]
      /\ Len(s) \in Nat /\ Len(t) \in Nat
      /\ DOMAIN s = 1..Len(s) /\ DOMAIN t = 1..Len(t)
      /\ DOMAIN u = 1..Len(s) + Len(t)
  BY ConcatProperties, LenProperties
<1> HIDE DEF u
<1>2. ASSUME NEW i \in DOMAIN u, NEW j \in DOMAIN u, i < j PROVE u[i] < u[j]
  <2>1. CASE j <= Len(s)
    <3>1. i \in DOMAIN s /\ j \in DOMAIN s /\ u[i] = s[i] /\ u[j] = s[j]
      BY <1>1, <1>2, <2>1
    <3> QED
      BY <1>2, <3>1 DEF Increasing
  <2>2. CASE i > Len(s)
    <3>1. /\ i - Len(s) \in DOMAIN t /\ j - Len(s) \in DOMAIN t
          /\ i - Len(s) < j - Len(s)
          /\ (i - Len(s)) + Len(s) = i /\ (j - Len(s)) + Len(s) = j
      <4>1. i \in 1..Len(s) + Len(t) /\ j \in 1..Len(s) + Len(t)
        BY <1>1
      <4>2. i - Len(s) \in 1..Len(t) /\ j - Len(s) \in 1..Len(t)
        BY <1>1, <1>2, <2>2, <4>1
      <4>3. i \in Int /\ j \in Int /\ Len(s) \in Int
        BY <1>1, <4>1
      <4>4. /\ i - Len(s) < j - Len(s)
            /\ (i - Len(s)) + Len(s) = i /\ (j - Len(s)) + Len(s) = j
        BY <1>2, <4>3
      <4> QED
        BY <1>1, <4>2, <4>4
    <3>2. u[i] = t[i - Len(s)] /\ u[j] = t[j - Len(s)]
      BY <1>1, <3>1
    <3> QED
      BY <3>1, <3>2 DEF Increasing
  <2>3. CASE i <= Len(s) /\ j > Len(s)
    <3>1. /\ i \in DOMAIN s /\ j - Len(s) \in DOMAIN t
          /\ (j - Len(s)) + Len(s) = j
      BY <1>1, <1>2, <2>3
    <3>2. u[i] = s[i] /\ u[j] = t[j - Len(s)]
      BY <1>1, <3>1
    <3>3. s[i] \in Range(s) /\ t[j - Len(s)] \in Range(t)
      BY <3>1 DEF Range
    <3> QED
      BY <3>2, <3>3
  <2> QED
    BY <1>1, <2>1, <2>2, <2>3
<1> QED
  BY <1>2 DEF u, Increasing

\* What First and Without make of a sequence are parts of it, which it is made of.
LEMMA SplitParts ==
  ASSUME NEW s \in Seq(Event), NEW k \in 0..Len(s)
  PROVE  /\ First(s, k) \o Without(s, k) = s
         /\ Part(First(s, k), s)
         /\ Part(Without(s, k), s)
         /\ Range(First(s, k)) \cap Range(Without(s, k)) \subseteq Twice(s)
<1>1. /\ Len(s) \in Nat
      /\ 1 \in 1..Len(s) + 1
      /\ k \in 1 - 1..Len(s)
      /\ Len(s) \in k..Len(s)
  BY LenProperties
<1>2. SubSeq(s, 1, k) \o SubSeq(s, k + 1, Len(s)) = SubSeq(s, 1, Len(s))
  BY <1>1, ConcatAdjacentSubSeq
<1>3. First(s, k) \o Without(s, k) = s
  BY <1>2, SubSeqFull DEF First, Without
<1>4. First(s, k) \in Seq(Event) /\ Without(s, k) \in Seq(Event)
  BY FirstProperties, WithoutProperties
<1> QED
  BY <1>3, <1>4, ConcatParts

-----------------------------------------------------------------------------
(* What a step of the daemon does to the events it holds: it drops some,   *)
(* records one, or flushes.                                                *)

Stays ==
  /\ Part(cache', cache)
  /\ Part(variantArray', variantArray)
  /\ writeBuffer' \in {writeBuffer, <<>>}

Records ==
  /\ variantArray' = Append(variantArray, recorded + 1)
  /\ recorded' = recorded + 1
  /\ recorded + 1 \in Event
  /\ ~Dropped(recorded + 1) \/ countWrong
  /\ UNCHANGED <<cache, writeBuffer, countWrong>>

Flushes(stored, buffer, k) ==
  /\ Part(stored, cache)
  /\ Part(buffer, variantArray)
  /\ k \in 0..Len(buffer)
  /\ CostOf(First(buffer, k)) <= RoomInCache(stored)
  /\ \/ /\ variantArray' = Without(buffer, k)
        /\ cache' = stored \o writeBuffer \o First(buffer, k)
        /\ writeBuffer' = <<>>
     \/ /\ "save" \in Faults
        /\ variantArray' = buffer
        /\ cache' = stored
        /\ writeBuffer' = writeBuffer \o First(buffer, k)
        /\ Range(First(buffer, k)) \subseteq mayRepeat'

Moves ==
  /\ Stays \/ Records \/ \E stored, buffer, k : Flushes(stored, buffer, k)
  /\ recorded' \in {recorded, recorded + 1}
  /\ mayRepeat \subseteq mayRepeat'
  /\ countWrong' = countWrong \/ countWrong' \/ variantArray' = <<>>

\* flush_to_persistent_cache, of what is left of the buffer and of the cache.
LEMMA FlushMoves ==
  ASSUME TypeOK, NEW buffer, NEW stored, NEW repeated,
         Part(stored, cache), Part(buffer, variantArray),
         FlushToPersistentCache(buffer, stored, repeated)
  PROVE  /\ Stays \/ \E k : Flushes(stored, buffer, k)
         /\ mayRepeat \cup repeated \subseteq mayRepeat'
<1>1. CASE ~recordingEnabled \/ buffer = <<>>
  BY <1>1 DEF FlushToPersistentCache, Stays
<1>2. CASE recordingEnabled /\ buffer # <<>>
  <2>1. PICK k \in LongestPrefix(buffer, RoomInCache(stored)) :
          \/ /\ variantArray' = Without(buffer, k)
             /\ cache' = stored \o writeBuffer \o First(buffer, k)
             /\ writeBuffer' = <<>>
             /\ mayRepeat' = mayRepeat \cup repeated
          \/ /\ "save" \in Faults
             /\ variantArray' = buffer
             /\ cache' = stored
             /\ writeBuffer' = writeBuffer \o First(buffer, k)
             /\ mayRepeat' = mayRepeat \cup repeated \cup Range(First(buffer, k))
    BY <1>2 DEF FlushToPersistentCache, KeepUnstored
  <2>2. k \in 0..Len(buffer) /\ CostOf(First(buffer, k)) <= RoomInCache(stored)
    BY DEF LongestPrefix
  <2>3. Flushes(stored, buffer, k)
    BY <2>1, <2>2 DEF Flushes
  <2> QED
    BY <2>1, <2>3
<1> QED
  BY <1>1, <1>2

\* The handler of the permissions only drops.
LEMMA PermissionsMove ==
  ASSUME TypeOK, NEW u, OnPermissionsChanged(u), UNCHANGED writeBuffer
  PROVE  Stays /\ mayRepeat \subseteq mayRepeat'
<1>1. /\ variantArray' \in {variantArray, <<>>} /\ cache' \in {cache, <<>>}
      /\ mayRepeat \subseteq mayRepeat'
  BY DEF OnPermissionsChanged, RemoveAll
<1>2. /\ Part(variantArray, variantArray) /\ Part(<<>>, variantArray)
      /\ Part(cache, cache) /\ Part(<<>>, cache)
  BY PartTrivial DEF TypeOK
<1> QED
  BY <1>1, <1>2 DEF Stays

\* A read leaves the cache, a prefix of it, or nothing.
LEMMA ReadMoves ==
  ASSUME TypeOK, NEW max, NEW read \in ReadOutcomes(max)
  PROVE  /\ Part(read.left, cache)
         /\ read.left \in Seq(Event)
         /\ read.token \in 0..Len(read.left)
<1>1. \/ read.left \in {cache, <<>>}
      \/ \E k \in 0..Len(cache) - 1 : read.left = First(cache, k)
  BY DEF ReadOutcomes
<1>2. cache \in Seq(Event) /\ Len(cache) \in Nat
  BY LenProperties DEF TypeOK
<1>3. Part(cache, cache) /\ Part(<<>>, cache)
  BY <1>2, PartTrivial
<1>4. \A k \in 0..Len(cache) - 1 : Part(First(cache, k), cache)
  BY <1>2, SplitParts
<1> QED
  BY <1>1, <1>3, <1>4, ReadOutcomesType

\* Every step of the daemon moves events in one of these ways.
LEMMA StepMoves == SentInv /\ [Next]_vars => Moves
<1> SUFFICES ASSUME SentInv, [Next]_vars PROVE Moves
  OBVIOUS
<1>a. /\ TypeInv /\ TypeOK /\ SuccessRemovesWhatWasSent
      /\ variantArray \in Seq(Event) /\ cache \in Seq(Event)
      /\ Part(variantArray, variantArray) /\ Part(<<>>, variantArray)
      /\ Part(cache, cache)
  BY PartTrivial DEF SentInv, TypeInv, TypeOK
<1>b. ASSUME Uncancelled
      PROVE  /\ upload \in Upload
             /\ Part(Without(cache, upload.token), cache)
             /\ upload.numBuffer <= Len(variantArray)
                   => Part(Without(variantArray, upload.numBuffer), variantArray)
  <2>1. upload \in Upload
    BY <1>a, <1>b DEF Uncancelled, InFlight, TypeOK
  <2>2. upload.token \in 0..Len(cache) /\ upload.numBuffer \in Nat
    BY <1>a, <1>b, <2>1, LenProperties DEF SuccessRemovesWhatWasSent, Upload
  <2>3. upload.numBuffer <= Len(variantArray) => upload.numBuffer \in 0..Len(variantArray)
    BY <1>a, <2>2, LenProperties
  <2> QED
    BY <1>a, <2>1, <2>2, <2>3, SplitParts
<1>1. CASE RecordEvent
  <2>1. /\ recorded' = recorded + 1
        /\ UNCHANGED <<cache, writeBuffer, countWrong, mayRepeat>>
    BY <1>1 DEF RecordEvent, uploadVars
  <2>2. recorded + 1 \in Event
    BY <1>1, <1>a, DaemonAssumption DEF RecordEvent, Event, TypeOK
  <2>3. CASE variantArray' = variantArray
    BY <1>a, <2>1, <2>3 DEF Moves, Stays
  <2>4. CASE /\ ~Dropped(recorded + 1) \/ countWrong
             /\ variantArray' = Append(variantArray, recorded + 1)
    BY <2>1, <2>2, <2>4 DEF Moves, Records
  <2> QED
    BY <1>1, <2>3, <2>4 DEF RecordEvent
<1>2. CASE \/ UploadEvents \/ RefuseRecordingDisabled \/ HandleUploadFinished
           \/ QueueHttpRequestFails \/ CanReachWhileInFlight
           \/ HandleBackoffTimer \/ HandleBackoffTimerFails
           \/ WriteConfigFile \/ EditConfig \/ QuitReferenced
           \/ HandleHttpResponseCancelled \/ UNCHANGED vars
  <2>1. UNCHANGED <<memoryVars, cache, mayRepeat, recorded, countWrong>>
    BY <1>2
    DEF UploadEvents, RefuseRecordingDisabled, HandleUploadFinished,
        QueueHttpRequestFails, CanReachWhileInFlight, HandleBackoffTimer,
        HandleBackoffTimerFails, WriteConfigFile, EditConfig, QuitReferenced,
        HandleHttpResponseCancelled, vars, historyVars, uploadVars
  <2> QED
    BY <1>a, <2>1 DEF Moves, Stays, memoryVars
<1>3. CASE HandleUploadTimer \/ OnSetEnabled \/ Start
  <2>1. /\ \E u : OnPermissionsChanged(u)
        /\ UNCHANGED <<writeBuffer, recorded, countWrong>>
    BY <1>3 DEF HandleUploadTimer, OnSetEnabled, Start
  <2> QED
    BY <1>a, <2>1, PermissionsMove DEF Moves
<1>4. CASE ProbeNetwork \/ QueueHttpRequest
  <2>1. /\ \E u : GetServerUrlNotifying(u)
        /\ UNCHANGED <<writeBuffer, recorded, countWrong>>
    BY <1>4 DEF ProbeNetwork, QueueHttpRequest
  <2>2. \/ \E u : OnPermissionsChanged(u)
        \/ UNCHANGED <<variantArray, cache, mayRepeat>>
    BY <2>1 DEF GetServerUrlNotifying
  <2> QED
    BY <1>a, <2>1, <2>2, PermissionsMove DEF Moves, Stays
<1>5. CASE RefuseUploadingDisabled \/ CanReachUnreachable \/ QuitFinalized
  <2>1. /\ FlushToPersistentCache(variantArray, cache, {})
        /\ UNCHANGED <<recorded, countWrong>>
    BY <1>5 DEF RefuseUploadingDisabled, CanReachUnreachable, QuitFinalized
  <2> QED
    BY <1>a, <2>1, FlushMoves DEF Moves
<1>6. CASE CanReachCreateRequest \/ CanReachNoRequest
  <2>1. /\ \E max : \E read \in ReadOutcomes(max) : cache' = read.left
        /\ UNCHANGED <<memoryVars, mayRepeat, recorded, countWrong>>
    BY <1>6 DEF CanReachCreateRequest, CanReachNoRequest
  <2> QED
    BY <1>a, <2>1, ReadMoves DEF Moves, Stays, memoryVars
<1>7. CASE HandleHttpResponseSuccess
  <2>1. Uncancelled /\ upload.numBuffer <= Len(variantArray)
    BY <1>7 DEF HandleHttpResponseSuccess, Answered, Uncancelled
  <2>2. PICK stored \in {cache, Without(cache, upload.token)} : \E repeated :
          FlushToPersistentCache(Without(variantArray, upload.numBuffer), stored, repeated)
    BY <1>7 DEF HandleHttpResponseSuccess
  <2>3. UNCHANGED <<recorded, countWrong>>
    BY <1>7 DEF HandleHttpResponseSuccess
  <2> QED
    BY <1>a, <1>b, <2>1, <2>2, <2>3, FlushMoves DEF Moves
<1>8. CASE HandleHttpResponseGiveUp \/ HandleHttpResponseBackoff
  <2>1. ErrorAnswered
    BY <1>8 DEF HandleHttpResponseGiveUp, HandleHttpResponseBackoff
  <2> QED
    BY <1>a, <2>1 DEF ErrorAnswered, Moves, Stays, memoryVars
<1>9. CASE ProcessExits \/ Killed \/ CanReachWithoutTask
  <2>1. ProcessEnds
    BY <1>9 DEF ProcessExits, Killed, CanReachWithoutTask
  <2> QED
    BY <1>a, <2>1 DEF ProcessEnds, MemoryLost, Moves, Stays
<1>10. CASE HandleHttpResponseOutOfRange
  <2>1. Uncancelled /\ MemoryLost /\ mayRepeat \subseteq mayRepeat'
    BY <1>10 DEF HandleHttpResponseOutOfRange, RemovedOutOfRange, Answered, Uncancelled
  <2>2. cache' \in {cache, Without(cache, upload.token)}
    BY <1>10 DEF HandleHttpResponseOutOfRange
  <2> QED
    BY <1>a, <1>b, <2>1, <2>2 DEF MemoryLost, Moves, Stays
<1>11. CASE HandleHttpResponseOutOfRangeSurvived
  <2>1. Uncancelled /\ countWrong' = TRUE /\ UNCHANGED recorded
    BY <1>11 DEF HandleHttpResponseOutOfRangeSurvived, RemovedOutOfRange, Answered,
       Uncancelled
  <2>2. PICK stored \in {cache, Without(cache, upload.token)} : \E repeated :
          FlushToPersistentCache(variantArray, stored, repeated)
    BY <1>11 DEF HandleHttpResponseOutOfRangeSurvived
  <2> QED
    BY <1>a, <1>b, <2>1, <2>2, FlushMoves DEF Moves
<1> QED
  BY <1>1, <1>2, <1>3, <1>4, <1>5, <1>6, <1>7, <1>8, <1>9, <1>10, <1>11
  DEF Next, Continue, NetworkMonitorAnswers, ServerAnswers, BackoffEnds, ProcessLife

-----------------------------------------------------------------------------
(* StoredInOrder.                                                          *)

\* What the daemon holds has been recorded.
HeldRecorded == \A event \in Held : event <= recorded

\* Nothing waits in the write buffer if no save fails.
OrderInv ==
  /\ SentInv
  /\ HeldRecorded
  /\ "save" \notin Faults => writeBuffer = <<>>
  /\ StoredInOrder

\* A flush neither adds nor, if no save fails, reorders.
LEMMA FlushedEvents ==
  ASSUME TypeOK, NEW stored, NEW buffer, NEW k, Flushes(stored, buffer, k)
  PROVE  /\ Held' \subseteq Held
         /\ stored \in Seq(Event) /\ buffer \in Seq(Event)
         /\ First(buffer, k) \in Seq(Event) /\ Without(buffer, k) \in Seq(Event)
         /\ writeBuffer \in Seq(Event)
         /\ stored \o writeBuffer \in Seq(Event)
         /\ First(buffer, k) \o Without(buffer, k) = buffer
<1>1. /\ stored \in Seq(Event) /\ buffer \in Seq(Event) /\ k \in 0..Len(buffer)
      /\ Range(stored) \subseteq Range(cache) /\ Range(buffer) \subseteq Range(variantArray)
      /\ writeBuffer \in Seq(Event)
  BY DEF Flushes, Part, TypeOK
<1>2. /\ First(buffer, k) \in Seq(Event) /\ Without(buffer, k) \in Seq(Event)
      /\ First(buffer, k) \o Without(buffer, k) = buffer
      /\ Range(First(buffer, k)) \subseteq Range(buffer)
      /\ Range(Without(buffer, k)) \subseteq Range(buffer)
  BY <1>1, SplitParts DEF Part
<1>3. /\ stored \o writeBuffer \in Seq(Event)
      /\ Range(stored \o writeBuffer) = Range(stored) \cup Range(writeBuffer)
  BY <1>1, ConcatRange
<1>4. /\ Range((stored \o writeBuffer) \o First(buffer, k))
           = Range(stored \o writeBuffer) \cup Range(First(buffer, k))
      /\ Range(writeBuffer \o First(buffer, k))
           = Range(writeBuffer) \cup Range(First(buffer, k))
  BY <1>1, <1>2, <1>3, ConcatRange
<1>5. Range(<<>>) = {}
  BY DEF Range
<1>6. Held' \subseteq Held
  BY <1>1, <1>2, <1>3, <1>4, <1>5 DEF Flushes, Held
<1> QED
  BY <1>1, <1>2, <1>3, <1>6

\* Nothing is held in the next state but what is held now, and the event that
\* is being recorded.
LEMMA MovesHeld ==
  ASSUME TypeOK, Moves
  PROVE  Held' \subseteq Held \cup (IF Records THEN {recorded + 1} ELSE {})
<1>1. CASE Stays
  <2>1. Range(<<>>) = {}
    BY DEF Range
  <2> QED
    BY <1>1, <2>1 DEF Stays, Part, Held
<1>2. CASE Records
  <2>1. /\ variantArray \in Seq(Event) /\ <<recorded + 1>> \in Seq(Event)
        /\ variantArray' = variantArray \o <<recorded + 1>>
    BY <1>2, AppendIsConcat DEF Records, TypeOK
  <2>2. Range(<<recorded + 1>>) = {recorded + 1}
    BY DEF Range
  <2>3. Range(variantArray') = Range(variantArray) \cup {recorded + 1}
    BY <2>1, <2>2, ConcatRange
  <2> QED
    BY <1>2, <2>3 DEF Records, Held
<1>3. CASE \E stored, buffer, k : Flushes(stored, buffer, k)
  BY <1>3, FlushedEvents
<1> QED
  BY <1>1, <1>2, <1>3 DEF Moves

\* What is held has been recorded, in the next state too.
LEMMA HeldStep == TypeOK /\ HeldRecorded /\ Moves => HeldRecorded'
<1> SUFFICES ASSUME TypeOK, HeldRecorded, Moves, NEW event \in Held'
             PROVE  event <= recorded'
  BY DEF HeldRecorded
<1>1. recorded \in Nat /\ Held \subseteq Event
  BY RangeType DEF TypeOK, Held
<1>2. event \in Held \/ (event = recorded + 1 /\ Records)
  BY MovesHeld
<1>3. CASE event \in Held
  <2>1. event <= recorded /\ event \in Nat
    BY <1>1, <1>3 DEF HeldRecorded, Event
  <2>2. recorded' \in {recorded, recorded + 1}
    BY DEF Moves
  <2> QED
    BY <1>1, <2>1, <2>2
<1>4. CASE event = recorded + 1 /\ Records
  BY <1>1, <1>4 DEF Records
<1> QED
  BY <1>2, <1>3, <1>4

\* Every step of the daemon keeps the events in order, if no save fails.
LEMMA OrderStep ==
  OrderInv /\ [Next]_vars
    => HeldRecorded' /\ ("save" \notin Faults => writeBuffer' = <<>>) /\ StoredInOrder'
<1> SUFFICES ASSUME OrderInv, [Next]_vars, "save" \notin Faults
             PROVE  writeBuffer' = <<>> /\ Increasing(cache' \o variantArray')
  BY StepMoves, HeldStep DEF OrderInv, SentInv, TypeInv, StoredInOrder
<1>1. /\ TypeOK /\ Moves /\ HeldRecorded
      /\ cache \in Seq(Event) /\ variantArray \in Seq(Event)
      /\ writeBuffer = <<>> /\ Increasing(cache \o variantArray)
      /\ recorded \in Nat
  BY StepMoves DEF OrderInv, SentInv, TypeInv, TypeOK, StoredInOrder
<1>2. /\ Increasing(cache) /\ Increasing(variantArray)
      /\ \A a \in Range(cache), b \in Range(variantArray) : a < b
  BY <1>1, ConcatParts DEF Part
<1>3. ASSUME NEW c, NEW v, Part(c, cache), Part(v, variantArray)
      PROVE  Increasing(c \o v)
  BY <1>2, <1>3, ConcatIncreasing DEF Part
<1>4. CASE Stays
  BY <1>1, <1>3, <1>4 DEF Stays
<1>5. CASE Records
  <2>1. /\ <<recorded + 1>> \in Seq(Event)
        /\ variantArray' = variantArray \o <<recorded + 1>>
    BY <1>1, <1>5, AppendIsConcat DEF Records
  <2>a. cache' = cache
    BY <1>5 DEF Records
  <2>b. cache \o (variantArray \o <<recorded + 1>>)
          = (cache \o variantArray) \o <<recorded + 1>>
    BY <1>1, <2>1, ConcatThree
  <2>2. cache' \o variantArray' = (cache \o variantArray) \o <<recorded + 1>>
    BY <2>1, <2>a, <2>b
  <2>3. \A a \in Range(cache \o variantArray), b \in Range(<<recorded + 1>>) : a < b
    <3>1. Range(cache \o variantArray) \subseteq Held
      BY <1>1, ConcatRange DEF Held
    <3>2. Range(<<recorded + 1>>) = {recorded + 1}
      BY DEF Range
    <3>3. Held \subseteq Nat
      <4>1. Held \subseteq Event
        BY <1>1, RangeType DEF Held, TypeOK
      <4> QED
        BY <4>1 DEF Event
    <3>4. ASSUME NEW a \in Held PROVE a < recorded + 1
      <4>1. a \in Nat /\ a <= recorded
        BY <1>1, <3>3 DEF HeldRecorded
      <4> QED
        BY <1>1, <4>1
    <3> QED
      BY <3>1, <3>2, <3>4
  <2>4. Increasing(<<recorded + 1>>)
    BY DEF Increasing
  <2>5. cache \o variantArray \in Seq(Event)
    BY <1>1, ConcatRange
  <2>6. Increasing((cache \o variantArray) \o <<recorded + 1>>)
    BY <1>1, <2>1, <2>3, <2>4, <2>5, ConcatIncreasing
  <2> QED
    BY <1>1, <1>5, <2>2, <2>6 DEF Records
<1>6. CASE \E stored, buffer, k : Flushes(stored, buffer, k)
  <2>1. PICK stored, buffer, k : Flushes(stored, buffer, k)
    BY <1>6
  <2>2. /\ stored \in Seq(Event) /\ buffer \in Seq(Event)
        /\ First(buffer, k) \in Seq(Event) /\ Without(buffer, k) \in Seq(Event)
        /\ First(buffer, k) \o Without(buffer, k) = buffer
    BY <1>1, <2>1, FlushedEvents
  <2>3. /\ cache' = stored \o writeBuffer \o First(buffer, k)
        /\ variantArray' = Without(buffer, k)
        /\ writeBuffer' = <<>>
    BY <2>1 DEF Flushes
  <2>4. stored \o writeBuffer = stored
    BY <1>1, <2>2, EmptySeq, ConcatEmptySeq
  <2>5. cache' \o variantArray' = stored \o buffer
    <3>1. cache' = stored \o First(buffer, k)
      BY <2>3, <2>4
    <3>2. (stored \o First(buffer, k)) \o Without(buffer, k)
            = stored \o (First(buffer, k) \o Without(buffer, k))
      BY <2>2, ConcatThree
    <3> QED
      BY <2>2, <2>3, <3>1, <3>2
  <2>6. Increasing(stored \o buffer)
    BY <1>3, <2>1 DEF Flushes
  <2> QED
    BY <2>3, <2>5, <2>6
<1> QED
  BY <1>1, <1>4, <1>5, <1>6 DEF Moves

\* As long as no save fails, the cache followed by the buffer is in the order of
\* recording (emer_persistent_cache_store, flush_to_persistent_cache).
THEOREM OrderCorrect == Spec => []StoredInOrder
<1>1. Init => OrderInv
  <2> SUFFICES ASSUME Init PROVE OrderInv
    OBVIOUS
  <2>1. SentInv
    BY InitType DEF SentInv, Init, SuccessRemovesWhatWasSent, Uncancelled, InFlight
  <2>2. cache = <<>> /\ variantArray = <<>> /\ writeBuffer = <<>>
    BY DEF Init
  <2>3. Held = {}
    BY <2>2 DEF Held, Range
  <2>4. cache \o variantArray = <<>>
    BY <2>2
  <2>5. Increasing(cache \o variantArray)
    BY <2>4 DEF Increasing
  <2> QED
    BY <2>1, <2>2, <2>3, <2>5 DEF OrderInv, HeldRecorded, StoredInOrder
<1>2. OrderInv /\ [Next]_vars => OrderInv'
  BY TypeStep, SentStep, OrderStep DEF OrderInv, SentInv
<1>3. OrderInv => StoredInOrder
  BY DEF OrderInv
<1> QED
  BY <1>1, <1>2, <1>3, PTL DEF Spec

-----------------------------------------------------------------------------
(* OptOutDiscards.                                                         *)

\* What on_permissions_changed does when recording is disabled.
OptsOut ==
  /\ optedOut' = recorded
  /\ recorded' = recorded
  /\ variantArray' = <<>>
  /\ writeBuffer' = writeBuffer
  /\ RemoveAll
  /\ upload' # NoUpload =>
        upload # NoUpload /\ upload'.cancelled /\ upload'.body = upload.body

\* An upload that was just made holds events the daemon holds.
HoldsWhatIsHeld ==
  upload' # NoUpload =>
    /\ ~upload'.cancelled
    /\ Range(upload'.body) \subseteq Range(cache') \cup Range(variantArray')

UploadMoves ==
  OptsOut \/ (optedOut' = optedOut /\ (SameUpload(upload') \/ HoldsWhatIsHeld))

\* The handler of the permissions opts out, or does nothing.
LEMMA PermissionsUploadMoves ==
  ASSUME NEW u \in Upload \cup {NoUpload}, SameUpload(u), OnPermissionsChanged(u),
         UNCHANGED <<recorded, writeBuffer>>
  PROVE  UploadMoves
<1>1. CASE DaemonEnabled(permissions')
  BY <1>1 DEF OnPermissionsChanged, UploadMoves
<1>2. CASE ~DaemonEnabled(permissions')
  <2>1. upload' # NoUpload => u # NoUpload /\ upload'.cancelled /\ upload'.body = u.body
    <3>1. CASE u = NoUpload
      BY <1>2, <3>1 DEF OnPermissionsChanged, Cancelled
    <3>2. CASE u \in Upload
      BY <1>2, <3>2, CancelledType, NoUploadAssumption DEF OnPermissionsChanged, Upload
    <3> QED
      BY <3>1, <3>2
  <2> QED
    BY <1>2, <2>1 DEF OnPermissionsChanged, UploadMoves, OptsOut, SameUpload
<1> QED
  BY <1>1, <1>2

\* The same for the functions that ask for the server URL.
LEMMA ServerUrlUploadMoves ==
  ASSUME NEW u \in Upload \cup {NoUpload}, SameUpload(u), GetServerUrlNotifying(u),
         UNCHANGED <<recorded, writeBuffer>>
  PROVE  UploadMoves
<1>1. CASE UrlNamesEnvironment
  BY <1>1, PermissionsUploadMoves DEF GetServerUrlNotifying
<1>2. CASE ~UrlNamesEnvironment
  BY <1>2 DEF GetServerUrlNotifying, UploadMoves
<1> QED
  BY <1>1, <1>2

\* create_request_body takes its events from the cache and the buffer.
LEMMA CreatedFromHeld ==
  ASSUME TypeOK, CanReachCreateRequest
  PROVE  HoldsWhatIsHeld /\ optedOut' = optedOut
<1>1. PICK read \in ReadOutcomes(MaxUploadSize(Head(uploadQueue))) :
      \E n \in BufferPrefixes(MaxUploadSize(Head(uploadQueue)), read) :
        /\ cache' = read.left
        /\ upload' = [task      |-> Head(uploadQueue),
                      body      |-> First(read.left, read.token)
                                    \o First(variantArray, n),
                      token     |-> read.token,
                      numBuffer |-> n,
                      attempt   |-> 0,
                      phase     |-> "preparing",
                      cancelled |-> FALSE]
  BY DEF CanReachCreateRequest
<1>2. PICK n \in BufferPrefixes(MaxUploadSize(Head(uploadQueue)), read) :
        /\ cache' = read.left
        /\ upload'.body = First(read.left, read.token) \o First(variantArray, n)
        /\ ~upload'.cancelled
  BY <1>1
<1>3. /\ read.left \in Seq(Event) /\ read.token \in 0..Len(read.left)
      /\ variantArray \in Seq(Event) /\ n \in 0..Len(variantArray)
  BY <1>2, ReadOutcomesType, BufferPrefixesType DEF TypeOK
<1>4. /\ First(read.left, read.token) \in Seq(Event)
      /\ First(variantArray, n) \in Seq(Event)
      /\ Range(First(read.left, read.token)) \subseteq Range(read.left)
      /\ Range(First(variantArray, n)) \subseteq Range(variantArray)
  BY <1>3, SplitParts DEF Part
<1>5. Range(upload'.body) = Range(First(read.left, read.token))
                              \cup Range(First(variantArray, n))
  BY <1>2, <1>4, ConcatRange
<1>6. variantArray' = variantArray /\ optedOut' = optedOut
  BY DEF CanReachCreateRequest, memoryVars
<1> QED
  BY <1>2, <1>4, <1>5, <1>6 DEF HoldsWhatIsHeld

\* Every step of the daemon opts out, makes an upload, or leaves the upload what
\* it is.
LEMMA StepUploadMoves == TypeInv /\ [Next]_vars => UploadMoves
<1> SUFFICES ASSUME TypeInv, [Next]_vars PROVE UploadMoves
  OBVIOUS
<1>a. upload \in Upload \cup {NoUpload} /\ SameUpload(upload) /\ TypeOK
  BY DEF TypeInv, TypeOK, SameUpload
<1>b. SameUpload(NoUpload)
  BY DEF SameUpload
<1>1. CASE \/ RecordEvent \/ UploadEvents \/ RefuseRecordingDisabled
           \/ RefuseUploadingDisabled \/ HandleUploadFinished
           \/ CanReachWhileInFlight \/ CanReachUnreachable \/ CanReachNoRequest
           \/ WriteConfigFile \/ EditConfig \/ QuitFinalized \/ QuitReferenced
           \/ UNCHANGED vars
  <2>1. upload' = upload /\ optedOut' = optedOut
    BY <1>1
    DEF RecordEvent, UploadEvents, RefuseRecordingDisabled, RefuseUploadingDisabled,
        HandleUploadFinished, CanReachWhileInFlight, CanReachUnreachable,
        CanReachNoRequest, WriteConfigFile, EditConfig, QuitFinalized, QuitReferenced,
        vars, uploadVars, historyVars
  <2> QED
    BY <1>a, <2>1 DEF UploadMoves
<1>2. CASE HandleUploadTimer \/ OnSetEnabled \/ Start
  <2>1. /\ OnPermissionsChanged(upload) \/ OnPermissionsChanged(NoUpload)
        /\ UNCHANGED <<recorded, writeBuffer>>
    BY <1>2 DEF HandleUploadTimer, OnSetEnabled, Start
  <2> QED
    BY <1>a, <1>b, <2>1, PermissionsUploadMoves
<1>3. CASE ProbeNetwork
  BY <1>3, <1>a, ServerUrlUploadMoves DEF ProbeNetwork
<1>4. CASE QueueHttpRequest
  <2>1. upload \in Upload
    BY <1>4, <1>a DEF QueueHttpRequest, TypeInv, CallsAreJustified, InFlight
  <2> DEFINE u == [upload EXCEPT !.phase = "sent"]
  <2>2. u \in Upload \cup {NoUpload} /\ SameUpload(u)
    BY <2>1, NoUploadAssumption DEF Upload, Phase, SameUpload
  <2> QED
    BY <1>4, <2>2, ServerUrlUploadMoves DEF QueueHttpRequest
<1>5. CASE CanReachCreateRequest
  BY <1>5, <1>a, CreatedFromHeld DEF UploadMoves
<1>6. CASE \/ QueueHttpRequestFails \/ HandleBackoffTimerFails
           \/ HandleHttpResponseSuccess \/ HandleHttpResponseCancelled
           \/ HandleHttpResponseGiveUp
           \/ ProcessExits \/ Killed \/ CanReachWithoutTask
           \/ HandleHttpResponseOutOfRange \/ HandleHttpResponseOutOfRangeSurvived
  <2>1. upload' = NoUpload /\ optedOut' = optedOut
    BY <1>6
    DEF QueueHttpRequestFails, HandleBackoffTimerFails, HandleHttpResponseSuccess,
        HandleHttpResponseCancelled, HandleHttpResponseGiveUp, ErrorAnswered,
        FinishNetworkCallback, ProcessExits, Killed, CanReachWithoutTask,
        HandleHttpResponseOutOfRange, HandleHttpResponseOutOfRangeSurvived,
        ProcessEnds, MemoryLost, historyVars
  <2> QED
    BY <1>b, <2>1 DEF UploadMoves
<1>7. CASE HandleHttpResponseBackoff \/ HandleBackoffTimer
  <2>1. upload \in Upload
    BY <1>7, <1>a DEF HandleHttpResponseBackoff, ErrorAnswered, Answered,
       HandleBackoffTimer, BackedOff, InFlight
  <2>2. SameUpload(upload') /\ optedOut' = optedOut
    BY <1>7, <2>1, NoUploadAssumption
    DEF HandleHttpResponseBackoff, ErrorAnswered, HandleBackoffTimer, SameUpload,
        Upload, historyVars
  <2> QED
    BY <2>2 DEF UploadMoves
<1> QED
  BY <1>1, <1>2, <1>3, <1>4, <1>5, <1>6, <1>7
  DEF Next, Continue, NetworkMonitorAnswers, ServerAnswers, BackoffEnds, ProcessLife

\* What was recorded before an opt-out is of no number above it, and no save leaves
\* anything in the write buffer.
OptOutInv ==
  /\ SentInv
  /\ optedOut <= recorded
  /\ "save" \notin Faults => writeBuffer = <<>>
  /\ OptOutDiscards

\* Every step of the daemon preserves OptOutDiscards.
LEMMA OptOutStep ==
  OptOutInv /\ [Next]_vars =>
    /\ optedOut' <= recorded'
    /\ "save" \notin Faults => writeBuffer' = <<>>
    /\ OptOutDiscards'
<1> SUFFICES ASSUME OptOutInv, [Next]_vars
             PROVE  /\ optedOut' <= recorded'
                    /\ "save" \notin Faults => writeBuffer' = <<>>
                    /\ OptOutDiscards'
  OBVIOUS
<1>1. /\ TypeOK /\ Moves /\ UploadMoves
      /\ recorded \in Nat /\ optedOut \in Nat /\ optedOut <= recorded
      /\ recorded' \in {recorded, recorded + 1}
  BY StepMoves, StepUploadMoves DEF OptOutInv, SentInv, TypeInv, TypeOK, Moves
<1>2. optedOut' <= recorded'
  BY <1>1 DEF UploadMoves, OptsOut
<1>3. "save" \notin Faults => writeBuffer' = <<>>
  BY <1>1 DEF OptOutInv, Moves, Stays, Records, Flushes
<1>4. ASSUME Faults \cap {"save", "purge"} = {}, OptsOut
      PROVE  OptOutDiscards'
  <2>1. "save" \notin Faults /\ "purge" \notin Faults
    BY <1>4
  <2>2. variantArray' = <<>> /\ writeBuffer' = <<>> /\ cache' = <<>>
    BY <1>3, <1>4, <2>1 DEF OptsOut, RemoveAll
  <2>3. Held' = {}
    BY <2>2 DEF Held, Range
  <2>4. ~Uncancelled'
    BY <1>4 DEF OptsOut, Uncancelled, InFlight
  <2> QED
    BY <2>3, <2>4 DEF OptOutDiscards
<1>5. ASSUME Faults \cap {"save", "purge"} = {}, optedOut' = optedOut,
             SameUpload(upload') \/ HoldsWhatIsHeld
      PROVE  OptOutDiscards'
  <2>1. /\ \A event \in Held : event > optedOut
        /\ Uncancelled => \A event \in Range(upload.body) : event > optedOut
    BY <1>5 DEF OptOutInv, OptOutDiscards
  <2>2. recorded + 1 > optedOut
    BY <1>1
  <2>3. \A event \in Held' : event > optedOut
    BY <1>1, <2>1, <2>2, MovesHeld
  <2>4. ASSUME Uncancelled', NEW event \in Range(upload'.body) PROVE event > optedOut
    <3>1. CASE SameUpload(upload')
      BY <2>1, <2>4, <3>1 DEF SameUpload, Uncancelled, InFlight
    <3>2. CASE HoldsWhatIsHeld
      BY <2>3, <2>4, <3>2 DEF HoldsWhatIsHeld, Uncancelled, InFlight, Held
    <3> QED
      BY <1>5, <3>1, <3>2
  <2> QED
    BY <1>5, <2>3, <2>4 DEF OptOutDiscards
<1> QED
  BY <1>1, <1>2, <1>3, <1>4, <1>5 DEF UploadMoves, OptOutDiscards

\* An opt-out discards what was recorded before it, from memory, from the cache and
\* from the upload in flight, as long as the disk allows it (on_permissions_changed).
THEOREM DiscardsCorrect == Spec => []OptOutDiscards
<1>1. Init => OptOutInv
  <2> SUFFICES ASSUME Init PROVE OptOutInv
    OBVIOUS
  <2>1. SentInv
    BY InitType DEF SentInv, Init, SuccessRemovesWhatWasSent, Uncancelled, InFlight
  <2>2. Held = {}
    BY DEF Init, Held, Range
  <2> QED
    BY <2>1, <2>2 DEF Init, OptOutInv, OptOutDiscards, Uncancelled, InFlight
<1>2. OptOutInv /\ [Next]_vars => OptOutInv'
  BY TypeStep, SentStep, OptOutStep DEF OptOutInv, SentInv
<1>3. OptOutInv => OptOutDiscards
  BY DEF OptOutInv
<1> QED
  BY <1>1, <1>2, <1>3, PTL DEF Spec

-----------------------------------------------------------------------------
(* WithinLimits.                                                           *)

LimitsInv == SentInv /\ WithinLimits

\* Every step of the daemon preserves WithinLimits.
LEMMA LimitsStep == LimitsInv /\ [Next]_vars => WithinLimits'
<1> SUFFICES ASSUME LimitsInv, [Next]_vars PROVE WithinLimits'
  OBVIOUS
<1>1. /\ TypeOK /\ Moves /\ WithinLimits
      /\ cache \in Seq(Event) /\ variantArray \in Seq(Event) /\ writeBuffer \in Seq(Event)
      /\ MaxBytesBuffered \in Nat /\ MaxCacheSize \in Nat
  BY StepMoves, DaemonAssumption DEF LimitsInv, SentInv, TypeInv, TypeOK
<1>2. /\ CostOf(cache) + CostOf(writeBuffer) <= MaxCacheSize
      /\ CostOf(cache) \in Nat /\ CostOf(writeBuffer) \in Nat
      /\ CostOf(variantArray) \in Nat
  BY <1>1, ConcatCost, CostType DEF WithinLimits
<1>3. <<>> \in Seq(Event) /\ CostOf(<<>>) = 0
  BY EmptySeq, EmptyCost
<1>a. ASSUME variantArray' \in Seq(Event), CostOf(variantArray') <= CostOf(variantArray),
             ~countWrong'
      PROVE  CostOf(variantArray') <= MaxBytesBuffered
  <2>1. CASE variantArray' = <<>>
    <3>1. CostOf(variantArray') = 0
      BY <1>3, <2>1
    <3> QED
      BY <1>1, <3>1
  <2>2. CASE ~countWrong
    <3>1. CostOf(variantArray) <= MaxBytesBuffered
      BY <1>1, <2>2 DEF WithinLimits
    <3>2. CostOf(variantArray') \in Nat
      BY <1>a, CostType
    <3> QED
      BY <1>1, <1>2, <1>a, <3>1, <3>2
  <2>3. ~countWrong \/ variantArray' = <<>>
    BY <1>1, <1>a DEF Moves
  <2> QED
    BY <2>1, <2>2, <2>3
<1>4. CASE Stays
  <2>1. ~countWrong' => CostOf(variantArray') <= MaxBytesBuffered
    BY <1>a, <1>4 DEF Stays, Part
  <2>w. writeBuffer' \in Seq(Event) /\ CostOf(writeBuffer') <= CostOf(writeBuffer)
    <3>1. CASE writeBuffer' = writeBuffer
      BY <1>1, <1>2, <3>1
    <3>2. CASE writeBuffer' = <<>>
      <4>1. CostOf(writeBuffer') = 0
        BY <1>3, <3>2
      <4> QED
        BY <1>2, <1>3, <3>2, <4>1
    <3> QED
      BY <1>4, <3>1, <3>2 DEF Stays
  <2>2. /\ cache' \in Seq(Event) /\ writeBuffer' \in Seq(Event)
        /\ CostOf(cache') <= CostOf(cache)
        /\ CostOf(writeBuffer') <= CostOf(writeBuffer)
    BY <1>4, <2>w DEF Stays, Part
  <2>3. /\ CostOf(cache' \o writeBuffer') = CostOf(cache') + CostOf(writeBuffer')
        /\ CostOf(cache') \in Nat /\ CostOf(writeBuffer') \in Nat
    BY <2>2, ConcatCost, CostType
  <2>4. CostOf(cache' \o writeBuffer') <= MaxCacheSize
    BY <1>1, <1>2, <2>2, <2>3
  <2> QED
    BY <2>1, <2>4 DEF WithinLimits
<1>5. CASE Records
  <2>1. /\ variantArray' = Append(variantArray, recorded + 1)
        /\ cache' = cache /\ writeBuffer' = writeBuffer
        /\ countWrong' = countWrong
        /\ ~Dropped(recorded + 1) \/ countWrong
    BY <1>5 DEF Records
  <2>2. CASE countWrong
    BY <1>1, <2>1, <2>2 DEF WithinLimits
  <2>3. CASE ~Dropped(recorded + 1)
    <3>1. ~(CostOf(variantArray') > MaxBytesBuffered)
      BY <2>1, <2>3 DEF Dropped, Overflows
    <3>2. variantArray' \in Seq(Event)
      BY <1>1, <1>5, AppendProperties DEF Records
    <3>3. CostOf(variantArray') <= MaxBytesBuffered
      BY <1>1, <3>1, <3>2, CostType
    <3> QED
      BY <1>1, <2>1, <3>3 DEF WithinLimits
  <2> QED
    BY <2>1, <2>2, <2>3
<1>6. CASE \E stored, buffer, k : Flushes(stored, buffer, k)
  <2>1. PICK stored, buffer, k : Flushes(stored, buffer, k)
    BY <1>6
  <2> DEFINE stays == First(buffer, k)
  <2>2. /\ stored \in Seq(Event) /\ buffer \in Seq(Event)
        /\ stays \in Seq(Event) /\ Without(buffer, k) \in Seq(Event)
        /\ stored \o writeBuffer \in Seq(Event)
    BY <1>1, <2>1, FlushedEvents
  <2>3. /\ CostOf(Without(buffer, k)) <= CostOf(buffer)
        /\ CostOf(buffer) <= CostOf(variantArray)
    BY <2>1, <2>2, SplitParts DEF Flushes, Part
  <2>4. ~countWrong' => CostOf(variantArray') <= MaxBytesBuffered
    <3>1. CostOf(Without(buffer, k)) \in Nat /\ CostOf(buffer) \in Nat
      BY <2>2, CostType
    <3>2. CostOf(Without(buffer, k)) <= CostOf(variantArray)
      BY <1>2, <2>3, <3>1
    <3>3. CASE variantArray' = Without(buffer, k)
      <4>1. variantArray' \in Seq(Event) /\ CostOf(variantArray') <= CostOf(variantArray)
        BY <2>2, <3>2, <3>3
      <4> QED
        BY <1>a, <4>1
    <3>4. CASE variantArray' = buffer
      <4>1. variantArray' \in Seq(Event) /\ CostOf(variantArray') <= CostOf(variantArray)
        BY <2>2, <2>3, <3>4
      <4> QED
        BY <1>a, <4>1
    <3>5. variantArray' = Without(buffer, k) \/ variantArray' = buffer
      BY <2>1 DEF Flushes
    <3> QED
      BY <3>3, <3>4, <3>5
  <2>5. CostOf(cache' \o writeBuffer') = CostOf(stored \o writeBuffer) + CostOf(stays)
    <3>1. CASE cache' = stored \o writeBuffer \o stays /\ writeBuffer' = <<>>
      <4>1. (stored \o writeBuffer) \o stays \in Seq(Event)
        BY <2>2, ConcatRange
      <4>2. cache' \o writeBuffer' = cache'
        BY <3>1, <4>1, ConcatEmptySeq
      <4> QED
        BY <2>2, <3>1, <4>2, ConcatCost
    <3>2. CASE cache' = stored /\ writeBuffer' = writeBuffer \o stays
      <4>1. (stored \o writeBuffer) \o stays = stored \o (writeBuffer \o stays)
        <5>1. stored \in Seq(Event) /\ writeBuffer \in Seq(Event) /\ stays \in Seq(Event)
          BY <1>1, <2>2
        <5> HIDE DEF stays
        <5> QED
          BY <5>1, ConcatThree
      <4>2. cache' \o writeBuffer' = (stored \o writeBuffer) \o stays
        BY <3>2, <4>1
      <4> QED
        BY <2>2, <4>2, ConcatCost
    <3> QED
      BY <2>1, <3>1, <3>2 DEF Flushes
  <2>6. CostOf(stays) <= MaxCacheSize - CostOf(stored \o writeBuffer)
    BY <2>1 DEF Flushes, RoomInCache
  <2>7. CostOf(stays) \in Nat /\ CostOf(stored \o writeBuffer) \in Nat
    BY <2>2, CostType
  <2> HIDE DEF stays
  <2>8. CostOf(cache' \o writeBuffer') <= MaxCacheSize
    BY <1>1, <2>5, <2>6, <2>7
  <2> QED
    BY <2>4, <2>8 DEF WithinLimits
<1> QED
  BY <1>1, <1>4, <1>5, <1>6 DEF Moves

\* Neither the buffer nor the circular file takes more than it may, for every
\* size of an event, of the buffer and of the cache (buffer_event,
\* emer_circular_file_append).
THEOREM LimitsCorrect == Spec => []WithinLimits
<1>1. Init => LimitsInv
  <2> SUFFICES ASSUME Init PROVE LimitsInv
    OBVIOUS
  <2>1. SentInv
    BY InitType DEF SentInv, Init, SuccessRemovesWhatWasSent, Uncancelled, InFlight
  <2>2. /\ CostOf(variantArray) = 0
        /\ cache \o writeBuffer = <<>>
    BY EmptyCost DEF Init
  <2>3. CostOf(cache \o writeBuffer) = 0
    BY <2>2, EmptyCost
  <2>4. MaxBytesBuffered \in Nat /\ MaxCacheSize \in Nat
    BY DaemonAssumption
  <2> QED
    BY <2>1, <2>2, <2>3, <2>4 DEF LimitsInv, WithinLimits
<1>2. LimitsInv /\ [Next]_vars => LimitsInv'
  BY TypeStep, SentStep, LimitsStep DEF LimitsInv, SentInv
<1>3. LimitsInv => WithinLimits
  BY DEF LimitsInv
<1> QED
  BY <1>1, <1>2, <1>3, PTL DEF Spec
-----------------------------------------------------------------------------
(* DeliveredOnce.                                                          *)

\* The events that are held at two places, and those that will be.
Repeats ==
  Twice(cache) \cup Twice(variantArray) \cup (Range(cache) \cap Range(variantArray))
    \cup Range(writeBuffer)

InBody == IF InFlight THEN Range(upload.body) ELSE {}

\* What is held, sent or delivered has been recorded; what is held twice, held
\* although it was delivered, or still held when its upload is cancelled, may
\* be delivered twice.
OnceInv ==
  /\ SentInv
  /\ HeldRecorded
  /\ \A event \in delivered \cup InBody : event <= recorded
  /\ Repeats \subseteq mayRepeat
  /\ ~flushedInFlight =>
        /\ Held \cap delivered \subseteq mayRepeat
        /\ InBody \cap delivered \subseteq mayRepeat
        /\ InFlight /\ upload.cancelled => InBody \cap Held \subseteq mayRepeat

\* A flush leaves no other events than those it is given.
LEMMA FlushHeld ==
  ASSUME TypeOK, NEW buffer \in Seq(Event), NEW stored \in Seq(Event), NEW repeated,
         FlushToPersistentCache(buffer, stored, repeated)
  PROVE  /\ Held' \subseteq Range(buffer) \cup Range(stored) \cup Range(writeBuffer)
         /\ mayRepeat \cup repeated \subseteq mayRepeat'
<1>1. CASE ~recordingEnabled \/ buffer = <<>>
  BY <1>1 DEF FlushToPersistentCache, Held
<1>2. CASE recordingEnabled /\ buffer # <<>>
  <2>1. PICK k \in LongestPrefix(buffer, RoomInCache(stored)) :
          /\ \/ /\ variantArray' = Without(buffer, k)
                /\ cache' = (stored \o writeBuffer) \o First(buffer, k)
                /\ writeBuffer' = <<>>
             \/ /\ variantArray' = buffer
                /\ cache' = stored
                /\ writeBuffer' = writeBuffer \o First(buffer, k)
          /\ mayRepeat \cup repeated \subseteq mayRepeat'
    BY <1>2 DEF FlushToPersistentCache, KeepUnstored
  <2>2. k \in 0..Len(buffer) /\ writeBuffer \in Seq(Event)
    BY DEF LongestPrefix, TypeOK
  <2>3. /\ First(buffer, k) \in Seq(Event)
        /\ Range(First(buffer, k)) \subseteq Range(buffer)
        /\ Range(Without(buffer, k)) \subseteq Range(buffer)
    BY <2>2, SplitParts DEF Part
  <2>4. /\ stored \o writeBuffer \in Seq(Event)
        /\ Range(stored \o writeBuffer) = Range(stored) \cup Range(writeBuffer)
    BY <2>2, ConcatRange
  <2>5. /\ Range((stored \o writeBuffer) \o First(buffer, k))
             = Range(stored) \cup Range(writeBuffer) \cup Range(First(buffer, k))
        /\ Range(writeBuffer \o First(buffer, k))
             = Range(writeBuffer) \cup Range(First(buffer, k))
    BY <2>2, <2>3, <2>4, ConcatRange
  <2>6. Range(<<>>) = {}
    BY DEF Range
  <2>7. CASE /\ variantArray' = Without(buffer, k)
             /\ cache' = (stored \o writeBuffer) \o First(buffer, k)
             /\ writeBuffer' = <<>>
    BY <2>1, <2>3, <2>5, <2>6, <2>7 DEF Held
  <2>8. CASE /\ variantArray' = buffer
             /\ cache' = stored
             /\ writeBuffer' = writeBuffer \o First(buffer, k)
    BY <2>1, <2>3, <2>5, <2>8 DEF Held
  <2> QED
    BY <2>1, <2>7, <2>8
<1> QED
  BY <1>1, <1>2

\* Every step of the daemon keeps what is held twice among what may be repeated.
LEMMA RepeatsStep ==
  ASSUME TypeOK, Moves, HeldRecorded, Repeats \subseteq mayRepeat
  PROVE  Repeats' \subseteq mayRepeat'
<1>1. /\ cache \in Seq(Event) /\ variantArray \in Seq(Event)
      /\ writeBuffer \in Seq(Event)
      /\ mayRepeat \subseteq mayRepeat'
  BY DEF TypeOK, Moves
<1>2. /\ Twice(cache) \subseteq mayRepeat' /\ Twice(variantArray) \subseteq mayRepeat'
      /\ Range(cache) \cap Range(variantArray) \subseteq mayRepeat'
      /\ Range(writeBuffer) \subseteq mayRepeat'
  BY <1>1 DEF Repeats
<1>3. Range(<<>>) = {}
  BY DEF Range
<1>4. CASE Stays
  BY <1>2, <1>3, <1>4 DEF Stays, Part, Repeats
<1>5. CASE Records
  <2>1. /\ <<recorded + 1>> \in Seq(Event)
        /\ variantArray' = variantArray \o <<recorded + 1>>
        /\ cache' = cache /\ writeBuffer' = writeBuffer
    BY <1>1, <1>5, AppendIsConcat DEF Records
  <2>2. Range(<<recorded + 1>>) = {recorded + 1} /\ Twice(<<recorded + 1>>) = {}
    BY DEF Range, Twice
  <2>3. recorded + 1 \notin Held
    <3>1. recorded \in Nat
      BY DEF TypeOK
    <3> QED
      BY <3>1 DEF HeldRecorded
  <2>4. Range(variantArray') = Range(variantArray) \cup {recorded + 1}
    <3>1. Range(variantArray \o <<recorded + 1>>)
            = Range(variantArray) \cup Range(<<recorded + 1>>)
      BY <1>1, <2>1, ConcatRange
    <3> QED
      BY <2>1, <2>2, <3>1
  <2>5. Twice(variantArray')
          \subseteq Twice(variantArray) \cup {} \cup (Range(variantArray) \cap {recorded + 1})
    BY <1>1, <2>1, <2>2, ConcatTwice
  <2> QED
    BY <1>2, <2>1, <2>3, <2>4, <2>5 DEF Repeats, Held
<1>6. CASE \E stored, buffer, k : Flushes(stored, buffer, k)
  <2>1. PICK stored, buffer, k : Flushes(stored, buffer, k)
    BY <1>6
  <2> DEFINE stays == First(buffer, k)
             left  == Without(buffer, k)
  <2>2. /\ stored \in Seq(Event) /\ buffer \in Seq(Event)
        /\ stays \in Seq(Event) /\ left \in Seq(Event)
        /\ stored \o writeBuffer \in Seq(Event)
    BY <2>1, FlushedEvents
  <2>3. /\ Range(stored) \subseteq Range(cache) /\ Twice(stored) \subseteq Twice(cache)
        /\ Range(buffer) \subseteq Range(variantArray)
        /\ Twice(buffer) \subseteq Twice(variantArray)
        /\ k \in 0..Len(buffer)
    BY <2>1 DEF Flushes, Part
  <2>4. /\ Range(stays) \subseteq Range(buffer) /\ Twice(stays) \subseteq Twice(buffer)
        /\ Range(left) \subseteq Range(buffer) /\ Twice(left) \subseteq Twice(buffer)
        /\ Range(stays) \cap Range(left) \subseteq Twice(buffer)
    BY <2>2, <2>3, SplitParts DEF Part
  <2>5. /\ \/ /\ variantArray' = left
              /\ cache' = (stored \o writeBuffer) \o stays
              /\ writeBuffer' = <<>>
           \/ /\ variantArray' = buffer
              /\ cache' = stored
              /\ writeBuffer' = writeBuffer \o stays
              /\ Range(stays) \subseteq mayRepeat'
    BY <2>1 DEF Flushes
  <2> HIDE DEF stays, left
  <2>6. Twice(writeBuffer) \subseteq Range(writeBuffer)
    BY DEF Twice, Range
  <2>7. /\ Range(stored \o writeBuffer) = Range(stored) \cup Range(writeBuffer)
        /\ Range((stored \o writeBuffer) \o stays)
             = Range(stored \o writeBuffer) \cup Range(stays)
        /\ Range(writeBuffer \o stays) = Range(writeBuffer) \cup Range(stays)
    BY <1>1, <2>2, ConcatRange
  <2>8. Twice(stored \o writeBuffer)
          \subseteq Twice(stored) \cup Twice(writeBuffer)
                      \cup (Range(stored) \cap Range(writeBuffer))
    BY <1>1, <2>2, ConcatTwice
  <2>9. Twice((stored \o writeBuffer) \o stays)
          \subseteq Twice(stored \o writeBuffer) \cup Twice(stays)
                      \cup (Range(stored \o writeBuffer) \cap Range(stays))
    BY <2>2, ConcatTwice
  <2>10. CASE /\ variantArray' = left
              /\ cache' = (stored \o writeBuffer) \o stays
              /\ writeBuffer' = <<>>
    <3>1. Twice(cache') \subseteq mayRepeat'
      BY <1>2, <2>3, <2>4, <2>6, <2>7, <2>8, <2>9, <2>10
    <3>2. Twice(variantArray') \subseteq mayRepeat'
      BY <1>2, <2>3, <2>4, <2>10
    <3>3. Range(cache') \cap Range(variantArray') \subseteq mayRepeat'
      BY <1>2, <2>3, <2>4, <2>7, <2>10
    <3>4. Range(writeBuffer') \subseteq mayRepeat'
      BY <1>3, <2>10
    <3> QED
      BY <3>1, <3>2, <3>3, <3>4 DEF Repeats
  <2>11. CASE /\ variantArray' = buffer
              /\ cache' = stored
              /\ writeBuffer' = writeBuffer \o stays
              /\ Range(stays) \subseteq mayRepeat'
    BY <1>2, <2>3, <2>7, <2>11 DEF Repeats
  <2> QED
    BY <2>5, <2>10, <2>11
<1> QED
  BY <1>4, <1>5, <1>6 DEF Moves

\* A request that has succeeded leaves nothing of what it held, or what may be
\* delivered twice.
LEMMA SuccessLeaves ==
  ASSUME SentInv, Repeats \subseteq mayRepeat, ~flushedInFlight,
         HandleHttpResponseSuccess
  PROVE  Held' \cap Range(upload.body) \subseteq mayRepeat'
<1> DEFINE fromCache  == First(cache, upload.token)
           fromBuffer == First(variantArray, upload.numBuffer)
           restCache  == Without(cache, upload.token)
           restBuffer == Without(variantArray, upload.numBuffer)
<1>1. /\ TypeOK /\ upload \in Upload
      /\ cache \in Seq(Event) /\ variantArray \in Seq(Event)
      /\ upload.token \in 0..Len(cache) /\ upload.token \in 0..Len(upload.body)
      /\ upload.numBuffer \in 0..Len(variantArray)
      /\ upload.body \in Seq(Event)
      /\ First(upload.body, upload.token) = fromCache
      /\ Without(upload.body, upload.token) = fromBuffer
  <2>1. Uncancelled /\ InFlight
    BY DEF HandleHttpResponseSuccess, Answered, Uncancelled
  <2>2. /\ TypeOK /\ upload \in Upload
        /\ cache \in Seq(Event) /\ variantArray \in Seq(Event)
    BY <2>1 DEF SentInv, TypeInv, TypeOK, InFlight
  <2>3. /\ upload.token <= Len(upload.body)
        /\ upload.token <= Len(cache)
        /\ First(cache, upload.token) = First(upload.body, upload.token)
        /\ upload.numBuffer <= Len(variantArray)
        /\ First(variantArray, upload.numBuffer) = Without(upload.body, upload.token)
    BY <2>1 DEF SentInv, SuccessRemovesWhatWasSent
  <2>4. /\ upload.token \in Nat /\ upload.numBuffer \in Nat
        /\ upload.body \in Seq(Event)
    BY <2>2 DEF Upload
  <2>5. /\ Len(cache) \in Nat /\ Len(variantArray) \in Nat /\ Len(upload.body) \in Nat
    BY <2>2, <2>4, LenProperties
  <2> QED
    BY <2>2, <2>3, <2>4, <2>5
<1>2. Range(upload.body) = Range(fromCache) \cup Range(fromBuffer)
  BY <1>1, SplitRange
<1>3. /\ Range(fromCache) \subseteq Range(cache)
      /\ restCache \in Seq(Event) /\ Range(restCache) \subseteq Range(cache)
      /\ Range(fromCache) \cap Range(restCache) \subseteq Twice(cache)
  BY <1>1, SplitParts DEF Part
<1>4. /\ Range(fromBuffer) \subseteq Range(variantArray)
      /\ restBuffer \in Seq(Event) /\ Range(restBuffer) \subseteq Range(variantArray)
      /\ Range(fromBuffer) \cap Range(restBuffer) \subseteq Twice(variantArray)
  BY <1>1, SplitParts DEF Part
<1>5. \/ FlushToPersistentCache(restBuffer, restCache, {})
      \/ FlushToPersistentCache(restBuffer, cache, Range(cache) \cap Range(upload.body))
  BY DEF HandleHttpResponseSuccess
<1> HIDE DEF fromCache, fromBuffer, restCache, restBuffer
<1>6. /\ Twice(cache) \subseteq mayRepeat /\ Twice(variantArray) \subseteq mayRepeat
      /\ Range(cache) \cap Range(variantArray) \subseteq mayRepeat
      /\ Range(writeBuffer) \subseteq mayRepeat
  BY DEF Repeats
<1>7. Range(restBuffer) \cap Range(upload.body) \subseteq mayRepeat
  BY <1>2, <1>3, <1>4, <1>6
<1>8. Range(restCache) \cap Range(upload.body) \subseteq mayRepeat
  BY <1>2, <1>3, <1>4, <1>6
<1>9. CASE FlushToPersistentCache(restBuffer, restCache, {})
  <2>1. /\ Held' \subseteq Range(restBuffer) \cup Range(restCache) \cup Range(writeBuffer)
        /\ mayRepeat \subseteq mayRepeat'
    BY <1>1, <1>3, <1>4, <1>9, FlushHeld
  <2> QED
    BY <1>6, <1>7, <1>8, <2>1
<1>10. CASE FlushToPersistentCache(restBuffer, cache, Range(cache) \cap Range(upload.body))
  <2>1. /\ Held' \subseteq Range(restBuffer) \cup Range(cache) \cup Range(writeBuffer)
        /\ mayRepeat \cup (Range(cache) \cap Range(upload.body)) \subseteq mayRepeat'
    BY <1>1, <1>4, <1>10, FlushHeld
  <2> QED
    BY <1>6, <1>7, <2>1
<1> QED
  BY <1>5, <1>9, <1>10

\* What a step of the daemon delivers, and what becomes of it.
Delivers ==
  /\ InFlight
  /\ delivered' = delivered \cup Range(upload.body)
  /\ \/ flushedInFlight'
     \/ Range(upload.body) \subseteq mayRepeat'
     \/ upload' = NoUpload /\ Held' \cap Range(upload.body) \subseteq mayRepeat'

\* Every step of the daemon delivers nothing, or what is in flight.
LEMMA DeliveredStep ==
  OnceInv /\ [Next]_vars =>
    /\ delivered' = delivered \/ Delivers
    /\ flushedInFlight => flushedInFlight'
<1> SUFFICES ASSUME OnceInv, [Next]_vars
             PROVE  /\ delivered' = delivered \/ Delivers
                    /\ flushedInFlight => flushedInFlight'
  OBVIOUS
<1>1. CASE \/ RecordEvent \/ UploadEvents \/ HandleUploadTimer
           \/ RefuseRecordingDisabled \/ RefuseUploadingDisabled \/ ProbeNetwork
           \/ HandleUploadFinished \/ QueueHttpRequest \/ QueueHttpRequestFails
           \/ CanReachWhileInFlight \/ CanReachUnreachable \/ CanReachCreateRequest
           \/ CanReachNoRequest \/ HandleBackoffTimer \/ HandleBackoffTimerFails
           \/ OnSetEnabled \/ WriteConfigFile \/ EditConfig
           \/ QuitFinalized \/ QuitReferenced \/ Start \/ UNCHANGED vars
  <2>1. CASE RecordEvent \/ HandleUploadTimer \/ RefuseRecordingDisabled
             \/ ProbeNetwork
    BY <2>1 DEF RecordEvent, HandleUploadTimer, RefuseRecordingDisabled,
                ProbeNetwork, historyVars
  <2>8. CASE RefuseUploadingDisabled
    BY <2>8, Zenon DEF RefuseUploadingDisabled
  <2>2. CASE UploadEvents
    BY <2>2 DEF UploadEvents, historyVars
  <2>3. CASE HandleUploadFinished \/ QueueHttpRequest \/ QueueHttpRequestFails
             \/ HandleBackoffTimer \/ HandleBackoffTimerFails
    BY <2>3 DEF HandleUploadFinished, QueueHttpRequest, QueueHttpRequestFails,
                HandleBackoffTimer, HandleBackoffTimerFails, historyVars
  <2>4. CASE CanReachWhileInFlight \/ CanReachUnreachable
    BY <2>4 DEF CanReachWhileInFlight, CanReachUnreachable, historyVars
  <2>5. CASE CanReachCreateRequest \/ CanReachNoRequest
    BY <2>5 DEF CanReachCreateRequest, CanReachNoRequest, historyVars
  <2>6. CASE OnSetEnabled \/ WriteConfigFile \/ EditConfig
    BY <2>6 DEF OnSetEnabled, WriteConfigFile, EditConfig, historyVars
  <2>7. CASE QuitFinalized \/ QuitReferenced \/ Start \/ UNCHANGED vars
    BY <2>7 DEF QuitFinalized, QuitReferenced, Start, vars, historyVars
  <2> QED
    BY <1>1, <2>1, <2>2, <2>3, <2>4, <2>5, <2>6, <2>7, <2>8
<1>2. CASE HandleHttpResponseSuccess
  <2>1. /\ InFlight /\ delivered' = delivered \cup Range(upload.body)
        /\ upload' = NoUpload /\ flushedInFlight' = flushedInFlight
    BY <1>2 DEF HandleHttpResponseSuccess, Answered, FinishNetworkCallback
  <2>2. ~flushedInFlight => Held' \cap Range(upload.body) \subseteq mayRepeat'
    BY <1>2, SuccessLeaves DEF OnceInv
  <2> QED
    BY <2>1, <2>2 DEF Delivers
<1>3. CASE HandleHttpResponseCancelled
  <2>1. /\ InFlight /\ upload.cancelled
        /\ delivered' = delivered \cup Range(upload.body)
        /\ upload' = NoUpload
        /\ UNCHANGED <<memoryVars, cache, mayRepeat, flushedInFlight>>
    BY <1>3 DEF HandleHttpResponseCancelled, Answered, FinishNetworkCallback
  <2>2. Held' = Held
    BY <2>1 DEF Held, memoryVars
  <2>3. ~flushedInFlight => Held' \cap Range(upload.body) \subseteq mayRepeat'
    BY <2>1, <2>2 DEF OnceInv, InBody
  <2> QED
    BY <2>1, <2>3 DEF Delivers
<1>4. CASE HandleHttpResponseGiveUp \/ HandleHttpResponseBackoff
  BY <1>4 DEF HandleHttpResponseGiveUp, HandleHttpResponseBackoff, ErrorAnswered,
              Answered, Delivers
<1>5. CASE ProcessExits \/ Killed \/ CanReachWithoutTask
  BY <1>5 DEF ProcessExits, Killed, CanReachWithoutTask, ProcessEnds, MemoryLost, Delivers
<1>6. CASE HandleHttpResponseOutOfRange \/ HandleHttpResponseOutOfRangeSurvived
  <2>1. /\ Uncancelled /\ InFlight /\ upload.numBuffer > Len(variantArray)
        /\ delivered' = delivered \cup Range(upload.body)
        /\ flushedInFlight' = flushedInFlight
    BY <1>6 DEF HandleHttpResponseOutOfRange, HandleHttpResponseOutOfRangeSurvived,
       RemovedOutOfRange, Answered, Uncancelled, MemoryLost
  <2>2. flushedInFlight
    <3>1. upload.numBuffer \in Nat /\ Len(variantArray) \in Nat
      BY <2>1, LenProperties DEF OnceInv, SentInv, TypeInv, TypeOK, InFlight, Upload
    <3>2. ~(upload.numBuffer <= Len(variantArray))
      BY <2>1, <3>1
    <3> QED
      BY <2>1, <3>2 DEF OnceInv, SentInv, SuccessRemovesWhatWasSent
  <2> QED
    BY <2>1, <2>2 DEF Delivers
<1> QED
  BY <1>1, <1>2, <1>3, <1>4, <1>5, <1>6
  DEF Next, Continue, NetworkMonitorAnswers, ServerAnswers, BackoffEnds, ProcessLife

\* Every step of the daemon preserves DeliveredOnce.
LEMMA OnceStep == OnceInv /\ [Next]_vars => OnceInv'
<1> SUFFICES ASSUME OnceInv, [Next]_vars PROVE OnceInv'
  OBVIOUS
<1>1. /\ TypeOK /\ Moves /\ UploadMoves /\ HeldRecorded /\ SentInv'
      /\ delivered' = delivered \/ Delivers
      /\ flushedInFlight => flushedInFlight'
      /\ mayRepeat \subseteq mayRepeat'
  BY TypeStep, SentStep, StepMoves, StepUploadMoves, DeliveredStep
  DEF OnceInv, SentInv, TypeInv, Moves
<1>2. HeldRecorded' /\ Repeats' \subseteq mayRepeat'
  BY <1>1, HeldStep, RepeatsStep DEF OnceInv
<1>3. /\ recorded \in Nat /\ recorded' \in {recorded, recorded + 1}
      /\ delivered \subseteq Nat /\ InBody \subseteq Nat
  <2>1. InFlight => upload.body \in Seq(Event)
    BY <1>1 DEF TypeOK, InFlight, Upload
  <2>2. InBody \subseteq Event
    BY <2>1, RangeType DEF InBody
  <2>3. delivered \subseteq Event /\ recorded \in Nat
    BY <1>1 DEF TypeOK
  <2> QED
    BY <1>1, <2>2, <2>3 DEF Event, Moves
<1>4. ASSUME NEW event \in Nat, event <= recorded
      PROVE  event <= recorded' /\ event # recorded + 1
  BY <1>3, <1>4
<1>5. delivered' \subseteq delivered \cup InBody
  BY <1>1 DEF Delivers, InBody
<1>6. \A event \in delivered \cup InBody : event <= recorded
  BY DEF OnceInv
<1>7. ASSUME NEW event \in Held', event \in delivered \cup InBody PROVE event \in Held
  <2>1. event # recorded + 1
    BY <1>3, <1>4, <1>6, <1>7
  <2> QED
    BY <1>1, <1>7, <2>1, MovesHeld
<1>8. InBody' \subseteq InBody \cup Held'
  BY <1>1 DEF UploadMoves, OptsOut, SameUpload, HoldsWhatIsHeld, InBody, InFlight, Held
<1>9. \A event \in delivered' \cup InBody' : event <= recorded'
  <2>1. \A event \in Held' : event <= recorded'
    BY <1>2 DEF HeldRecorded
  <2>2. \A event \in delivered \cup InBody : event <= recorded'
    BY <1>3, <1>4, <1>6
  <2> QED
    BY <1>5, <1>8, <2>1, <2>2
<1>10. ASSUME ~flushedInFlight'
       PROVE  /\ Held' \cap delivered' \subseteq mayRepeat'
              /\ InBody' \cap delivered' \subseteq mayRepeat'
              /\ InFlight' /\ upload'.cancelled => InBody' \cap Held' \subseteq mayRepeat'
  <2>1. /\ Held \cap delivered \subseteq mayRepeat'
        /\ InBody \cap delivered \subseteq mayRepeat'
        /\ InFlight /\ upload.cancelled => InBody \cap Held \subseteq mayRepeat'
    BY <1>1, <1>10 DEF OnceInv
  <2>2. \/ delivered' = delivered
        \/ delivered' = delivered \cup InBody /\ InBody \subseteq mayRepeat'
        \/ /\ delivered' = delivered \cup InBody
           /\ upload' = NoUpload /\ Held' \cap InBody \subseteq mayRepeat'
    BY <1>1, <1>10 DEF Delivers, InBody
  <2>3. Held' \cap delivered' \subseteq mayRepeat'
    BY <1>7, <2>1, <2>2
  <2>4. InBody' \cap delivered' \subseteq mayRepeat'
    <3>1. upload' = NoUpload => InBody' = {}
      BY DEF InBody, InFlight
    <3>2. InBody' \cap delivered \subseteq mayRepeat'
      BY <1>7, <1>8, <2>1
    <3> QED
      BY <2>2, <3>1, <3>2
  <2>5. ASSUME InFlight', upload'.cancelled
        PROVE  InBody' \cap Held' \subseteq mayRepeat'
    <3>1. CASE OptsOut
      <4>1. variantArray' = <<>> /\ writeBuffer' = writeBuffer
        BY <3>1 DEF OptsOut
      <4>2. Range(<<>>) = {}
        BY DEF Range
      <4>3. cache' = <<>> \/ (cache' = cache /\ Range(cache) \subseteq mayRepeat')
        BY <3>1 DEF OptsOut, RemoveAll
      <4>4. Range(cache') \subseteq mayRepeat' /\ Range(variantArray') = {}
        BY <4>1, <4>2, <4>3
      <4>5. Range(writeBuffer') \subseteq mayRepeat'
        BY <1>2 DEF Repeats
      <4> QED
        BY <4>4, <4>5 DEF Held
    <3>2. CASE SameUpload(upload')
      <4>1. InFlight /\ upload.cancelled /\ InBody' = InBody
        BY <2>5, <3>2 DEF SameUpload, InFlight, InBody
      <4> QED
        BY <1>7, <2>1, <4>1
    <3>3. CASE HoldsWhatIsHeld
      BY <2>5, <3>3 DEF HoldsWhatIsHeld, InFlight
    <3> QED
      BY <1>1, <3>1, <3>2, <3>3 DEF UploadMoves
  <2> QED
    BY <2>3, <2>4, <2>5
<1> QED
  BY <1>1, <1>2, <1>9, <1>10 DEF OnceInv

\* A request holds an event that the server has already accepted only if an answer
\* was lost, a removal, a purge or a save failed, or the process ended before the
\* answer arrived, unless the buffer was flushed under a request.
THEOREM OnceCorrect == Spec => []DeliveredOnce
<1>1. Init => OnceInv
  <2> SUFFICES ASSUME Init PROVE OnceInv
    OBVIOUS
  <2>1. SentInv
    BY InitType DEF SentInv, Init, SuccessRemovesWhatWasSent, Uncancelled, InFlight
  <2>2. /\ cache = <<>> /\ variantArray = <<>> /\ writeBuffer = <<>>
        /\ delivered = {} /\ upload = NoUpload
    BY DEF Init
  <2>3. Range(<<>>) = {} /\ Twice(<<>>) = {}
    BY DEF Range, Twice
  <2>4. Held = {} /\ Repeats = {} /\ InBody = {} /\ ~InFlight
    BY <2>2, <2>3 DEF Held, Repeats, InBody, InFlight
  <2> QED
    BY <2>1, <2>2, <2>4 DEF OnceInv, HeldRecorded
<1>2. OnceInv => DeliveredOnce
  BY DEF OnceInv, DeliveredOnce, InBody
<1> QED
  BY <1>1, <1>2, OnceStep, PTL DEF Spec

=============================================================================
