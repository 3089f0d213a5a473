----------------------- MODULE EinsBoottimeSource_proofs -----------------------
(* What is proved of EinsBoottimeSource for every value of its constants.     *)
EXTENDS EinsBoottimeSource, TLAPS

-----------------------------------------------------------------------------
(* Arithmetic *)

LEMMA Quotient ==
  ASSUME NEW a \in Nat, NEW b \in Nat \ {0}
  PROVE  a \div b \in Nat /\ (a \div b) * b <= a
OBVIOUS

LEMMA ProductGrows ==
  ASSUME NEW a \in Nat, NEW b \in Nat, NEW n \in Nat, a <= b
  PROVE  a * n \in Nat /\ b * n \in Nat /\ a * n <= b * n
OBVIOUS

-----------------------------------------------------------------------------
(* The invariant *)

(* A timer has expired as often as its interval fits in the time since it was *)
(* set, and each call was for one expiration or more.                         *)
CountedOf(s) ==
  /\ added[s] <= now
  /\ calls[s] <= consumed[s]
  /\ consumed[s] * interval[s] <= now - added[s]
  /\ state[s] = "none" => consumed[s] = 0
  /\ state[s] = "armed" => interval[s] # 0

Counted == \A s \in Sources : CountedOf(s)

Inv == TypeOK /\ Counted

LEMMA InvInitially == Init => Inv
BY DEF Init, Inv, TypeOK, Counted, CountedOf

LEMMA InvStep == Inv /\ [Next]_vars => Inv'
<1> SUFFICES ASSUME Inv, [Next]_vars PROVE Inv'
  OBVIOUS
<1> USE BoottimeAssumption DEF Inv
<1>1. ASSUME NEW s \in Sources, NEW n \in Intervals, Add(s, n) PROVE Inv'
  <2>1. n \in Nat
    OBVIOUS
  <2>2. TypeOK'
    BY <1>1, <2>1 DEF Add, TypeOK
  <2>3. ASSUME NEW o \in Sources, o # s PROVE CountedOf(o)'
    BY <1>1, <2>3 DEF Add, TypeOK, Counted, CountedOf
  <2>4. CountedOf(s)'
    <3>1. consumed[s] = 0 /\ calls[s] = 0
      BY <1>1 DEF Add, TypeOK, Counted, CountedOf
    <3> QED
      BY <1>1, <2>1, <3>1 DEF Add, TypeOK, Counted, CountedOf
  <2> QED
    BY <2>2, <2>3, <2>4 DEF Counted, CountedOf
<1>2. ASSUME NEW s \in Sources, Dispatch(s) PROVE Inv'
  <2> DEFINE q == (now - added[s]) \div interval[s]
  <2>1. /\ now - added[s] \in Nat /\ interval[s] \in Nat \ {0}
        /\ consumed[s] \in Nat /\ calls[s] \in Nat
    <3>1. state[s] = "armed"
      BY <1>2 DEF Dispatch, Ready
    <3>2. added[s] <= now /\ interval[s] # 0
      BY <3>1 DEF Counted, CountedOf
    <3> QED
      BY <3>2 DEF TypeOK
  <2>2. q \in Nat /\ q * interval[s] <= now - added[s]
    BY <2>1, Quotient
  <2>3. Expirations(s) = q - consumed[s] /\ q - consumed[s] > 0
    BY <1>2 DEF Dispatch, Ready, Expirations
  <2> HIDE DEF q
  <2>4. consumed' = [consumed EXCEPT ![s] = q]
    <3>1. consumed[s] + Expirations(s) = q
      BY <2>1, <2>2, <2>3
    <3> QED
      BY <1>2, <3>1 DEF Dispatch
  <2>5. calls' = [calls EXCEPT ![s] = @ + 1] /\ UNCHANGED <<now, added, interval>>
    BY <1>2 DEF Dispatch
  <2>6. /\ state[s] = "armed" /\ state' \in [Sources -> {"none", "armed", "disarmed", "removed"}]
        /\ state'[s] # "none" /\ \A o \in Sources : o # s => state'[o] = state[o]
    BY <1>2 DEF Dispatch, Ready, TypeOK
  <2>7. TypeOK'
    <3>1. calls[s] + 1 \in Nat
      BY <2>1
    <3>2. /\ consumed' \in [Sources -> Nat] /\ calls' \in [Sources -> Nat]
      BY <2>2, <2>4, <2>5, <3>1 DEF TypeOK
    <3> QED
      BY <2>5, <2>6, <3>2 DEF TypeOK
  <2>8. ASSUME NEW o \in Sources, o # s PROVE CountedOf(o)'
    BY <2>4, <2>5, <2>6, <2>8 DEF TypeOK, Counted, CountedOf
  <2>9. CountedOf(s)'
    <3>1. /\ consumed'[s] = q /\ calls'[s] = calls[s] + 1
          /\ now' = now /\ added' = added /\ interval' = interval
      BY <2>4, <2>5 DEF TypeOK
    <3>2. calls[s] <= consumed[s] /\ added[s] <= now
      BY DEF Counted, CountedOf
    <3> QED
      BY <2>1, <2>2, <2>3, <2>6, <3>1, <3>2 DEF CountedOf
  <2> QED
    BY <2>7, <2>8, <2>9 DEF Counted, CountedOf
<1>3. ASSUME NEW s \in Sources, DispatchFails(s) \/ Remove(s) PROVE Inv'
  <2>1. /\ state' = [state EXCEPT ![s] = "removed"]
        /\ UNCHANGED <<now, added, interval, consumed, calls>>
    BY <1>3 DEF DispatchFails, Remove
  <2> QED
    BY <2>1 DEF TypeOK, Counted, CountedOf
<1>4. CASE Pass
  <2>1. now' \in Nat /\ now' > now /\ UNCHANGED <<added, interval, state, consumed, calls>>
    BY <1>4 DEF Pass, TypeOK
  <2>2. ASSUME NEW s \in Sources PROVE CountedOf(s)'
    <3>1. /\ consumed[s] \in Nat /\ interval[s] \in Nat /\ added[s] \in Nat
          /\ consumed[s] * interval[s] <= now - added[s]
      BY DEF TypeOK, Counted, CountedOf
    <3>2. consumed[s] * interval[s] \in Nat
      BY <3>1, ProductGrows
    <3>3. consumed[s] * interval[s] <= now' - added[s]
      <4> DEFINE p == consumed[s] * interval[s]
      <4> HIDE DEF p
      <4>1. p \in Nat /\ p <= now - added[s] /\ now \in Nat
        BY <3>1, <3>2 DEF p, TypeOK
      <4> QED
        BY <2>1, <3>1, <4>1 DEF p
    <3> QED
      BY <2>1, <3>3 DEF TypeOK, Counted, CountedOf
  <2> QED
    BY <2>1, <2>2 DEF TypeOK, Counted, CountedOf
<1>5. CASE UNCHANGED vars
  BY <1>5 DEF vars, TypeOK, Counted, CountedOf
<1> QED
  BY <1>1, <1>2, <1>3, <1>4, <1>5 DEF Next

LEMMA InvHolds == Spec => []Inv
BY InvInitially, InvStep, PTL DEF Spec

(* Every variable keeps its type; times are never negative.                   *)
THEOREM TypeCorrect == Spec => []TypeOK
<1>1. Inv => TypeOK
  BY DEF Inv
<1> QED
  BY <1>1, InvHolds, PTL

(* However late the main loop dispatches a source, and however long the       *)
(* machine was suspended, eins_boottime_source_dispatch has called the        *)
(* callback at most once for each interval that has passed.                   *)
THEOREM NotTooOften == Spec => []NeverTooOften
<1>1. Inv => NeverTooOften
  <2> SUFFICES ASSUME Inv, NEW s \in Sources
               PROVE  calls[s] * interval[s] <= now - added[s]
    BY DEF NeverTooOften
  <2>1. /\ calls[s] \in Nat /\ consumed[s] \in Nat /\ interval[s] \in Nat
        /\ calls[s] <= consumed[s] /\ now - added[s] \in Int
        /\ consumed[s] * interval[s] <= now - added[s]
    BY DEF Inv, TypeOK, Counted, CountedOf
  <2>2. /\ calls[s] * interval[s] \in Nat /\ consumed[s] * interval[s] \in Nat
        /\ calls[s] * interval[s] <= consumed[s] * interval[s]
    BY <2>1, ProductGrows
  <2>3. \A a, b, c \in Int : a <= b /\ b <= c => a <= c
    OBVIOUS
  <2> QED
    BY <2>1, <2>2, <2>3
<1> QED
  BY <1>1, InvHolds, PTL
=============================================================================
