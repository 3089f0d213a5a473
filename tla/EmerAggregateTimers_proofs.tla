----------------------- MODULE EmerAggregateTimers_proofs -----------------------
(* Theorems about EmerAggregateTimers, for every number of clients, timers and*)
(* days: the tables of timers and of senders agree, an opt-out that has       *)
(* cleared the tally keeps it clear, and every part of the state keeps its    *)
(* type, whatever the faults; the daily rows account for what timers ran, once*)
(* each, where rows can be stored and cleared and no counter is at its limit. *)
EXTENDS EmerAggregateTimers, RecursionFacts, TLAPS

-----------------------------------------------------------------------------
(* The tables *)

(* A number that has not been given to a timer is not in the table.           *)
NumbersUsed == timerId \in Nat /\ \A t \in DOMAIN timers : t \in Nat /\ t < timerId

TablesInv == NumbersUsed /\ TablesAgree

(* Both tables are empty.                                                     *)
LEMMA NoTablesAgree ==
  ASSUME TablesInv, NoTables, timerId' = timerId
  PROVE  TablesInv'
<1>1. DOMAIN timers' = {} /\ DOMAIN monitored' = {}
  BY DEF NoTables
<1> QED
  BY <1>1 DEF TablesInv, NumbersUsed, TablesAgree

(* A timer is added to both tables.                                           *)
LEMMA StartTimerAgrees ==
  ASSUME NEW s, NEW e, TablesInv, StartTimer(s, e)
  PROVE  TablesInv'
<1>1. timerId \in Nat /\ timerId' = timerId + 1
  BY DEF TablesInv, NumbersUsed, StartTimer
<1>2. DOMAIN timers' = DOMAIN timers \cup {timerId}
  BY DEF StartTimer
<1>3. timerId \notin DOMAIN timers
  BY <1>1 DEF TablesInv, NumbersUsed
<1>4. NumbersUsed'
  BY <1>1, <1>2 DEF TablesInv, NumbersUsed
<1>5. timers'[timerId].sender = s
  BY <1>2 DEF StartTimer, NewTimer
<1>6. \A t \in DOMAIN timers : timers'[t].sender = timers[t].sender
  BY <1>2, <1>3 DEF StartTimer
<1>7. DOMAIN monitored' = DOMAIN monitored \cup {s}
  BY DEF StartTimer
<1>8. DOMAIN monitored' = {timers'[t].sender : t \in DOMAIN timers'}
  BY <1>2, <1>5, <1>6, <1>7 DEF TablesInv, TablesAgree
<1>9. ASSUME NEW o \in DOMAIN monitored'
      PROVE  monitored'[o] = {t \in DOMAIN timers' : timers'[t].sender = o}
  <2>1. monitored'[o] = (IF o \in DOMAIN monitored THEN monitored[o] ELSE {})
                          \cup (IF o = s THEN {timerId} ELSE {})
    BY <1>7 DEF StartTimer
  <2>2. (IF o \in DOMAIN monitored THEN monitored[o] ELSE {})
          = {t \in DOMAIN timers : timers[t].sender = o}
    BY DEF TablesInv, TablesAgree
  <2>3. {t \in DOMAIN timers : timers[t].sender = o}
          = {t \in DOMAIN timers : timers'[t].sender = o}
    BY <1>6
  <2> QED
    BY <2>1, <2>2, <2>3, <1>2, <1>5
<1> QED
  BY <1>4, <1>8, <1>9 DEF TablesInv, TablesAgree

(* The timers of a sender, or one of several, are removed from both tables.   *)
LEMMA RemovalAgrees ==
  ASSUME TablesInv, timerId' = timerId,
         NEW s \in DOMAIN monitored, NEW ts \in SUBSET monitored[s],
         RemoveTimers(ts),
         IF ts = monitored[s] THEN RemoveSender(s)
         ELSE monitored' = [monitored EXCEPT ![s] = @ \ ts]
  PROVE  TablesInv'
<1>1. /\ DOMAIN timers' = DOMAIN timers \ ts
      /\ \A t \in DOMAIN timers' : timers'[t] = timers[t]
  BY DEF RemoveTimers
<1>2. NumbersUsed'
  BY <1>1 DEF TablesInv, NumbersUsed
<1>3. monitored[s] = {t \in DOMAIN timers : timers[t].sender = s}
  BY DEF TablesInv, TablesAgree
<1>4. CASE ts = monitored[s]
  <2>1. /\ DOMAIN monitored' = DOMAIN monitored \ {s}
        /\ \A o \in DOMAIN monitored' : monitored'[o] = monitored[o]
    BY <1>4 DEF RemoveSender
  <2>2. DOMAIN monitored' = {timers'[t].sender : t \in DOMAIN timers'}
    BY <1>1, <1>3, <1>4, <2>1 DEF TablesInv, TablesAgree
  <2>3. \A o \in DOMAIN monitored' :
          monitored'[o] = {t \in DOMAIN timers' : timers'[t].sender = o}
    BY <1>1, <1>3, <1>4, <2>1 DEF TablesInv, TablesAgree
  <2> QED
    BY <1>2, <2>2, <2>3 DEF TablesInv, TablesAgree
<1>5. CASE ts # monitored[s]
  <2>1. monitored' = [monitored EXCEPT ![s] = @ \ ts]
    BY <1>5
  <2>2. /\ DOMAIN monitored' = DOMAIN monitored
        /\ monitored'[s] = monitored[s] \ ts
        /\ \A o \in DOMAIN monitored \ {s} : monitored'[o] = monitored[o]
    BY <2>1
  <2>3. PICK t \in monitored[s] : t \notin ts
    BY <1>5
  <2>4. t \in DOMAIN timers' /\ timers'[t].sender = s
    BY <1>1, <1>3, <2>3
  <2>5. \A r \in ts : timers[r].sender = s
    BY <1>3
  <2>6. {timers'[r].sender : r \in DOMAIN timers'} = {timers[r].sender : r \in DOMAIN timers}
    BY <1>1, <2>4, <2>5
  <2>7. \A o \in DOMAIN monitored' :
          monitored'[o] = {r \in DOMAIN timers' : timers'[r].sender = o}
    <3> SUFFICES ASSUME NEW o \in DOMAIN monitored'
                 PROVE  monitored'[o] = {r \in DOMAIN timers' : timers'[r].sender = o}
      OBVIOUS
    <3>1. monitored[o] = {r \in DOMAIN timers : timers[r].sender = o}
      BY <2>2 DEF TablesInv, TablesAgree
    <3>2. CASE o = s
      BY <1>1, <2>2, <3>1, <3>2
    <3>3. CASE o # s
      BY <1>1, <2>2, <2>5, <3>1, <3>3
    <3> QED
      BY <3>2, <3>3
  <2> QED
    BY <1>2, <2>2, <2>6, <2>7 DEF TablesInv, TablesAgree
<1> QED
  BY <1>4, <1>5

(* A timer that is started again keeps its sender.                            *)
LEMMA MidnightAgrees ==
  ASSUME TablesInv, ClockTickedMidnight
  PROVE  TablesInv'
<1>1. /\ DOMAIN timers' = DOMAIN timers
      /\ \A t \in DOMAIN timers : timers'[t].sender = timers[t].sender
  BY DEF ClockTickedMidnight, SplitTimers, NewTimer
<1>2. monitored' = monitored /\ timerId' = timerId
  BY DEF ClockTickedMidnight
<1> QED
  BY <1>1, <1>2 DEF TablesInv, NumbersUsed, TablesAgree

(* Neither table changes.                                                    *)
LEMMA UnchangedTablesAgree ==
  ASSUME TablesInv, UNCHANGED tables
  PROVE  TablesInv'
BY DEF tables, TablesInv, NumbersUsed, TablesAgree

LEMMA TablesInitially == Init => TablesInv
BY DEF Init, TablesInv, NumbersUsed, TablesAgree

LEMMA TablesStep == TablesInv /\ [Next]_vars => TablesInv'
<1> SUFFICES ASSUME TablesInv, [Next]_vars
             PROVE  TablesInv'
  OBVIOUS
<1>1. ASSUME NEW s \in Senders, NEW e \in Events, StartTimer(s, e) PROVE TablesInv'
  BY <1>1, StartTimerAgrees
<1>2. ASSUME NEW t \in DOMAIN timers, StopTimer(t) PROVE TablesInv'
  <2> DEFINE s == timers[t].sender
  <2>1. s \in DOMAIN monitored /\ t \in monitored[s]
    BY DEF TablesInv, TablesAgree
  <2>2. RemoveTimers({t}) /\ timerId' = timerId
    BY <1>2 DEF StopTimer
  <2>3. IF {t} = monitored[s] THEN RemoveSender(s)
        ELSE monitored' = [monitored EXCEPT ![s] = @ \ {t}]
    BY <1>2 DEF StopTimer
  <2> HIDE DEF s
  <2> QED
    BY <2>1, <2>2, <2>3, RemovalAgrees
<1>3. ASSUME NEW s \in Senders, SenderNameVanished(s) PROVE TablesInv'
  <2>1. /\ s \in DOMAIN monitored /\ timerId' = timerId
        /\ RemoveTimers(monitored[s]) /\ RemoveSender(s)
    BY <1>3 DEF SenderNameVanished
  <2> QED
    BY <2>1, RemovalAgrees
<1>4. CASE ClockTickedMidnight
  BY <1>4, MidnightAgrees
<1>5. CASE Disable
  BY <1>5, NoTablesAgree DEF Disable
<1>6. CASE Shutdown
  BY <1>6, NoTablesAgree DEF Shutdown
<1>7. CASE Exit
  BY <1>7, NoTablesAgree DEF Exit, Ended
<1>8. CASE Kill
  BY <1>8, NoTablesAgree DEF Kill, Ended
<1>9. CASE Enable \/ Start \/ SetClock \/ ReplaceDatabase \/ EditConfigFile
  BY <1>9, UnchangedTablesAgree
     DEF Enable, Start, SetClock, ReplaceDatabase, EditConfigFile
<1>10. CASE Tick \/ Suspend
  BY <1>10, UnchangedTablesAgree DEF Tick, Suspend, Passes
<1>11. ASSUME NEW s \in Senders, Leave(s) PROVE TablesInv'
  BY <1>11, UnchangedTablesAgree DEF Leave
<1>12. CASE UNCHANGED vars
  BY <1>12, UnchangedTablesAgree DEF vars
<1> QED
  BY <1>1, <1>2, <1>3, <1>4, <1>5, <1>6, <1>7, <1>8, <1>9, <1>10, <1>11, <1>12 DEF Next

(* The table of running timers and the timers of the watched senders agree in *)
(* every state, so that on_timer_stopped_cb and sender_name_vanished_cb find  *)
(* what they assert.                                                          *)
THEOREM TablesCorrect == Spec => []TablesAgree
<1>1. Init => TablesInv
  BY TablesInitially
<1>2. TablesInv /\ [Next]_vars => TablesInv'
  BY TablesStep
<1>3. TablesInv => TablesAgree
  BY DEF TablesInv
<1> QED
  BY <1>1, <1>2, <1>3, PTL DEF Spec

-----------------------------------------------------------------------------
(* The opt-out *)

(* What is not recorded is not tallied.                                       *)
OptOutInv ==
  /\ TablesInv
  /\ optedOut => ~recording /\ tally = NoRows /\ DOMAIN timers = {}

(* Storing no timer, iterating over no rows.                                  *)
LEMMA NothingStored == ASSUME NEW type, NEW date
                       PROVE  Stored(NoRows, {}, type, date) = NoRows
<1> DEFINE KeyOf(t) == Key(type, date, timers[t].event)
<1>1. DOMAIN NoRows \cup {KeyOf(t) : t \in {}} = {}
  BY DEF NoRows
<1>2. DOMAIN Stored(NoRows, {}, type, date) = {}
  BY <1>1 DEF Stored
<1>3. Stored(NoRows, {}, type, date)
        = [k \in {} |-> (IF k \in DOMAIN NoRows THEN NoRows[k] ELSE 0)
                         + SecondsOf({t \in {} : KeyOf(t) = k})]
  BY <1>1 DEF Stored
<1> QED
  BY <1>3 DEF NoRows

LEMMA NothingIterated == ASSUME NEW keys, NEW r \in Iterated(NoRows, keys)
                         PROVE  r.rows = NoRows
<1>1. DOMAIN NoRows \ keys = {}
  BY DEF NoRows
<1>2. Without(NoRows, keys) = [k \in {} |-> NoRows[k]]
  BY <1>1 DEF Without
<1>3. Without(NoRows, keys) = NoRows
  BY <1>2 DEF NoRows
<1>4. r \in {[rows |-> Without(NoRows, keys), keys |-> keys, failed |-> FALSE]}
      \/ \E some \in SUBSET keys :
            r = [rows |-> NoRows, keys |-> some, failed |-> TRUE]
  BY DEF Iterated
<1> QED
  BY <1>3, <1>4

(* There is nothing to be chosen where there is no timer.                    *)
LEMMA NoneOfNothing == ASSUME NEW ts \in SomeOf({}) PROVE ts = {}
BY DEF SomeOf

LEMMA OptOutInitially == Init => OptOutInv
BY TablesInitially DEF Init, OptOutInv

LEMMA OptOutStep == OptOutInv /\ [Next]_vars => OptOutInv'
<1> SUFFICES ASSUME OptOutInv, [Next]_vars, optedOut'
             PROVE  ~recording' /\ tally' = NoRows /\ DOMAIN timers' = {}
  BY TablesStep DEF OptOutInv
<1> USE DEF OptOutInv
<1>1. ASSUME NEW s \in Senders, NEW e \in Events, StartTimer(s, e) PROVE FALSE
  BY <1>1 DEF StartTimer, history
<1>2. ASSUME NEW t \in DOMAIN timers, StopTimer(t) PROVE FALSE
  BY <1>2 DEF StopTimer
<1>3. ASSUME NEW s \in Senders, SenderNameVanished(s) PROVE FALSE
  BY <1>3 DEF SenderNameVanished, TablesInv, TablesAgree
<1>4. CASE ClockTickedMidnight
  <2>1. /\ recording' = recording /\ optedOut' = optedOut
        /\ DOMAIN timers' = DOMAIN timers
    BY <1>4 DEF ClockTickedMidnight, SplitTimers
  <2>2. tally = NoRows /\ DOMAIN timers = {}
    BY <2>1
  <2>3. \A type, date : \A ts \in SomeOf({}) : Stored(NoRows, ts, type, date) = NoRows
    BY NothingStored, NoneOfNothing
  <2>4. PICK daily \in SomeOf(DOMAIN timers) :
          LET rows == Stored(tally, daily, "daily", tallyDate)
          IN \E days \in Iterated(rows, RowsOf(rows, "daily", tallyDate)) :
               \/ tally' = days.rows
               \/ \E monthly \in SomeOf(DOMAIN timers) :
                    LET more == Stored(days.rows, monthly, "monthly", tallyDate)
                    IN \E months \in Iterated(more, RowsOf(more, "monthly", tallyDate)) :
                         tally' = months.rows
    BY <1>4 DEF ClockTickedMidnight
  <2>5. PICK days \in Iterated(NoRows, RowsOf(NoRows, "daily", tallyDate)) :
          \/ tally' = days.rows
          \/ \E monthly \in SomeOf(DOMAIN timers) :
               LET more == Stored(days.rows, monthly, "monthly", tallyDate)
               IN \E months \in Iterated(more, RowsOf(more, "monthly", tallyDate)) :
                    tally' = months.rows
    BY <2>2, <2>3, <2>4
  <2>6. days.rows = NoRows
    BY NothingIterated
  <2>7. CASE tally' = days.rows
    BY <2>1, <2>2, <2>6, <2>7
  <2>8. ASSUME NEW monthly \in SomeOf(DOMAIN timers),
               LET more == Stored(days.rows, monthly, "monthly", tallyDate)
               IN \E months \in Iterated(more, RowsOf(more, "monthly", tallyDate)) :
                    tally' = months.rows
        PROVE  tally' = NoRows
    <3>1. Stored(days.rows, monthly, "monthly", tallyDate) = NoRows
      BY <2>2, <2>3, <2>6
    <3>2. \E months \in Iterated(NoRows, RowsOf(NoRows, "monthly", tallyDate)) :
            tally' = months.rows
      BY <2>8, <3>1
    <3> QED
      BY <3>2, NothingIterated
  <2> QED
    BY <2>1, <2>2, <2>5, <2>7, <2>8
<1>5. CASE Enable
  BY <1>5 DEF Enable
<1>6. CASE Disable
  <2>1. recording' = FALSE /\ DOMAIN timers' = {}
    BY <1>6 DEF Disable, NoTables
  <2>2. tally' = NoRows \/ (tally' = tally /\ optedOut' = optedOut)
    BY <1>6 DEF Disable
  <2> QED
    BY <2>1, <2>2
<1>7. CASE Start
  <2>1. /\ recording' = recording /\ optedOut' = optedOut /\ timers' = timers
        /\ BufferPastAggregateEvents(OpenedTally)
    BY <1>7 DEF Start, tables
  <2>2. OpenedTally = NoRows
    BY <2>1 DEF OpenedTally
  <2>3. PICK days \in Iterated(NoRows, RowsBefore(NoRows, "daily", Today)) :
          \E months \in Iterated(days.rows, RowsBefore(days.rows, "monthly", Today)) :
            tally' = months.rows
    BY <2>1, <2>2 DEF BufferPastAggregateEvents
  <2>4. days.rows = NoRows
    BY NothingIterated
  <2>5. tally' = NoRows
    BY <2>3, <2>4, NothingIterated
  <2> QED
    BY <2>1, <2>5
<1>8. CASE Shutdown
  <2>1. /\ recording' = recording /\ optedOut' = optedOut /\ DOMAIN timers' = {}
        /\ StopTimers(DOMAIN timers)
    BY <1>8 DEF Shutdown, NoTables
  <2>2. PICK daily \in SomeOf({}) :
          \E monthly \in SomeOf(daily) :
            tally' = Stored(Stored(NoRows, daily, "daily", Today), monthly, "monthly", Today)
    BY <2>1 DEF StopTimers
  <2>3. daily = {}
    BY NoneOfNothing
  <2>4. tally' = NoRows
    BY <2>2, <2>3, NoneOfNothing, NothingStored
  <2> QED
    BY <2>1, <2>4
<1>9. CASE Ended
  <2>1. recording' = recording /\ optedOut' = optedOut
    BY <1>9 DEF Ended
  <2>2. tally' = tally /\ DOMAIN timers' = {}
    BY <1>9 DEF Ended, NoTables, disk
  <2> QED
    BY <2>1, <2>2
<1>10. ASSUME NEW t, Passes(t)
       PROVE  ~recording' /\ tally' = NoRows /\ DOMAIN timers' = {}
  <2>1. recording' = recording /\ optedOut' = optedOut
    BY <1>10 DEF Passes
  <2>2. tally' = tally /\ timers' = timers
    BY <1>10 DEF Passes, disk, tables
  <2> QED
    BY <2>1, <2>2
<1>11. CASE SetClock \/ UNCHANGED vars
  <2>1. recording' = recording /\ optedOut' = optedOut
    BY <1>11 DEF SetClock, vars, history
  <2>2. tally' = tally /\ timers' = timers
    BY <1>11 DEF SetClock, vars, disk, tables
  <2> QED
    BY <2>1, <2>2
<1>12. CASE ReplaceDatabase
  <2>1. recording' = recording /\ optedOut' = optedOut
    BY <1>12 DEF ReplaceDatabase, history
  <2>2. tally' = tally /\ timers' = timers
    BY <1>12 DEF ReplaceDatabase, tables
  <2> QED
    BY <2>1, <2>2
<1>13. ASSUME NEW s \in Senders, Leave(s)
       PROVE  ~recording' /\ tally' = NoRows /\ DOMAIN timers' = {}
  BY <1>13 DEF Leave, disk, tables, history
<1>14. CASE EditConfigFile
  <2>1. optedOut /\ ~recording'
    BY <1>14 DEF EditConfigFile
  <2>2. tally' = tally /\ timers' = timers
    BY <1>14 DEF EditConfigFile, disk, tables
  <2> QED
    BY <2>1, <2>2
<1>15. Exit \/ Kill => Ended
  BY DEF Exit, Kill
<1>16. Tick \/ Suspend => \E t : Passes(t)
  BY DEF Tick, Suspend
<1> QED
  BY <1>1, <1>2, <1>3, <1>4, <1>5, <1>6, <1>7, <1>8, <1>9, <1>10, <1>11, <1>12, <1>13,
     <1>14, <1>15, <1>16 DEF Next

(* An opt-out that has cleared the tally is not undone by timers, clients,    *)
(* midnights or restarts that come after it.                                  *)
THEOREM OptOutCorrect == Spec => []NothingAfterOptOut
<1>1. Init => OptOutInv
  BY OptOutInitially
<1>2. OptOutInv /\ [Next]_vars => OptOutInv'
  BY OptOutStep
<1>3. OptOutInv => NothingAfterOptOut
  BY DEF OptOutInv, NothingAfterOptOut
<1> QED
  BY <1>1, <1>2, <1>3, PTL DEF Spec

-----------------------------------------------------------------------------
(* Types *)

(* What the tally is, as any rows of a database are.                          *)
RowsOK(rows) ==
  IsFiniteSet(DOMAIN rows) /\ DOMAIN rows \subseteq Keys
    /\ \A k \in DOMAIN rows : rows[k] \in Nat

TypeInv == TypeOK /\ IsFiniteSet(DOMAIN tally)

(* The tally is such a set of rows, and so is an empty one.                  *)
LEMMA TallyOK == TypeInv => RowsOK(tally)
BY DEF TypeInv, TypeOK, RowsOK

LEMMA NoRowsOK == RowsOK(NoRows)
<1>1. DOMAIN NoRows = {}
  BY DEF NoRows
<1> QED
  BY <1>1, FS_EmptySet DEF RowsOK

(* The dates are numbers of days.                                             *)
LEMMA TodayType == TypeOK => Today \in Int /\ Monotonic \in Nat
BY AggregateAssumption DEF TypeOK, Today, Monotonic

(* The key a timer is stored under is one that rows have.                    *)
LEMMA KeyType ==
  ASSUME NEW type \in Types, NEW date \in Int, NEW e \in Events
  PROVE  Key(type, date, e) \in Keys
<1>1. Period(type, date) \in Int
  BY AggregateAssumption DEF Period
<1> QED
  BY <1>1 DEF Key, Keys

(* There are finitely many timers, those of an event among them.              *)
LEMMA TimersFinite ==
  ASSUME TypeOK
  PROVE  /\ \A ts \in SUBSET DOMAIN timers : IsFiniteSet(ts) /\ Cardinality(ts) \in Nat
         /\ Cardinality(DOMAIN timers) <= timerId
<1>1. IsFiniteSet(0 .. timerId - 1) /\ Cardinality(0 .. timerId - 1) = timerId
  <2> DEFINE last == timerId - 1
  <2>1. last \in Int /\ timerId = last + 1 /\ timerId \in Nat
    BY DEF TypeOK
  <2> HIDE DEF last
  <2>2. /\ IsFiniteSet(0 .. last)
        /\ Cardinality(0 .. last) = IF 0 > last THEN 0 ELSE last - 0 + 1
    BY <2>1, FS_Interval
  <2>3. Cardinality(0 .. last) = timerId
    BY <2>1, <2>2
  <2> QED
    BY <2>2, <2>3 DEF last
<1>2. IsFiniteSet(DOMAIN timers) /\ Cardinality(DOMAIN timers) <= timerId
  BY <1>1, FS_Subset DEF TypeOK
<1> QED
  BY <1>2, FS_Subset, FS_CardinalityType

(* What a timer counts is a number of seconds, one event's timers or all.    *)
LEMMA CounterType ==
  ASSUME TypeOK
  PROVE  \A t \in DOMAIN timers : Counter(t) \in Nat
<1> SUFFICES ASSUME NEW t \in DOMAIN timers PROVE Counter(t) \in Nat
  OBVIOUS
<1> DEFINE d == (Monotonic - timers[t].start) \div Second
<1>1. Monotonic \in Int /\ timers[t].start \in Int
  BY TodayType DEF TypeOK, Timers
<1>2. d \in Int
  BY <1>1, AggregateAssumption
<1> HIDE DEF d
<1>3. Clamp(d) \in Nat
  BY <1>2, AggregateAssumption DEF Clamp
<1> QED
  BY <1>3 DEF Counter, d

LEMMA SecondsType ==
  ASSUME TypeOK, NEW ts \in SUBSET DOMAIN timers
  PROVE  SecondsOf(ts) \in Nat
<1> DEFINE f == [t \in ts |-> Counter(t)]
<1>1. IsFiniteSet(ts) /\ DOMAIN f = ts /\ \A t \in ts : f[t] \in Nat
  BY TimersFinite, CounterType
<1> HIDE DEF f
<1>2. SumFunctionOnSet(f, ts) \in Nat
  BY <1>1, SumOfNat
<1> QED
  BY <1>1, <1>2 DEF SecondsOf, SumFunction, f

(* Rows are still rows once timers have been stored, and once some have been  *)
(* iterated over.                                                             *)
LEMMA StoredType ==
  ASSUME TypeOK, NEW rows, RowsOK(rows), NEW ts \in SUBSET DOMAIN timers,
         NEW type \in Types, NEW date \in Int
  PROVE  RowsOK(Stored(rows, ts, type, date))
<1> DEFINE KeyOf == [t \in ts |-> Key(type, date, timers[t].event)]
           new   == {KeyOf[t] : t \in ts}
           all   == DOMAIN rows \cup new
           got   == Stored(rows, ts, type, date)
<1>1. got = [k \in all |->
               (IF k \in DOMAIN rows THEN rows[k] ELSE 0)
                 + SecondsOf({t \in ts : Key(type, date, timers[t].event) = k})]
  <2>1. {Key(type, date, timers[t].event) : t \in ts} = new
    OBVIOUS
  <2> QED
    BY <2>1 DEF Stored
<1>2. \A t \in ts : KeyOf[t] \in Keys
  <2>1. \A t \in ts : timers[t].event \in Events
    BY DEF TypeOK, Timers
  <2> QED
    BY <2>1, KeyType
<1>3. IsFiniteSet(new)
  <2> HIDE DEF KeyOf
  <2> QED
    BY TimersFinite, ImageFinite
<1>4. new \subseteq Keys
  BY <1>2
<1>5. IsFiniteSet(all) /\ all \subseteq Keys
  BY <1>3, <1>4, FS_Union DEF RowsOK
<1> HIDE DEF new, all, got
<1>6. ASSUME NEW k \in all PROVE got[k] \in Nat
  <2> DEFINE these == {t \in ts : Key(type, date, timers[t].event) = k}
  <2>1. SecondsOf(these) \in Nat
    BY SecondsType
  <2> HIDE DEF these
  <2>2. (IF k \in DOMAIN rows THEN rows[k] ELSE 0) \in Nat
    BY DEF RowsOK
  <2>3. got[k] = (IF k \in DOMAIN rows THEN rows[k] ELSE 0) + SecondsOf(these)
    BY <1>1 DEF these
  <2> QED
    BY <2>1, <2>2, <2>3
<1>7. DOMAIN got = all
  BY <1>1
<1>8. RowsOK(got)
  BY <1>5, <1>6, <1>7 DEF RowsOK
<1> QED
  BY <1>8 DEF got

(* Iterating leaves rows, and hands over keys that were there.               *)
LEMMA IteratedType ==
  ASSUME NEW rows, RowsOK(rows), NEW keys \in SUBSET DOMAIN rows,
         NEW r \in Iterated(rows, keys)
  PROVE  RowsOK(r.rows) /\ r.keys \in SUBSET DOMAIN rows
<1>1. \/ r = [rows |-> Without(rows, keys), keys |-> keys, failed |-> FALSE]
      \/ \E some \in SUBSET keys : r = [rows |-> rows, keys |-> some, failed |-> TRUE]
  BY DEF Iterated
<1>2. RowsOK(Without(rows, keys))
  <2>1. DOMAIN Without(rows, keys) = DOMAIN rows \ keys
    BY DEF Without
  <2>2. \A k \in DOMAIN rows \ keys : Without(rows, keys)[k] = rows[k]
    BY DEF Without
  <2> QED
    BY <2>1, <2>2, FS_Subset DEF RowsOK
<1>3. CASE r = [rows |-> Without(rows, keys), keys |-> keys, failed |-> FALSE]
  BY <1>2, <1>3
<1>4. ASSUME NEW some \in SUBSET keys, r = [rows |-> rows, keys |-> some, failed |-> TRUE]
      PROVE  r.rows = rows /\ r.keys = some
  BY <1>4
<1> QED
  BY <1>1, <1>3, <1>4

(* What is handed over is counted.                                            *)
LEMMA HandingType ==
  ASSUME NEW rows, RowsOK(rows), NEW keys \in SUBSET DOMAIN rows,
         NEW total \in [Types \X Events -> Nat]
  PROVE  Handing(total, rows, keys) \in [Types \X Events -> Nat]
<1>1. CASE ~recording
  BY <1>1 DEF Handing
<1>2. CASE recording
  <2> DEFINE More(te) == LET these == {k \in keys : k.type = te[1] /\ k.event = te[2]}
                         IN SumFunction([k \in these |-> Clamp(rows[k])])
  <2>1. ASSUME NEW te \in Types \X Events PROVE More(te) \in Nat
    <3> DEFINE these == {k \in keys : k.type = te[1] /\ k.event = te[2]}
               f     == [k \in these |-> Clamp(rows[k])]
    <3>1. IsFiniteSet(these)
      BY FS_Subset DEF RowsOK
    <3>2. \A k \in these : rows[k] \in Nat
      BY DEF RowsOK
    <3>3. \A k \in these : f[k] \in Nat
      BY <3>2, AggregateAssumption DEF Clamp
    <3>4. DOMAIN f = these
      OBVIOUS
    <3>5. More(te) = SumFunction(f)
      OBVIOUS
    <3> HIDE DEF f, these, More
    <3> QED
      BY <3>1, <3>3, <3>4, <3>5, SumOfNat DEF SumFunction
  <2>2. Handing(total, rows, keys) = [te \in Types \X Events |-> total[te] + More(te)]
    BY <1>2 DEF Handing
  <2> HIDE DEF More
  <2> QED
    BY <2>1, <2>2
<1> QED
  BY <1>1, <1>2

(* What is stored when timers stop.                                           *)
LEMMA StopTimersType ==
  ASSUME TypeInv, NEW ts \in SUBSET DOMAIN timers, StopTimers(ts)
  PROVE  RowsOK(tally') /\ stores' \in [Events -> Nat]
<1>1. TypeOK /\ Today \in Int /\ RowsOK(tally)
  BY TodayType, TallyOK DEF TypeInv
<1>2. \A these \in SUBSET DOMAIN timers : SomeOf(these) \subseteq SUBSET these
  BY DEF SomeOf
<1>3. PICK daily \in SomeOf(ts) : \E monthly \in SomeOf(daily) :
        tally' = Stored(Stored(tally, daily, "daily", Today), monthly, "monthly", Today)
  BY DEF StopTimers
<1>4. PICK monthly \in SomeOf(daily) :
        tally' = Stored(Stored(tally, daily, "daily", Today), monthly, "monthly", Today)
  BY <1>3
<1>5. daily \in SUBSET DOMAIN timers /\ monthly \in SUBSET DOMAIN timers
  BY <1>2, <1>3, <1>4
<1>6. "daily" \in Types /\ "monthly" \in Types
  BY DEF Types
<1>7. RowsOK(Stored(tally, daily, "daily", Today))
  BY <1>1, <1>5, <1>6, StoredType
<1>8. RowsOK(tally')
  BY <1>1, <1>4, <1>5, <1>6, <1>7, StoredType
<1>9. StoresOf(ts) \in [Events -> Nat]
  <2>1. \A e \in Events : Cardinality({t \in ts : timers[t].event = e}) \in Nat
    BY <1>1, TimersFinite
  <2>2. \A e \in Events : stores[e] \in Nat
    BY <1>1 DEF TypeOK
  <2> QED
    BY <2>1, <2>2 DEF StoresOf
<1> QED
  BY <1>8, <1>9 DEF StopTimers

(* The next midnight is ahead.                                                *)
LEMMA ScheduleType ==
  ASSUME TypeOK, ScheduleNextMidnightTick
  PROVE  tallyDate' \in Int /\ midnightAt' \in Nat
<1> DEFINE r == (time + skew) % DayLength
<1>1. time \in Nat /\ skew \in Int /\ DayLength \in Nat \ {0}
  BY AggregateAssumption DEF TypeOK
<1>2. r \in 0 .. DayLength - 1
  BY <1>1
<1> HIDE DEF r
<1>3. time + DayLength - r \in Nat
  BY <1>1, <1>2
<1> QED
  BY <1>3, TodayType DEF ScheduleNextMidnightTick, r

(* What the keys of a type and date are.                                      *)
LEMMA RowsOfType ==
  ASSUME NEW rows, NEW type, NEW date
  PROVE  /\ RowsOf(rows, type, date) \in SUBSET DOMAIN rows
         /\ RowsBefore(rows, type, date) \in SUBSET DOMAIN rows
         /\ \A k \in RowsOf(rows, type, date) \cup RowsBefore(rows, type, date) :
              k.type = type
BY DEF RowsOf, RowsBefore

(* Midnight takes one of two courses: the days are handed over, and when the  *)
(* month has changed the months are.                                          *)
MidnightDays(daily, days) ==
  LET rows == Stored(tally, daily, "daily", tallyDate)
  IN /\ days \in Iterated(rows, RowsOf(rows, "daily", tallyDate))
     /\ tally' = days.rows /\ handed' = Handing(handed, rows, days.keys)
     /\ repeated' = (repeated \/ days.failed)

MidnightMonths(daily, days, monthly, months) ==
  LET rows == Stored(tally, daily, "daily", tallyDate)
      more == Stored(days.rows, monthly, "monthly", tallyDate)
  IN /\ days \in Iterated(rows, RowsOf(rows, "daily", tallyDate))
     /\ months \in Iterated(more, RowsOf(more, "monthly", tallyDate))
     /\ tally' = months.rows
     /\ handed' = Handing(Handing(handed, rows, days.keys), more, months.keys)
     /\ repeated' = (repeated \/ days.failed \/ months.failed)

(* Midnight ends after the days, on an error, or goes on to the months.      *)
LEMMA MidnightCourses ==
  ASSUME ClockTickedMidnight
  PROVE  \E daily \in SomeOf(DOMAIN timers) : \E days :
           \/ MidnightDays(daily, days)
           \/ \E monthly \in SomeOf(DOMAIN timers) : \E months :
                MidnightMonths(daily, days, monthly, months)
<1>1. PICK daily \in SomeOf(DOMAIN timers) :
        LET rows == Stored(tally, daily, "daily", tallyDate)
        IN \E days \in Iterated(rows, RowsOf(rows, "daily", tallyDate)) :
             LET handedDays == Handing(handed, rows, days.keys)
             IN IF ~MonthChanged
                THEN /\ tally' = days.rows /\ handed' = handedDays
                     /\ repeated' = (repeated \/ days.failed)
                ELSE \E monthly \in SomeOf(DOMAIN timers) :
                       LET more == Stored(days.rows, monthly, "monthly", tallyDate)
                       IN \E months \in Iterated(more, RowsOf(more, "monthly", tallyDate)) :
                            /\ tally' = months.rows
                            /\ handed' = Handing(handedDays, more, months.keys)
                            /\ repeated' = (repeated \/ days.failed \/ months.failed)
  BY DEF ClockTickedMidnight
<1> DEFINE rows == Stored(tally, daily, "daily", tallyDate)
<1>2. PICK days \in Iterated(rows, RowsOf(rows, "daily", tallyDate)) :
        IF ~MonthChanged
        THEN /\ tally' = days.rows /\ handed' = Handing(handed, rows, days.keys)
             /\ repeated' = (repeated \/ days.failed)
        ELSE \E monthly \in SomeOf(DOMAIN timers) :
               LET more == Stored(days.rows, monthly, "monthly", tallyDate)
               IN \E months \in Iterated(more, RowsOf(more, "monthly", tallyDate)) :
                    /\ tally' = months.rows
                    /\ handed' = Handing(Handing(handed, rows, days.keys), more, months.keys)
                    /\ repeated' = (repeated \/ days.failed \/ months.failed)
  BY <1>1
<1>3. CASE ~MonthChanged
  <2>1. MidnightDays(daily, days)
    BY <1>2, <1>3 DEF MidnightDays
  <2> QED
    BY <2>1
<1>4. CASE MonthChanged
  <2>1. PICK monthly \in SomeOf(DOMAIN timers) :
          LET more == Stored(days.rows, monthly, "monthly", tallyDate)
          IN \E months \in Iterated(more, RowsOf(more, "monthly", tallyDate)) :
               /\ tally' = months.rows
               /\ handed' = Handing(Handing(handed, rows, days.keys), more, months.keys)
               /\ repeated' = (repeated \/ days.failed \/ months.failed)
    BY <1>2, <1>4
  <2> DEFINE more == Stored(days.rows, monthly, "monthly", tallyDate)
  <2>2. PICK months \in Iterated(more, RowsOf(more, "monthly", tallyDate)) :
               /\ tally' = months.rows
               /\ handed' = Handing(Handing(handed, rows, days.keys), more, months.keys)
               /\ repeated' = (repeated \/ days.failed \/ months.failed)
    BY <2>1
  <2>3. MidnightMonths(daily, days, monthly, months)
    BY <1>2, <2>2 DEF MidnightMonths
  <2> QED
    BY <2>3
<1> QED
  BY <1>3, <1>4

(* What midnight stores and hands over has its type.                         *)
LEMMA MidnightType ==
  ASSUME TypeInv, ClockTickedMidnight
  PROVE  /\ RowsOK(tally') /\ handed' \in [Types \X Events -> Nat]
         /\ repeated' \in BOOLEAN /\ stores' \in [Events -> Nat]
<1>1. /\ TypeOK /\ RowsOK(tally) /\ tallyDate \in Int /\ repeated \in BOOLEAN
      /\ handed \in [Types \X Events -> Nat]
  BY TallyOK DEF TypeInv, TypeOK
<1>2. "daily" \in Types /\ "monthly" \in Types
  BY DEF Types
<1>3. SomeOf(DOMAIN timers) \subseteq SUBSET DOMAIN timers
  BY DEF SomeOf
<1>4. PICK daily \in SUBSET DOMAIN timers : \E days :
        \/ MidnightDays(daily, days)
        \/ \E monthly \in SUBSET DOMAIN timers : \E months :
             MidnightMonths(daily, days, monthly, months)
  BY <1>3, MidnightCourses
<1> DEFINE rows == Stored(tally, daily, "daily", tallyDate)
<1>5. RowsOK(rows) /\ RowsOf(rows, "daily", tallyDate) \in SUBSET DOMAIN rows
  BY <1>1, <1>2, StoredType, RowsOfType
<1>6. ASSUME NEW days, days \in Iterated(rows, RowsOf(rows, "daily", tallyDate))
      PROVE  /\ RowsOK(days.rows)
             /\ Handing(handed, rows, days.keys) \in [Types \X Events -> Nat]
  <2> HIDE DEF rows
  <2>1. RowsOK(days.rows) /\ days.keys \in SUBSET DOMAIN rows
    BY <1>5, <1>6, IteratedType
  <2> QED
    BY <1>1, <1>5, <2>1, HandingType
<1>7. PICK days :
        \/ MidnightDays(daily, days)
        \/ \E monthly \in SUBSET DOMAIN timers : \E months :
             MidnightMonths(daily, days, monthly, months)
  BY <1>4
<1>8. ASSUME MidnightDays(daily, days)
      PROVE  /\ RowsOK(tally') /\ handed' \in [Types \X Events -> Nat]
             /\ repeated' \in BOOLEAN
  <2>1. /\ days \in Iterated(rows, RowsOf(rows, "daily", tallyDate))
        /\ tally' = days.rows /\ handed' = Handing(handed, rows, days.keys)
        /\ repeated' = (repeated \/ days.failed)
    BY <1>8 DEF MidnightDays
  <2> HIDE DEF rows
  <2> QED
    BY <1>6, <2>1
<1>9. ASSUME NEW monthly \in SUBSET DOMAIN timers, NEW months,
             MidnightMonths(daily, days, monthly, months)
      PROVE  /\ RowsOK(tally') /\ handed' \in [Types \X Events -> Nat]
             /\ repeated' \in BOOLEAN
  <2> DEFINE more == Stored(days.rows, monthly, "monthly", tallyDate)
             sum  == Handing(handed, rows, days.keys)
  <2>1. /\ days \in Iterated(rows, RowsOf(rows, "daily", tallyDate))
        /\ months \in Iterated(more, RowsOf(more, "monthly", tallyDate))
        /\ tally' = months.rows
        /\ handed' = Handing(sum, more, months.keys)
        /\ repeated' = (repeated \/ days.failed \/ months.failed)
    BY <1>9 DEF MidnightMonths
  <2> HIDE DEF rows
  <2>2. RowsOK(days.rows) /\ sum \in [Types \X Events -> Nat]
    BY <1>6, <2>1
  <2>3. RowsOK(more) /\ RowsOf(more, "monthly", tallyDate) \in SUBSET DOMAIN more
    BY <1>1, <1>2, <2>2, StoredType, RowsOfType
  <2> HIDE DEF more, sum
  <2>4. RowsOK(months.rows) /\ months.keys \in SUBSET DOMAIN more
    BY <2>1, <2>3, IteratedType
  <2>5. Handing(sum, more, months.keys) \in [Types \X Events -> Nat]
    BY <2>2, <2>3, <2>4, HandingType
  <2> QED
    BY <2>1, <2>4, <2>5
<1>10. RowsOK(tally') /\ handed' \in [Types \X Events -> Nat] /\ repeated' \in BOOLEAN
  BY <1>7, <1>8, <1>9
<1>11. StoresOf(DOMAIN timers) \in [Events -> Nat]
  <2>1. \A e \in Events : Cardinality({t \in DOMAIN timers : timers[t].event = e}) \in Nat
    BY <1>1, TimersFinite
  <2>2. \A e \in Events : stores[e] \in Nat
    BY <1>1 DEF TypeOK
  <2> QED
    BY <2>1, <2>2 DEF StoresOf
<1> QED
  BY <1>10, <1>11 DEF ClockTickedMidnight

(* What Start hands over of the rows of days and months that have passed.     *)
LEMMA BufferType ==
  ASSUME TypeInv, NEW rows, RowsOK(rows), BufferPastAggregateEvents(rows)
  PROVE  /\ RowsOK(tally') /\ handed' \in [Types \X Events -> Nat]
         /\ repeated' \in BOOLEAN
<1>1. repeated \in BOOLEAN /\ handed \in [Types \X Events -> Nat]
  BY DEF TypeInv, TypeOK
<1>2. PICK days \in Iterated(rows, RowsBefore(rows, "daily", Today)) :
        \E months \in Iterated(days.rows, RowsBefore(days.rows, "monthly", Today)) :
          /\ tally' = months.rows
          /\ handed' = Handing(Handing(handed, rows, days.keys), days.rows, months.keys)
          /\ repeated' = (repeated \/ days.failed \/ months.failed)
  BY DEF BufferPastAggregateEvents
<1>3. PICK months \in Iterated(days.rows, RowsBefore(days.rows, "monthly", Today)) :
        /\ tally' = months.rows
        /\ handed' = Handing(Handing(handed, rows, days.keys), days.rows, months.keys)
        /\ repeated' = (repeated \/ days.failed \/ months.failed)
  BY <1>2
<1>4. RowsOK(days.rows) /\ days.keys \in SUBSET DOMAIN rows
  BY <1>2, RowsOfType, IteratedType
<1> DEFINE sum == Handing(handed, rows, days.keys)
<1>5. sum \in [Types \X Events -> Nat]
  BY <1>1, <1>4, HandingType
<1>6. handed' = Handing(sum, days.rows, months.keys)
  BY <1>3
<1> HIDE DEF sum
<1>7. RowsOK(months.rows) /\ months.keys \in SUBSET DOMAIN days.rows
  BY <1>3, <1>4, RowsOfType, IteratedType
<1>8. handed' \in [Types \X Events -> Nat]
  BY <1>4, <1>5, <1>6, <1>7, HandingType
<1> QED
  BY <1>1, <1>3, <1>4, <1>7, <1>8

(* The rows found when the database is opened, or none, are rows.            *)
LEMMA OpenedType == TypeInv => RowsOK(OpenedTally)
BY TallyOK, NoRowsOK DEF OpenedTally

(* What the rows hold of an event is a number of seconds.                     *)
LEMMA TalliedType ==
  ASSUME NEW rows, RowsOK(rows), NEW type, NEW e
  PROVE  Tallied(rows, type, e) \in Nat
<1> DEFINE these == {k \in DOMAIN rows : k.type = type /\ k.event = e}
           f     == [k \in these |-> rows[k]]
<1>1. IsFiniteSet(these) /\ DOMAIN f = these /\ \A k \in these : f[k] \in Nat
  BY FS_Subset DEF RowsOK
<1>2. Tallied(rows, type, e) = SumFunction(f)
  BY DEF Tallied
<1> HIDE DEF these, f
<1> QED
  BY <1>1, <1>2, SumOfNat DEF SumFunction

(* For how long running timers have run.                                      *)
LEMMA RunningType ==
  ASSUME TypeOK, NEW e
  PROVE  RunningFor(e) \in Nat
<1> DEFINE f == [t \in TimersOf(e) |-> Monotonic - timers[t].start]
<1>1. IsFiniteSet(TimersOf(e)) /\ DOMAIN f = TimersOf(e)
  BY TimersFinite DEF TimersOf
<1>2. ASSUME NEW t \in TimersOf(e) PROVE f[t] \in Nat
  <2>1. timers[t].start \in Nat /\ timers[t].start <= Monotonic /\ Monotonic \in Nat
    BY TodayType DEF TimersOf, TypeOK, Timers
  <2> QED
    BY <2>1
<1>3. RunningFor(e) = SumFunction(f)
  BY DEF RunningFor
<1> HIDE DEF f
<1> QED
  BY <1>1, <1>2, <1>3, SumOfNat DEF SumFunction

(* The parts of the type invariant that actions change one at a time.         *)
TimersOK ==
  /\ timerId \in Nat /\ DOMAIN timers \subseteq 0 .. timerId - 1
  /\ \A t \in DOMAIN timers : timers[t] \in Timers /\ timers[t].start <= Monotonic
  /\ DOMAIN monitored \subseteq Senders
ClocksOK == time \in Nat /\ asleep \in 0..time /\ skew \in Int
PhaseOK ==
  /\ onBus \subseteq Senders /\ schema \in {"new", "current", "other"}
  /\ phase \in {"down", "running", "quitting"} /\ recording \in BOOLEAN
TimingOK == tallyDate \in Int /\ midnightAt \in Nat
HistoryOK ==
  /\ worked \in [Events -> Int] /\ handed \in [Types \X Events -> Nat]
  /\ stores \in [Events -> Nat]
  /\ repeated \in BOOLEAN /\ optedOut \in BOOLEAN /\ abandoned \in BOOLEAN

(* The type of the state part by part, now and after a step.                 *)
LEMMA TypeParts ==
  TypeInv <=> TimersOK /\ ClocksOK /\ PhaseOK /\ TimingOK /\ HistoryOK /\ RowsOK(tally)
BY DEF TypeInv, TypeOK, TimersOK, ClocksOK, PhaseOK, TimingOK, HistoryOK, RowsOK

LEMMA TypePartsNext ==
  ASSUME TimersOK', ClocksOK', PhaseOK', TimingOK', HistoryOK', RowsOK(tally')
  PROVE  TypeInv'
BY DEF TypeInv, TypeOK, TimersOK, ClocksOK, PhaseOK, TimingOK, HistoryOK, RowsOK

LEMMA TypeInitially == Init => TypeInv
<1> SUFFICES ASSUME Init PROVE TypeInv
  OBVIOUS
<1>1. RowsOK(tally)
  BY NoRowsOK DEF Init
<1>2. TimersOK /\ ClocksOK /\ PhaseOK /\ TimingOK
  BY DEF Init, TimersOK, ClocksOK, PhaseOK, TimingOK
<1>3. HistoryOK
  <2>1. /\ Nothing \in [Events -> Int] /\ Nothing \in [Events -> Nat]
        /\ NothingHanded \in [Types \X Events -> Nat]
    BY DEF Nothing, NothingHanded
  <2> QED
    BY <2>1 DEF Init, HistoryOK
<1> QED
  BY <1>1, <1>2, <1>3, TypeParts

(* A new timer, and the removal of some or of all, keep the types of the     *)
(* tables.                                                                   *)
LEMMA StartTimerType ==
  ASSUME TypeInv, NEW s \in Senders, NEW e \in Events, StartTimer(s, e)
  PROVE  TimersOK'
<1>1. Monotonic \in Nat /\ Monotonic' = Monotonic /\ timerId \in Nat
  BY TodayType DEF TypeInv, TypeOK, StartTimer, clocks, Monotonic
<1>2. /\ timerId' = timerId + 1
      /\ DOMAIN timers' = DOMAIN timers \cup {timerId}
      /\ timers'[timerId] = NewTimer(s, e)
      /\ \A t \in DOMAIN timers : t # timerId => timers'[t] = timers[t]
      /\ DOMAIN monitored' = DOMAIN monitored \cup {s}
  BY DEF StartTimer
<1>3. NewTimer(s, e) \in Timers /\ NewTimer(s, e).start = Monotonic
  BY <1>1 DEF NewTimer, Timers
<1>4. \A t \in DOMAIN timers : timers[t] \in Timers /\ timers[t].start <= Monotonic
  BY DEF TypeInv, TypeOK
<1>5. DOMAIN timers' \subseteq 0 .. timerId' - 1
  BY <1>1, <1>2 DEF TypeInv, TypeOK
<1>6. \A t \in DOMAIN timers' : timers'[t] \in Timers /\ timers'[t].start <= Monotonic
  BY <1>1, <1>2, <1>3, <1>4
<1>7. DOMAIN monitored' \subseteq Senders /\ timerId' \in Nat
  BY <1>1, <1>2 DEF TypeInv, TypeOK
<1> QED
  BY <1>1, <1>5, <1>6, <1>7 DEF TimersOK

LEMMA RemovalType ==
  ASSUME TypeInv, Monotonic' = Monotonic, timerId' = timerId,
         NEW ts, RemoveTimers(ts), DOMAIN monitored' \subseteq DOMAIN monitored
  PROVE  TimersOK'
<1>1. /\ DOMAIN timers' = DOMAIN timers \ ts
      /\ \A t \in DOMAIN timers' : timers'[t] = timers[t]
  BY DEF RemoveTimers
<1> QED
  BY <1>1 DEF TypeInv, TypeOK, TimersOK

LEMMA NoTablesType ==
  ASSUME TypeInv, timerId' = timerId, NoTables
  PROVE  TimersOK'
<1>1. DOMAIN timers' = {} /\ DOMAIN monitored' = {}
  BY DEF NoTables
<1> QED
  BY <1>1 DEF TypeInv, TypeOK, TimersOK

(* Every step keeps the types.                                               *)
LEMMA TypeStep == TypeInv /\ TablesInv /\ [Next]_vars => TypeInv'
<1> SUFFICES ASSUME TypeInv, TablesInv, [Next]_vars PROVE TypeInv'
  OBVIOUS
<1> USE DEF clocks, disk, tables, timing, history
<1>1. TimersOK /\ ClocksOK /\ PhaseOK /\ TimingOK /\ HistoryOK /\ RowsOK(tally) /\ TypeOK
  BY TypeParts DEF TypeInv
<1>2. UNCHANGED clocks => ClocksOK' /\ Monotonic' = Monotonic
  BY <1>1 DEF ClocksOK, Monotonic
<1>3. UNCHANGED <<tables, clocks>> => TimersOK'
  BY <1>1 DEF TimersOK, Monotonic
<1>4. UNCHANGED timing => TimingOK'
  BY <1>1 DEF TimingOK
<1>5. UNCHANGED history => HistoryOK'
  BY <1>1 DEF HistoryOK
<1>6. UNCHANGED tally => RowsOK(tally')
  BY <1>1
<1>7. UNCHANGED <<onBus, schema, phase, recording>> => PhaseOK'
  BY <1>1 DEF PhaseOK
<1>8. UNCHANGED <<worked, handed, repeated, optedOut, abandoned>>
        /\ stores' \in [Events -> Nat] => HistoryOK'
  BY <1>1 DEF HistoryOK
<1>9. ASSUME NEW s \in Senders, NEW e \in Events, StartTimer(s, e) PROVE TypeInv'
  <2>1. TimersOK'
    BY <1>9, StartTimerType
  <2>2. ClocksOK' /\ PhaseOK' /\ TimingOK' /\ HistoryOK' /\ RowsOK(tally')
    BY <1>9, <1>2, <1>4, <1>5, <1>6, <1>7 DEF StartTimer
  <2> QED
    BY <2>1, <2>2, TypePartsNext
<1>10. ASSUME NEW t \in DOMAIN timers, StopTimer(t) PROVE TypeInv'
  <2>1. RowsOK(tally') /\ stores' \in [Events -> Nat]
    BY <1>10, StopTimersType DEF StopTimer
  <2>2. DOMAIN monitored' \subseteq DOMAIN monitored /\ timerId' = timerId
    BY <1>10 DEF StopTimer, RemoveSender
  <2>3. TimersOK'
    BY <1>10, <2>2, <1>2, RemovalType DEF StopTimer
  <2>4. ClocksOK' /\ PhaseOK' /\ TimingOK' /\ HistoryOK'
    BY <1>10, <2>1, <1>2, <1>4, <1>7, <1>8 DEF StopTimer
  <2> QED
    BY <2>1, <2>3, <2>4, TypePartsNext
<1>11. ASSUME NEW s \in Senders, SenderNameVanished(s) PROVE TypeInv'
  <2>0. monitored[s] \in SUBSET DOMAIN timers
    BY <1>11 DEF SenderNameVanished, TablesInv, TablesAgree
  <2>1. RowsOK(tally') /\ stores' \in [Events -> Nat]
    BY <1>11, <2>0, StopTimersType DEF SenderNameVanished
  <2>2. DOMAIN monitored' \subseteq DOMAIN monitored /\ timerId' = timerId
    BY <1>11 DEF SenderNameVanished, RemoveSender
  <2>3. TimersOK'
    BY <1>11, <2>2, <1>2, RemovalType DEF SenderNameVanished
  <2>4. ClocksOK' /\ PhaseOK' /\ TimingOK' /\ HistoryOK'
    BY <1>11, <2>1, <1>2, <1>4, <1>7, <1>8 DEF SenderNameVanished
  <2> QED
    BY <2>1, <2>3, <2>4, TypePartsNext
<1>12. CASE ClockTickedMidnight
  <2>1. /\ RowsOK(tally') /\ handed' \in [Types \X Events -> Nat]
        /\ repeated' \in BOOLEAN /\ stores' \in [Events -> Nat]
    BY <1>12, MidnightType
  <2>2. HistoryOK'
    BY <1>1, <1>12, <2>1 DEF ClockTickedMidnight, HistoryOK
  <2>3. TimingOK'
    BY <1>1, <1>12, ScheduleType DEF ClockTickedMidnight, TimingOK
  <2>4. ClocksOK' /\ PhaseOK' /\ Monotonic' = Monotonic /\ Monotonic \in Nat
    BY <1>1, <1>2, <1>7, <1>12, TodayType DEF ClockTickedMidnight
  <2>5. /\ timerId' = timerId /\ monitored' = monitored /\ DOMAIN timers' = DOMAIN timers
        /\ \A t \in DOMAIN timers :
             timers'[t] = NewTimer(timers[t].sender, timers[t].event)
    BY <1>12 DEF ClockTickedMidnight, SplitTimers
  <2>6. \A t \in DOMAIN timers : timers'[t] \in Timers /\ timers'[t].start <= Monotonic'
    BY <1>1, <2>4, <2>5 DEF NewTimer, Timers, TimersOK
  <2>7. TimersOK'
    BY <1>1, <2>5, <2>6 DEF TimersOK
  <2> QED
    BY <2>1, <2>2, <2>3, <2>4, <2>7, TypePartsNext
<1>13. CASE Enable
  <2>1. /\ UNCHANGED <<clocks, disk, tables, timing, onBus, phase>>
        /\ recording' = TRUE /\ optedOut' = FALSE
        /\ UNCHANGED <<worked, handed, stores, repeated, abandoned>>
    BY <1>13 DEF Enable
  <2>2. PhaseOK' /\ HistoryOK'
    BY <1>1, <2>1 DEF PhaseOK, HistoryOK
  <2> QED
    BY <1>2, <1>3, <1>4, <1>6, <2>1, <2>2, TypePartsNext
<1>14. CASE Disable
  <2>1. /\ UNCHANGED <<clocks, timing, onBus, schema, phase, timerId, abandoned>>
        /\ recording' = FALSE /\ repeated' = FALSE
        /\ worked' = Nothing /\ handed' = NothingHanded /\ stores' = Nothing
        /\ NoTables
    BY <1>14 DEF Disable
  <2>2. (tally' = NoRows /\ optedOut' = TRUE) \/ (tally' = tally /\ optedOut' = optedOut)
    BY <1>14 DEF Disable
  <2>3. RowsOK(tally') /\ optedOut' \in BOOLEAN
    BY <1>1, <2>2, NoRowsOK DEF HistoryOK
  <2>4. /\ Nothing \in [Events -> Int] /\ Nothing \in [Events -> Nat]
        /\ NothingHanded \in [Types \X Events -> Nat]
    BY DEF Nothing, NothingHanded
  <2>5. PhaseOK' /\ HistoryOK'
    BY <1>1, <2>1, <2>3, <2>4 DEF PhaseOK, HistoryOK
  <2>6. TimersOK'
    BY <2>1, NoTablesType
  <2> QED
    BY <1>2, <1>4, <2>1, <2>3, <2>5, <2>6, TypePartsNext
<1>15. CASE Start
  <2>1. /\ UNCHANGED <<clocks, tables, onBus, recording, stores, optedOut, abandoned>>
        /\ schema' = "current" /\ phase' = "running"
        /\ BufferPastAggregateEvents(OpenedTally) /\ ScheduleNextMidnightTick
    BY <1>15 DEF Start
  <2>2. /\ RowsOK(tally') /\ handed' \in [Types \X Events -> Nat]
        /\ repeated' \in BOOLEAN
    BY <2>1, BufferType, OpenedType
  <2>3. worked' \in [Events -> Int]
    <3>1. \A e \in Events : worked[e] \in Int /\ Tallied(tally, "daily", e) \in Int
      BY <1>1, TalliedType DEF HistoryOK
    <3>2. \A e \in Events : worked[e] - Second * Tallied(tally, "daily", e) \in Int
      BY <3>1, AggregateAssumption
    <3> QED
      BY <1>15, <3>1, <3>2 DEF Start
  <2>4. PhaseOK' /\ HistoryOK' /\ TimingOK'
    BY <1>1, <2>1, <2>2, <2>3, ScheduleType DEF PhaseOK, HistoryOK, TimingOK
  <2> QED
    BY <1>2, <1>3, <2>1, <2>2, <2>4, TypePartsNext
<1>16. CASE Shutdown
  <2>1. /\ UNCHANGED <<clocks, onBus, schema, recording, timerId, timing>>
        /\ UNCHANGED <<worked, handed, repeated, optedOut, abandoned>>
        /\ phase' = "quitting" /\ StopTimers(DOMAIN timers) /\ NoTables
    BY <1>16 DEF Shutdown
  <2>2. RowsOK(tally') /\ stores' \in [Events -> Nat]
    BY <2>1, StopTimersType
  <2>3. PhaseOK' /\ HistoryOK' /\ TimersOK'
    BY <1>1, <1>8, <2>1, <2>2, NoTablesType DEF PhaseOK
  <2> QED
    BY <1>2, <1>4, <2>1, <2>2, <2>3, TypePartsNext
<1>17. ASSUME Ended, abandoned' \in BOOLEAN PROVE TypeInv'
  <2>1. /\ UNCHANGED <<clocks, onBus, disk, recording, timerId>>
        /\ UNCHANGED <<handed, stores, repeated, optedOut>>
        /\ phase' = "down" /\ NoTables /\ tallyDate' = 0 /\ midnightAt' = 0
        /\ worked' = [e \in Events |-> worked[e] - RunningFor(e)]
    BY <1>17 DEF Ended
  <2>2. worked' \in [Events -> Int]
    <3>1. \A e \in Events : worked[e] \in Int /\ RunningFor(e) \in Int
      BY <1>1, RunningType DEF HistoryOK
    <3>2. \A e \in Events : worked[e] - RunningFor(e) \in Int
      BY <3>1
    <3> QED
      BY <2>1, <3>2
  <2>3. PhaseOK' /\ HistoryOK' /\ TimingOK' /\ TimersOK'
    BY <1>1, <1>17, <2>1, <2>2, NoTablesType DEF PhaseOK, HistoryOK, TimingOK
  <2> QED
    BY <1>2, <1>6, <2>1, <2>3, TypePartsNext
<1>18. CASE Exit \/ Kill
  <2>1. Ended
    BY <1>18 DEF Exit, Kill
  <2>2. abandoned' \in BOOLEAN
    <3>1. abandoned \in BOOLEAN
      BY <1>1 DEF HistoryOK
    <3>2. abandoned' = abandoned \/ abandoned' = (abandoned \/ DOMAIN timers # {})
      BY <1>18 DEF Exit, Kill
    <3> QED
      BY <3>1, <3>2
  <2> QED
    BY <1>17, <2>1, <2>2
<1>19. ASSUME NEW t \in Int, time < t, Passes(t), worked' \in [Events -> Int],
              asleep' \in 0..t, Monotonic <= Monotonic'
       PROVE  TypeInv'
  <2>1. /\ time' = t /\ UNCHANGED <<skew, onBus, disk, phase, recording, tables, timing>>
        /\ UNCHANGED <<handed, stores, repeated, optedOut, abandoned>>
    BY <1>19 DEF Passes
  <2>2. ClocksOK' /\ HistoryOK' /\ PhaseOK' /\ TimingOK' /\ RowsOK(tally')
    BY <1>1, <1>4, <1>6, <1>7, <1>19, <2>1 DEF ClocksOK, HistoryOK
  <2>3. Monotonic \in Int /\ Monotonic' \in Int
    BY <2>2, <1>1 DEF ClocksOK, Monotonic
  <2>4. \A u \in DOMAIN timers : timers[u] \in Timers /\ timers[u].start \in Int
                                 /\ timers[u].start <= Monotonic
    BY <1>1 DEF TimersOK, Timers
  <2>5. \A u \in DOMAIN timers : timers[u].start <= Monotonic'
    BY <1>19, <2>3, <2>4
  <2>6. TimersOK'
    BY <1>1, <2>1, <2>4, <2>5 DEF TimersOK
  <2> QED
    BY <2>2, <2>6, TypePartsNext
<1>20. CASE Tick
  <2>1. Passes(time + 1) /\ asleep' = asleep /\ time' = time + 1
    BY <1>20 DEF Tick, Passes
  <2>2. time + 1 \in Int /\ time < time + 1 /\ asleep' \in 0 .. time + 1
        /\ Monotonic <= Monotonic'
    BY <1>1, <2>1 DEF ClocksOK, Monotonic
  <2>3. \A e \in Events : worked[e] \in Int /\ Cardinality(TimersOf(e)) \in Int
    BY <1>1, TimersFinite DEF HistoryOK, TimersOf
  <2>4. \A e \in Events : worked[e] + Cardinality(TimersOf(e)) \in Int
    BY <2>3
  <2>5. worked' \in [Events -> Int]
    BY <1>20, <2>4 DEF Tick
  <2> QED
    BY <1>19, <2>1, <2>2, <2>5
<1>21. CASE Suspend
  <2>1. PICK t \in time + 1 .. MaxTime : Passes(t)
    BY <1>21 DEF Suspend
  <2>2. time' = t /\ asleep' = asleep + (t - time) /\ worked' = worked
    BY <1>21, <2>1 DEF Suspend, Passes
  <2>3. t \in Int /\ time < t /\ asleep' \in 0..t /\ Monotonic <= Monotonic'
    BY <1>1, <2>2, AggregateAssumption DEF ClocksOK, Monotonic
  <2>4. worked' \in [Events -> Int]
    BY <1>1, <2>2 DEF HistoryOK
  <2> QED
    BY <1>19, <2>1, <2>3, <2>4
<1>22. CASE SetClock
  <2>1. /\ UNCHANGED <<time, asleep, onBus, disk, phase, recording, tables, timing, history>>
        /\ skew' \in Int
    BY <1>22, AggregateAssumption DEF SetClock
  <2>2. ClocksOK' /\ Monotonic' = Monotonic
    BY <1>1, <2>1 DEF ClocksOK, Monotonic
  <2>3. TimersOK'
    BY <1>1, <2>1, <2>2 DEF TimersOK
  <2> QED
    BY <1>4, <1>5, <1>6, <1>7, <2>1, <2>2, <2>3, TypePartsNext
<1>23. ASSUME NEW s \in Senders, Leave(s) PROVE TypeInv'
  <2>1. /\ UNCHANGED <<clocks, disk, phase, recording, tables, timing, history>>
        /\ onBus' \subseteq onBus
    BY <1>23 DEF Leave
  <2>2. PhaseOK'
    BY <1>1, <2>1 DEF PhaseOK
  <2> QED
    BY <1>2, <1>3, <1>4, <1>5, <1>6, <2>1, <2>2, TypePartsNext
<1>24. CASE ReplaceDatabase
  <2>1. /\ UNCHANGED <<clocks, onBus, tally, phase, recording, tables, timing, history>>
        /\ schema' = "other"
    BY <1>24 DEF ReplaceDatabase
  <2>2. PhaseOK'
    BY <1>1, <2>1 DEF PhaseOK
  <2> QED
    BY <1>2, <1>3, <1>4, <1>5, <1>6, <2>1, <2>2, TypePartsNext
<1>25. CASE EditConfigFile
  <2>1. /\ UNCHANGED <<clocks, onBus, disk, phase, tables, timing>>
        /\ UNCHANGED <<worked, handed, stores, repeated, abandoned>>
        /\ recording' = ~recording /\ optedOut' = (optedOut /\ ~recording')
    BY <1>25 DEF EditConfigFile
  <2>2. PhaseOK' /\ HistoryOK'
    BY <1>1, <2>1 DEF PhaseOK, HistoryOK
  <2> QED
    BY <1>2, <1>3, <1>4, <1>6, <2>1, <2>2, TypePartsNext
<1>26. CASE UNCHANGED vars
  BY <1>2, <1>3, <1>4, <1>5, <1>6, <1>7, <1>26, TypePartsNext DEF vars
<1> QED
  BY <1>9, <1>10, <1>11, <1>12, <1>13, <1>14, <1>15, <1>16, <1>18, <1>20, <1>21, <1>22,
     <1>23, <1>24, <1>25, <1>26 DEF Next

(* Each part of the state keeps its type, in particular no timer starts in the*)
(* future of the monotonic clock, nor has it a number that is yet to be given,*)
(* and every counter of the tally is a number that is not negative.           *)
THEOREM TypeCorrect == Spec => []TypeOK
<1>1. Init => TypeInv /\ TablesInv
  BY TypeInitially, TablesInitially
<1>2. (TypeInv /\ TablesInv) /\ [Next]_vars => (TypeInv /\ TablesInv)'
  BY TypeStep, TablesStep
<1>3. TypeInv => TypeOK
  BY DEF TypeInv
<1> QED
  BY <1>1, <1>2, <1>3, PTL DEF Spec

-----------------------------------------------------------------------------
(* What is stored, and handed over, of an event *)

(* A sum over a function restricted to a set is a sum on the set.            *)
LEMMA SumOnSet ==
  ASSUME NEW S, IsFiniteSet(S), NEW f, \A x \in S : f[x] \in Int,
         NEW g, g = [x \in S |-> f[x]]
  PROVE  SumFunction(g) = SumFunctionOnSet(f, S)
<1>1. DOMAIN g = S /\ \A x \in S : g[x] = f[x]
  OBVIOUS
<1>2. SumFunctionOnSet(g, S) = SumFunctionOnSet(f, S)
  BY <1>1, SumCongruent
<1> QED
  BY <1>1, <1>2 DEF SumFunction

(* The rows of a type that are about an event.                                *)
RowsFor(rows, type, e) == {k \in DOMAIN rows : k.type = type /\ k.event = e}

(* What rows hold of an event is such a sum.                                 *)
LEMMA TalliedIs ==
  ASSUME NEW rows, RowsOK(rows), NEW type, NEW e
  PROVE  /\ IsFiniteSet(RowsFor(rows, type, e))
         /\ \A k \in RowsFor(rows, type, e) : rows[k] \in Nat
         /\ Tallied(rows, type, e) = SumFunctionOnSet(rows, RowsFor(rows, type, e))
<1> DEFINE S == RowsFor(rows, type, e)
           g == [k \in S |-> rows[k]]
<1>1. IsFiniteSet(S) /\ \A k \in S : rows[k] \in Nat
  BY FS_Subset DEF RowsOK, RowsFor
<1>2. Tallied(rows, type, e) = SumFunction(g)
  BY DEF Tallied, RowsFor
<1>3. \A k \in S : rows[k] \in Int
  BY <1>1
<1> HIDE DEF S
<1>4. SumFunction(g) = SumFunctionOnSet(rows, S)
  BY <1>1, <1>3, SumOnSet
<1> QED
  BY <1>1, <1>2, <1>4 DEF S

(* No timer counts no seconds.                                               *)
LEMMA SecondsOfNothing == SecondsOf({}) = 0
<1> DEFINE f == [t \in {} |-> Counter(t)]
<1>1. DOMAIN f = {} /\ \A t \in {} : f[t] = 0
  OBVIOUS
<1> HIDE DEF f
<1>2. SumFunctionOnSet(f, {}) = 0
  BY <1>1, FS_EmptySet, SumOfZero
<1> QED
  BY <1>1, <1>2 DEF SecondsOf, SumFunction, f

(* The daily rows of an event gain the seconds of its timers when these are   *)
(* stored in daily rows, whatever was there before; monthly rows do not matter*)
LEMMA DailyStored ==
  ASSUME TypeOK, NEW rows, RowsOK(rows), NEW ts \in SUBSET DOMAIN timers,
         NEW type \in Types, NEW date \in Int, NEW e \in Events
  PROVE  Tallied(Stored(rows, ts, type, date), "daily", e)
           = Tallied(rows, "daily", e)
               + (IF type = "daily" THEN SecondsOf({t \in ts : timers[t].event = e}) ELSE 0)
<1> DEFINE mine == {t \in ts : timers[t].event = e}
           got  == Stored(rows, ts, type, date)
           K    == Key(type, date, e)
           S    == RowsFor(rows, "daily", e)
           S2   == RowsFor(got, "daily", e)
           new  == {Key(type, date, timers[t].event) : t \in ts}
<1>1. RowsOK(got) /\ SecondsOf(mine) \in Nat
  BY StoredType, SecondsType
<1>2. K.type = type /\ K.event = e
  BY DEF Key
<1>3. \A t \in ts : /\ Key(type, date, timers[t].event).type = type
                    /\ Key(type, date, timers[t].event).event = timers[t].event
                    /\ (Key(type, date, timers[t].event) = K) <=> t \in mine
  BY DEF Key
<1>4. /\ DOMAIN got = DOMAIN rows \cup new
      /\ \A k \in DOMAIN got :
           got[k] = (IF k \in DOMAIN rows THEN rows[k] ELSE 0)
                      + SecondsOf({t \in ts : Key(type, date, timers[t].event) = k})
  BY DEF Stored
<1>5. {t \in ts : Key(type, date, timers[t].event) = K} = mine
  BY <1>3
<1>6. \A k : k.event = e /\ k # K => {t \in ts : Key(type, date, timers[t].event) = k} = {}
  BY <1>3
<1> HIDE DEF K, got
<1>7. \A k \in S2 : k # K => k \in S
  BY <1>3, <1>4 DEF RowsFor
<1>8. \A k \in S : k \in S2 /\ (k # K => got[k] = rows[k])
  <2> SUFFICES ASSUME NEW k \in S PROVE k \in S2 /\ (k # K => got[k] = rows[k])
    OBVIOUS
  <2>1. k \in S2 /\ k \in DOMAIN got /\ k \in DOMAIN rows /\ k.event = e
    BY <1>4 DEF RowsFor
  <2>2. rows[k] \in Nat
    BY <2>1 DEF RowsOK
  <2>3. ASSUME k # K PROVE got[k] = rows[k] + SecondsOf({})
    BY <1>4, <1>6, <2>1, <2>3
  <2> QED
    BY <2>1, <2>2, <2>3, SecondsOfNothing
<1>9. K \in DOMAIN got => got[K] = (IF K \in DOMAIN rows THEN rows[K] ELSE 0) + SecondsOf(mine)
  BY <1>4, <1>5
<1>10. /\ Tallied(rows, "daily", e) = SumFunctionOnSet(rows, S) /\ IsFiniteSet(S)
       /\ \A k \in S : rows[k] \in Nat
  BY TalliedIs
<1>11. /\ Tallied(got, "daily", e) = SumFunctionOnSet(got, S2) /\ IsFiniteSet(S2)
       /\ \A k \in S2 : got[k] \in Nat
  BY <1>1, TalliedIs
<1>12. SumFunctionOnSet(rows, S) \in Int
  BY <1>10, SumType
<1>13. CASE type = "daily" /\ mine # {}
  <2>1. K \in S2 /\ K \in DOMAIN got
    BY <1>2, <1>3, <1>4, <1>13 DEF RowsFor
  <2>2. S2 \ {K} = S \ {K}
    BY <1>7, <1>8
  <2>3. K \in S <=> K \in DOMAIN rows
    BY <1>2, <1>13 DEF RowsFor
  <2> HIDE DEF S, S2, mine
  <2>4. SumFunctionOnSet(got, S2) = got[K] + SumFunctionOnSet(got, S2 \ {K})
    BY <1>11, <2>1, SumStep
  <2>5. SumFunctionOnSet(got, S \ {K}) = SumFunctionOnSet(rows, S \ {K})
    <3>1. IsFiniteSet(S \ {K}) /\ \A k \in S \ {K} : rows[k] \in Int /\ got[k] = rows[k]
      BY <1>8, <1>10, FS_Subset
    <3> QED
      BY <3>1, SumCongruent
  <2>6. SumFunctionOnSet(got, S2) = got[K] + SumFunctionOnSet(rows, S \ {K})
    BY <2>2, <2>4, <2>5
  <2>7. CASE K \in S
    <3>1. SumFunctionOnSet(rows, S) = rows[K] + SumFunctionOnSet(rows, S \ {K})
      BY <1>10, <2>7, SumStep
    <3>2. got[K] = rows[K] + SecondsOf(mine) /\ rows[K] \in Int
      BY <1>9, <1>10, <2>1, <2>3, <2>7
    <3>3. SumFunctionOnSet(rows, S \ {K}) \in Int
      BY <1>10, FS_Subset, SumType
    <3>4. SumFunctionOnSet(got, S2) = SumFunctionOnSet(rows, S) + SecondsOf(mine)
      BY <1>1, <2>6, <3>1, <3>2, <3>3
    <3> QED
      BY <1>10, <1>11, <1>13, <3>4 DEF mine, got
  <2>8. CASE K \notin S
    <3>1. S \ {K} = S
      BY <2>8
    <3>2. got[K] = 0 + SecondsOf(mine)
      BY <1>9, <2>1, <2>3, <2>8
    <3>3. SumFunctionOnSet(rows, S \ {K}) = SumFunctionOnSet(rows, S)
      BY <3>1
    <3>4. SumFunctionOnSet(got, S2) = SumFunctionOnSet(rows, S) + SecondsOf(mine)
      BY <1>1, <1>12, <2>6, <3>2, <3>3
    <3> QED
      BY <1>10, <1>11, <1>13, <3>4 DEF mine, got
  <2> QED
    BY <2>7, <2>8
<1>14. CASE ~(type = "daily" /\ mine # {})
  <2>1. S2 = S
    <3>1. K \in S2 => K \in S
      BY <1>2, <1>3, <1>4, <1>14 DEF RowsFor
    <3> QED
      BY <1>7, <1>8, <3>1
  <2>2. ASSUME NEW k \in S PROVE got[k] = rows[k]
    <3>1. CASE k = K
      <4>1. type = "daily" /\ mine = {}
        BY <1>2, <1>14, <3>1 DEF RowsFor
      <4>2. k \in DOMAIN rows /\ k \in DOMAIN got /\ rows[k] \in Nat
        BY <1>8, <1>10 DEF RowsFor
      <4>3. got[k] = rows[k] + SecondsOf({})
        BY <1>9, <3>1, <4>1, <4>2
      <4> QED
        BY <4>2, <4>3, SecondsOfNothing
    <3> QED
      BY <1>8, <3>1
  <2>3. (IF type = "daily" THEN SecondsOf(mine) ELSE 0) = 0
    <3>1. mine = {} => SecondsOf(mine) = 0
      BY SecondsOfNothing
    <3> QED
      BY <1>14, <3>1
  <2> HIDE DEF S, S2, mine
  <2>4. SumFunctionOnSet(got, S) = SumFunctionOnSet(rows, S)
    <3>1. \A k \in S : rows[k] \in Int /\ got[k] = rows[k]
      BY <1>10, <2>2
    <3> QED
      BY <1>10, <3>1, SumCongruent
  <2>5. Tallied(got, "daily", e) = Tallied(rows, "daily", e) + 0
    BY <1>10, <1>11, <1>12, <2>1, <2>4
  <2> QED
    BY <2>3, <2>5 DEF mine, got
<1> QED
  BY <1>13, <1>14

(* Nothing is clamped that is handed over of counters that fit; what is       *)
(* handed over of the daily rows of an event is what they lose when they are  *)
(* deleted.                                                                   *)
LEMMA DailyHanded ==
  ASSUME NEW rows, RowsOK(rows), NEW keys \in SUBSET DOMAIN rows, NEW e \in Events,
         recording, \A k \in keys : k.type = "daily",
         NEW total \in [Types \X Events -> Nat],
         Tallied(rows, "daily", e) <= MaxCounter
  PROVE  \E x \in Nat :
           /\ Handing(total, rows, keys)[<<"daily", e>>] = total[<<"daily", e>>] + x
           /\ Tallied(rows, "daily", e) = Tallied(Without(rows, keys), "daily", e) + x
<1> DEFINE these == {k \in keys : k.type = "daily" /\ k.event = e}
           f     == [k \in these |-> Clamp(rows[k])]
           S     == RowsFor(rows, "daily", e)
           got   == Without(rows, keys)
           x     == SumFunctionOnSet(rows, these)
<1>1. /\ IsFiniteSet(S) /\ \A k \in S : rows[k] \in Nat
      /\ Tallied(rows, "daily", e) = SumFunctionOnSet(rows, S)
  BY TalliedIs
<1>2. these \in SUBSET S /\ IsFiniteSet(these)
  BY <1>1, FS_Subset DEF RowsFor
<1>3. RowsOK(got)
  <2>1. [rows |-> got, keys |-> keys, failed |-> FALSE] \in Iterated(rows, keys)
    BY DEF Iterated
  <2> HIDE DEF got
  <2>2. RowsOK([rows |-> got, keys |-> keys, failed |-> FALSE].rows)
    BY <2>1, IteratedType
  <2> QED
    BY <2>2
<1>4. S \ these = RowsFor(got, "daily", e) /\ \A k \in S \ these : got[k] = rows[k]
  BY DEF RowsFor, Without
<1>5. /\ IsFiniteSet(S \ these)
      /\ Tallied(got, "daily", e) = SumFunctionOnSet(got, S \ these)
  <2>1. IsFiniteSet(S \ these)
    BY <1>1, FS_Subset
  <2>2. Tallied(got, "daily", e) = SumFunctionOnSet(got, RowsFor(got, "daily", e))
    BY <1>3, TalliedIs
  <2> QED
    BY <2>1, <2>2, <1>4
<1>6. \A k \in S : rows[k] \in Int /\ rows[k] <= SumFunctionOnSet(rows, S)
  BY <1>1, SumOfNat
<1>7. \A k \in these : Clamp(rows[k]) = rows[k]
  <2> SUFFICES ASSUME NEW k \in these PROVE Clamp(rows[k]) = rows[k]
    OBVIOUS
  <2>1. rows[k] \in Nat /\ rows[k] <= SumFunctionOnSet(rows, S)
    BY <1>1, <1>2, <1>6
  <2>2. SumFunctionOnSet(rows, S) \in Int /\ SumFunctionOnSet(rows, S) <= MaxCounter
    BY <1>1, <1>6, SumType
  <2>3. rows[k] <= MaxCounter /\ ~(rows[k] < 0) /\ ~(rows[k] > MaxCounter)
    BY <2>1, <2>2, AggregateAssumption
  <2> QED
    BY <2>3 DEF Clamp
<1>8. Handing(total, rows, keys)[<<"daily", e>>] = total[<<"daily", e>>] + SumFunction(f)
  <2>1. <<"daily", e>> \in Types \X Events
    BY DEF Types
  <2> DEFINE te == <<"daily", e>>
  <2>2. te[1] = "daily" /\ te[2] = e
    OBVIOUS
  <2>3. Handing(total, rows, keys)[te]
          = total[te] + SumFunction([k \in {k \in keys : k.type = te[1] /\ k.event = te[2]}
                                       |-> Clamp(rows[k])])
    BY <2>1 DEF Handing
  <2> QED
    BY <2>2, <2>3
<1> HIDE DEF S, these, got
<1>9. SumFunction(f) = x
  <2>1. DOMAIN f = these /\ \A k \in these : rows[k] \in Int /\ f[k] = rows[k]
    BY <1>2, <1>6, <1>7
  <2> HIDE DEF f
  <2>2. SumFunctionOnSet(f, these) = SumFunctionOnSet(rows, these)
    BY <1>2, <2>1, SumCongruent
  <2> QED
    BY <2>1, <2>2 DEF SumFunction
<1>10. x \in Nat
  BY <1>1, <1>2, SumOfNat
<1>11. SumFunctionOnSet(rows, S) = x + SumFunctionOnSet(rows, S \ these)
       /\ SumFunctionOnSet(rows, S \ these) \in Int
  BY <1>1, <1>2, <1>6, SumSplit
<1>12. SumFunctionOnSet(got, S \ these) = SumFunctionOnSet(rows, S \ these)
  <2>1. \A k \in S \ these : rows[k] \in Int /\ got[k] = rows[k]
    BY <1>4, <1>6
  <2> QED
    BY <1>5, <2>1, SumCongruent
<1> HIDE DEF x, f
<1>13. Tallied(rows, "daily", e) = Tallied(got, "daily", e) + x
  BY <1>1, <1>5, <1>10, <1>11, <1>12
<1> QED
  BY <1>8, <1>9, <1>10, <1>13 DEF got

(* Monthly rows that are handed over and deleted do not matter to the daily   *)
(* ones.                                                                      *)
LEMMA MonthlyHanded ==
  ASSUME NEW rows, RowsOK(rows), NEW keys \in SUBSET DOMAIN rows, NEW e \in Events,
         \A k \in keys : k.type = "monthly", NEW total \in [Types \X Events -> Nat]
  PROVE  /\ Handing(total, rows, keys)[<<"daily", e>>] = total[<<"daily", e>>]
         /\ Tallied(Without(rows, keys), "daily", e) = Tallied(rows, "daily", e)
<1> DEFINE te    == <<"daily", e>>
           these == {k \in keys : k.type = te[1] /\ k.event = te[2]}
           f     == [k \in these |-> Clamp(rows[k])]
           got   == Without(rows, keys)
           S     == RowsFor(rows, "daily", e)
<1>1. te \in Types \X Events /\ te[1] = "daily" /\ te[2] = e
  BY DEF Types
<1>2. Handing(total, rows, keys)[te] = total[te]
  <2>1. these = {}
    BY <1>1
  <2>2. CASE recording
    <3>1. Handing(total, rows, keys)[te] = total[te] + SumFunction(f)
      BY <1>1, <2>2 DEF Handing
    <3>2. DOMAIN f = {} /\ \A k \in {} : f[k] = 0
      BY <2>1
    <3> HIDE DEF f, te
    <3>3. SumFunction(f) = 0
      BY <3>2, FS_EmptySet, SumOfZero DEF SumFunction
    <3>4. total[te] \in Int
      BY <1>1
    <3> QED
      BY <3>1, <3>3, <3>4
  <2>3. CASE ~recording
    BY <2>3 DEF Handing
  <2> QED
    BY <2>2, <2>3
<1>3. RowsOK(got)
  <2>1. [rows |-> got, keys |-> keys, failed |-> FALSE] \in Iterated(rows, keys)
    BY DEF Iterated
  <2> HIDE DEF got
  <2>2. RowsOK([rows |-> got, keys |-> keys, failed |-> FALSE].rows)
    BY <2>1, IteratedType
  <2> QED
    BY <2>2
<1>4. S = RowsFor(got, "daily", e) /\ \A k \in S : got[k] = rows[k]
  BY DEF RowsFor, Without
<1> HIDE DEF S, got
<1>5. /\ IsFiniteSet(S) /\ \A k \in S : rows[k] \in Nat
      /\ Tallied(rows, "daily", e) = SumFunctionOnSet(rows, S)
  BY TalliedIs DEF S
<1>6. Tallied(got, "daily", e) = SumFunctionOnSet(got, S)
  BY <1>3, <1>4, TalliedIs
<1>7. SumFunctionOnSet(got, S) = SumFunctionOnSet(rows, S)
  <2>1. \A k \in S : rows[k] \in Int /\ got[k] = rows[k]
    BY <1>4, <1>5
  <2> QED
    BY <1>5, <2>1, SumCongruent
<1> QED
  BY <1>2, <1>5, <1>6, <1>7 DEF got

(* No rows hold nothing.                                                     *)
LEMMA TalliedNothing == ASSUME NEW type, NEW e PROVE Tallied(NoRows, type, e) = 0
<1>1. RowsFor(NoRows, type, e) = {}
  BY DEF RowsFor, NoRows
<1>2. Tallied(NoRows, type, e) = SumFunctionOnSet(NoRows, {})
  BY <1>1, NoRowsOK, TalliedIs
<1>3. \A k \in {} : NoRows[k] = 0
  OBVIOUS
<1>4. SumFunctionOnSet(NoRows, {}) = 0
  BY <1>3, FS_EmptySet, SumOfZero
<1> QED
  BY <1>2, <1>4

(* Going through daily rows: what is handed over of an event is at least what *)
(* is deleted, and just that unless there was an error.                       *)
LEMMA DailyIterated ==
  ASSUME NEW rows, RowsOK(rows), NEW keys \in SUBSET DOMAIN rows, NEW e \in Events,
         NEW total \in [Types \X Events -> Nat], NEW r \in Iterated(rows, keys),
         recording \/ rows = NoRows,
         \A k \in keys : k.type = "daily",
         Tallied(rows, "daily", e) <= MaxCounter
  PROVE  LET t0 == Tallied(rows, "daily", e)
             t1 == Tallied(r.rows, "daily", e)
             h0 == total[<<"daily", e>>]
             h1 == Handing(total, rows, r.keys)[<<"daily", e>>]
         IN /\ t0 \in Nat /\ t1 \in Nat /\ h0 \in Nat /\ h1 \in Nat
            /\ t1 <= t0 /\ t0 + h0 <= t1 + h1
            /\ ~r.failed => t0 + h0 = t1 + h1
<1>0. ASSUME recording, NEW some \in SUBSET keys
      PROVE  \E x \in Nat :
               /\ Handing(total, rows, some)[<<"daily", e>>] = total[<<"daily", e>>] + x
               /\ Tallied(rows, "daily", e) = Tallied(Without(rows, some), "daily", e) + x
  <2>1. some \in SUBSET DOMAIN rows /\ \A k \in some : k.type = "daily"
    OBVIOUS
  <2> QED
    BY <1>0, <2>1, DailyHanded, SMTT(60)
<1> DEFINE t0 == Tallied(rows, "daily", e)
           t1 == Tallied(r.rows, "daily", e)
           h0 == total[<<"daily", e>>]
           h1 == Handing(total, rows, r.keys)[<<"daily", e>>]
<1>1. RowsOK(r.rows) /\ r.keys \in SUBSET DOMAIN rows
  BY IteratedType
<1>2. <<"daily", e>> \in Types \X Events
  BY DEF Types
<1>3. t0 \in Nat /\ t1 \in Nat /\ h0 \in Nat /\ h1 \in Nat
  <2>1. Handing(total, rows, r.keys) \in [Types \X Events -> Nat]
    BY <1>1, HandingType
  <2> QED
    BY <1>1, <1>2, <2>1, TalliedType
<1>4. \/ r = [rows |-> Without(rows, keys), keys |-> keys, failed |-> FALSE]
      \/ \E some \in SUBSET keys : r = [rows |-> rows, keys |-> some, failed |-> TRUE]
  BY DEF Iterated
<1>5. CASE recording
  <2>1. CASE r = [rows |-> Without(rows, keys), keys |-> keys, failed |-> FALSE]
    <3>1. r.rows = Without(rows, keys) /\ r.keys = keys
      BY <2>1
    <3>2. PICK x \in Nat : /\ Handing(total, rows, keys)[<<"daily", e>>] = h0 + x
                           /\ t0 = Tallied(Without(rows, keys), "daily", e) + x
      BY <1>0, <1>5
    <3>3. h1 = h0 + x /\ t0 = t1 + x
      BY <3>1, <3>2
    <3> HIDE DEF h0, h1, t0, t1
    <3>4. t1 <= t0 /\ t0 + h0 = t1 + h1
      BY <1>3, <3>3
    <3> QED
      BY <1>3, <3>4 DEF h0, h1, t0, t1
  <2>2. ASSUME NEW some \in SUBSET keys,
               r = [rows |-> rows, keys |-> some, failed |-> TRUE]
        PROVE  t1 <= t0 /\ t0 + h0 <= t1 + h1 /\ r.failed = TRUE
    <3>1. r.rows = rows /\ r.keys = some /\ r.failed = TRUE
      BY <2>2
    <3>3. \E x \in Nat : Handing(total, rows, some)[<<"daily", e>>] = h0 + x
      BY <1>0, <1>5
    <3>4. t1 = t0
      BY <3>1
    <3>5. PICK x \in Nat : h1 = h0 + x
      BY <3>1, <3>3
    <3> HIDE DEF h0, h1, t0, t1
    <3>6. t1 <= t0 /\ t0 + h0 <= t1 + h1
      BY <1>3, <3>4, <3>5
    <3> QED
      BY <3>1, <3>6
  <2>3. CASE \E some \in SUBSET keys : r = [rows |-> rows, keys |-> some, failed |-> TRUE]
    <3>1. t1 <= t0 /\ t0 + h0 <= t1 + h1 /\ r.failed = TRUE
      BY <2>2, <2>3
    <3> QED
      BY <1>3, <3>1
  <2> QED
    BY <1>4, <2>1, <2>3
<1>6. CASE ~recording
  <2>1. h1 = h0
    BY <1>6 DEF Handing
  <2>2. rows = NoRows
    BY <1>6
  <2>3. r.rows = NoRows
    BY <2>2, NothingIterated
  <2>4. t1 = t0
    BY <2>2, <2>3
  <2> HIDE DEF h0, h1, t0, t1
  <2>5. t1 <= t0 /\ t0 + h0 = t1 + h1
    BY <1>3, <2>1, <2>4
  <2> QED
    BY <1>3, <2>5 DEF h0, h1, t0, t1
<1> QED
  BY <1>5, <1>6

(* Iterating over monthly rows leaves daily ones as they are.                *)
LEMMA MonthlyIterated ==
  ASSUME NEW rows, RowsOK(rows), NEW keys \in SUBSET DOMAIN rows, NEW e \in Events,
         NEW total \in [Types \X Events -> Nat], NEW r \in Iterated(rows, keys),
         \A k \in keys : k.type = "monthly"
  PROVE  /\ Handing(total, rows, r.keys)[<<"daily", e>>] = total[<<"daily", e>>]
         /\ Tallied(r.rows, "daily", e) = Tallied(rows, "daily", e)
<1>1. \/ r = [rows |-> Without(rows, keys), keys |-> keys, failed |-> FALSE]
      \/ \E some \in SUBSET keys : r = [rows |-> rows, keys |-> some, failed |-> TRUE]
  BY DEF Iterated
<1>2. CASE r = [rows |-> Without(rows, keys), keys |-> keys, failed |-> FALSE]
  <2>1. r.rows = Without(rows, keys) /\ r.keys = keys
    BY <1>2
  <2> QED
    BY <2>1, MonthlyHanded
<1>3. ASSUME NEW some \in SUBSET keys, r = [rows |-> rows, keys |-> some, failed |-> TRUE]
      PROVE  /\ Handing(total, rows, r.keys)[<<"daily", e>>] = total[<<"daily", e>>]
             /\ Tallied(r.rows, "daily", e) = Tallied(rows, "daily", e)
  <2>1. r.rows = rows /\ r.keys = some
    BY <1>3
  <2>2. some \in SUBSET DOMAIN rows /\ \A k \in some : k.type = "monthly"
    OBVIOUS
  <2>3. Handing(total, rows, some)[<<"daily", e>>] = total[<<"daily", e>>]
    BY <2>2, MonthlyHanded
  <2> QED
    BY <2>1, <2>3
<1> QED
  BY <1>1, <1>2, <1>3

-----------------------------------------------------------------------------
(* For how long timers run *)

(* Less than a second of what a timer has run is not counted.                 *)
LEMMA CounterBounds ==
  ASSUME TypeOK, NEW t \in DOMAIN timers,
         Monotonic - timers[t].start <= Second * MaxCounter
  PROVE  LET d == Monotonic - timers[t].start
         IN Second * Counter(t) <= d /\ d <= Second * Counter(t) + (Second - 1)
<1> DEFINE d == Monotonic - timers[t].start
           q == d \div Second
           r == d % Second
<1>1. d \in Nat
  <2>1. timers[t].start \in Nat /\ timers[t].start <= Monotonic /\ Monotonic \in Nat
    BY TodayType DEF TypeOK, Timers
  <2> QED
    BY <2>1
<1>2. Second \in Nat \ {0} /\ MaxCounter \in Nat
  BY AggregateAssumption
<1> HIDE DEF d
<1>3. q \in Nat /\ r \in 0 .. Second - 1 /\ d = Second * q + r
  BY <1>1, <1>2
<1> HIDE DEF q, r
<1>4. q <= MaxCounter
  <2>1. Second * q <= Second * MaxCounter
    <3>1. Second * q \in Int /\ Second * MaxCounter \in Int
      BY <1>2, <1>3
    <3>2. d <= Second * MaxCounter
      BY DEF d
    <3> QED
      BY <1>1, <1>2, <1>3, <3>1, <3>2
  <2>2. ASSUME q > MaxCounter PROVE FALSE
    <3>1. q >= MaxCounter + 1
      BY <1>2, <1>3, <2>2
    <3>2. Second * q >= Second * (MaxCounter + 1)
      BY <1>2, <1>3, <3>1
    <3>3. Second * (MaxCounter + 1) = Second * MaxCounter + Second
      BY <1>2
    <3> QED
      BY <1>2, <1>3, <2>1, <3>2, <3>3
  <2> QED
    BY <1>2, <1>3, <2>2
<1>5. Counter(t) = q
  <2>1. Clamp(q) = q
    BY <1>2, <1>3, <1>4 DEF Clamp
  <2> QED
    BY <2>1 DEF Counter, q, d
<1>6. Second * q <= d /\ d <= Second * q + (Second - 1)
  <2>1. Second * q \in Int
    BY <1>2, <1>3
  <2> QED
    BY <1>1, <1>2, <1>3, <2>1
<1> QED
  BY <1>5, <1>6 DEF d

(* For how long each timer has run.                                           *)
Age == [t \in DOMAIN timers |-> Monotonic - timers[t].start]

(* A timer has run for a time that is not negative.                          *)
LEMMA AgeType ==
  ASSUME TypeOK
  PROVE  /\ \A t \in DOMAIN timers : Age[t] \in Nat
         /\ \A e : /\ TimersOf(e) \in SUBSET DOMAIN timers
                   /\ IsFiniteSet(TimersOf(e)) /\ Cardinality(TimersOf(e)) \in Nat
<1>1. ASSUME NEW t \in DOMAIN timers PROVE Age[t] \in Nat
  <2>1. timers[t].start \in Nat /\ timers[t].start <= Monotonic /\ Monotonic \in Nat
    BY TodayType DEF TypeOK, Timers
  <2> QED
    BY <2>1 DEF Age
<1> QED
  BY <1>1, TimersFinite DEF TimersOf

(* How long the timers of an event have run is a sum of their ages.          *)
LEMMA RunningIs ==
  ASSUME TypeOK, NEW e
  PROVE  RunningFor(e) = SumFunctionOnSet(Age, TimersOf(e))
<1> DEFINE g == [t \in TimersOf(e) |-> Monotonic - timers[t].start]
<1>1. g = [t \in TimersOf(e) |-> Age[t]]
  BY AgeType DEF Age
<1>2. RunningFor(e) = SumFunction(g)
  BY DEF RunningFor
<1>3. \A t \in TimersOf(e) : Age[t] \in Int
  BY AgeType
<1>4. IsFiniteSet(TimersOf(e))
  BY AgeType
<1> HIDE DEF g
<1>5. SumFunction(g) = SumFunctionOnSet(Age, TimersOf(e))
  BY <1>1, <1>3, <1>4, SumOnSet
<1> QED
  BY <1>2, <1>5

(* The same after a step.                                                     *)
LEMMA RunningIsNext ==
  ASSUME NEW e, NEW age, NEW S, IsFiniteSet(S), \A t \in S : age[t] \in Int,
         TimersOf(e)' = S, \A t \in S : age[t] = Monotonic' - timers'[t].start
  PROVE  RunningFor(e)' = SumFunctionOnSet(age, S)
<1> DEFINE g == [t \in S |-> Monotonic' - timers'[t].start]
<1>1. RunningFor(e)' = SumFunction(g)
  BY DEF RunningFor
<1>2. g = [t \in S |-> age[t]]
  OBVIOUS
<1> HIDE DEF g
<1>3. SumFunction(g) = SumFunctionOnSet(age, S)
  BY <1>2, SumOnSet
<1> QED
  BY <1>1, <1>3

(* What is stored of some timers of an event is what they have run for, less  *)
(* than a second of each lost.                                                *)
LEMMA StoredBounds ==
  ASSUME TypeOK, NEW e, NEW ts \in SUBSET TimersOf(e),
         RunningFor(e) <= Second * MaxCounter
  PROVE  LET run == SumFunctionOnSet(Age, ts)
         IN /\ run \in Nat /\ Cardinality(ts) \in Nat /\ SecondsOf(ts) \in Nat
            /\ Second * SecondsOf(ts) <= run
            /\ run <= Second * SecondsOf(ts) + (Second - 1) * Cardinality(ts)
            /\ SumFunctionOnSet(Age, TimersOf(e) \ ts) \in Nat
            /\ RunningFor(e) = run + SumFunctionOnSet(Age, TimersOf(e) \ ts)
<1> DEFINE c == [t \in ts |-> Counter(t)]
           all == TimersOf(e)
<1>1. /\ all \in SUBSET DOMAIN timers /\ ts \in SUBSET DOMAIN timers
      /\ IsFiniteSet(all) /\ IsFiniteSet(ts) /\ Cardinality(ts) \in Nat
  BY AgeType, TimersFinite
<1>2. \A t \in all : Age[t] \in Nat /\ Age[t] \in Int
  BY <1>1, AgeType
<1>3. /\ RunningFor(e) = SumFunctionOnSet(Age, all)
      /\ \A t \in all : Age[t] <= RunningFor(e)
      /\ RunningFor(e) \in Nat
  BY <1>1, <1>2, RunningIs, SumOfNat
<1>4. ASSUME NEW t \in ts
      PROVE  /\ c[t] \in Int
             /\ Second * c[t] <= Age[t] /\ Age[t] <= Second * c[t] + (Second - 1)
  <2>1. Counter(t) \in Nat /\ c[t] = Counter(t)
    BY <1>1, CounterType
  <2>2. Age[t] = Monotonic - timers[t].start
    BY <1>1 DEF Age
  <2>3. Second * MaxCounter \in Int
    BY AggregateAssumption
  <2>4. Monotonic - timers[t].start <= Second * MaxCounter
    BY <1>2, <1>3, <2>2, <2>3
  <2> HIDE DEF c
  <2>5. t \in DOMAIN timers
    BY <1>1
  <2> QED
    BY <2>1, <2>2, <2>4, <2>5, CounterBounds
<1>5. DOMAIN c = ts /\ SecondsOf(ts) = SumFunctionOnSet(c, ts) /\ SecondsOf(ts) \in Nat
  BY <1>1, SecondsType DEF SecondsOf, SumFunction
<1> HIDE DEF c
<1>6. /\ Second * SumFunctionOnSet(c, ts) <= SumFunctionOnSet(Age, ts)
      /\ SumFunctionOnSet(Age, ts)
           <= Second * SumFunctionOnSet(c, ts) + (Second - 1) * Cardinality(ts)
  <2> DEFINE n == Second - 1
  <2>1. Second \in Int /\ n \in Int
    BY AggregateAssumption
  <2>2. \A t \in ts : Age[t] \in Int /\ c[t] \in Int
    BY <1>2, <1>4
  <2>3. \A t \in ts : Second * c[t] <= Age[t] /\ Age[t] <= Second * c[t] + n
    BY <1>4
  <2> HIDE DEF n
  <2>4. /\ Second * SumFunctionOnSet(c, ts) <= SumFunctionOnSet(Age, ts)
        /\ SumFunctionOnSet(Age, ts)
             <= Second * SumFunctionOnSet(c, ts) + n * Cardinality(ts)
    BY <1>1, <2>1, <2>2, <2>3, SumBetween
  <2> QED
    BY <2>4 DEF n
<1>7. RunningFor(e) = SumFunctionOnSet(Age, ts) + SumFunctionOnSet(Age, all \ ts)
  BY <1>1, <1>2, <1>3, SumSplit
<1>8. SumFunctionOnSet(Age, ts) \in Nat /\ SumFunctionOnSet(Age, all \ ts) \in Nat
  <2>1. IsFiniteSet(all \ ts)
    BY <1>1, FS_Subset
  <2> QED
    BY <1>1, <1>2, <2>1, SumOfNat
<1> QED
  BY <1>1, <1>5, <1>6, <1>7, <1>8

-----------------------------------------------------------------------------
(* The daily rows *)

(* The faults that lose rows or keep them are not among those that happen.    *)
TalliesKept == Faults \cap {"store", "clear", "edit"} = {}

(* Timers do not run for longer than a counter can hold.                      *)
CountersFit == MaxTimers * MaxTime <= Second * MaxCounter

(* How what was worked, runs, is in the tally and was handed over, how often  *)
(* timers were stored, and whether rows were handed over again, are related.  *)
Fits(w, r, t, h, n, again) ==
  /\ Second * t + r <= w
  /\ w - r - Second * (t + h) <= (Second - 1) * n
  /\ ~again => w - r - Second * (t + h) >= 0

Balanced(e) ==
  /\ Fits(worked[e], RunningFor(e), Tallied(tally, "daily", e), handed[<<"daily", e>>],
          stores[e], repeated)
  /\ worked[e] <= MaxTimers * time

DailyInv ==
  /\ TypeInv /\ OptOutInv /\ (~recording => optedOut)
  /\ time <= MaxTime /\ timerId <= MaxTimers
  /\ \A e \in Events : Balanced(e)

(* The arithmetic of storing timers, less than a second of each being lost... *)
LEMMA StoredFits ==
  ASSUME NEW w \in Int, NEW t \in Nat, NEW h \in Nat, NEW n \in Nat, NEW again,
         NEW c \in Nat, NEW m \in Nat, NEW run \in Nat, NEW rest \in Nat,
         Fits(w, run + rest, t, h, n, again),
         Second * c <= run, run <= Second * c + (Second - 1) * m
  PROVE  Fits(w, rest, t + c, h, n + m, again)
<1> DEFINE z == Second - 1
<1>1. Second \in Nat /\ z \in Nat
  BY AggregateAssumption
<1>2. /\ Second * t + (run + rest) <= w
      /\ w - (run + rest) - Second * (t + h) <= z * n
      /\ ~again => w - (run + rest) - Second * (t + h) >= 0
      /\ Second * c <= run /\ run <= Second * c + z * m
  BY DEF Fits
<1> HIDE DEF z
<1>3. /\ Second * (t + c) = Second * t + Second * c
      /\ Second * (t + h) = Second * t + Second * h
      /\ Second * ((t + c) + h) = Second * t + Second * c + Second * h
      /\ z * (n + m) = z * n + z * m
  BY <1>1
<1>4. /\ Second * t \in Int /\ Second * c \in Int /\ Second * h \in Int
      /\ z * n \in Int /\ z * m \in Int
  BY <1>1
<1>5. Second * (t + c) + rest <= w
  BY <1>2, <1>3, <1>4
<1>6. w - rest - Second * ((t + c) + h) <= z * (n + m)
  BY <1>2, <1>3, <1>4
<1>7. ~again => w - rest - Second * ((t + c) + h) >= 0
  BY <1>2, <1>3, <1>4
<1> QED
  BY <1>5, <1>6, <1>7 DEF Fits, z

(* Rows that hold t become rows that hold t1, and what was handed over grows  *)
(* from h to h1, by what the rows lost and, on an error, by what they kept.   *)
HandsOver(t, h, t1, h1, more) ==
  t1 <= t /\ t + h <= t1 + h1 /\ (~more => t + h = t1 + h1)

(* ... and of handing rows over.                                              *)
LEMMA HandedFits ==
  ASSUME NEW w \in Int, NEW r \in Nat, NEW t \in Nat, NEW h \in Nat, NEW n \in Nat,
         NEW again, NEW t1 \in Nat, NEW h1 \in Nat, NEW more, NEW after,
         Fits(w, r, t, h, n, again), HandsOver(t, h, t1, h1, more),
         again => after, more => after
  PROVE  Fits(w, r, t1, h1, n, after)
<1>1. Second \in Nat /\ (Second - 1) * n \in Int
  BY AggregateAssumption
<1>2. \A a, b \in Nat : a <= b => Second * a <= Second * b
  BY <1>1
<1>3. /\ Second * t1 <= Second * t
      /\ Second * (t + h) <= Second * (t1 + h1)
  BY <1>2 DEF HandsOver
<1>4. /\ Second * t \in Int /\ Second * t1 \in Int
      /\ Second * (t + h) \in Int /\ Second * (t1 + h1) \in Int
  BY <1>1
<1>5. Second * t1 + r <= w
  BY <1>3, <1>4 DEF Fits
<1>6. w - r - Second * (t1 + h1) <= (Second - 1) * n
  BY <1>1, <1>3, <1>4 DEF Fits
<1>7. ASSUME ~after PROVE w - r - Second * (t1 + h1) >= 0
  BY <1>7 DEF Fits, HandsOver
<1> QED
  BY <1>5, <1>6, <1>7 DEF Fits

(* What the invariant says of an event; no counter is at its limit.           *)
LEMMA DailyFacts ==
  ASSUME DailyInv, CountersFit, NEW e \in Events
  PROVE  /\ TypeOK /\ RowsOK(tally) /\ time \in Nat /\ repeated \in BOOLEAN
         /\ worked[e] \in Int /\ RunningFor(e) \in Nat /\ Tallied(tally, "daily", e) \in Nat
         /\ handed[<<"daily", e>>] \in Nat /\ stores[e] \in Nat
         /\ Fits(worked[e], RunningFor(e), Tallied(tally, "daily", e),
                 handed[<<"daily", e>>], stores[e], repeated)
         /\ worked[e] <= MaxTimers * time
         /\ worked[e] <= Second * MaxCounter
         /\ RunningFor(e) <= Second * MaxCounter
<1>1. TypeOK /\ TypeInv /\ RowsOK(tally)
  BY TallyOK DEF DailyInv, TypeInv
<1>2. <<"daily", e>> \in Types \X Events
  BY DEF Types
<1>3. /\ time \in Nat /\ repeated \in BOOLEAN /\ worked[e] \in Int
      /\ handed[<<"daily", e>>] \in Nat /\ stores[e] \in Nat
  BY <1>1, <1>2 DEF TypeOK
<1>4. RunningFor(e) \in Nat /\ Tallied(tally, "daily", e) \in Nat
  BY <1>1, RunningType, TalliedType
<1>5. /\ Fits(worked[e], RunningFor(e), Tallied(tally, "daily", e),
              handed[<<"daily", e>>], stores[e], repeated)
      /\ worked[e] <= MaxTimers * time
  BY DEF DailyInv, Balanced
<1>6. worked[e] <= Second * MaxCounter
  <2>1. time <= MaxTime /\ MaxTime \in Nat /\ MaxTimers \in Nat
    BY AggregateAssumption DEF DailyInv
  <2>2. MaxTimers * time <= MaxTimers * MaxTime
    BY <1>3, <2>1
  <2>3. MaxTimers * time \in Int /\ MaxTimers * MaxTime \in Int /\ Second * MaxCounter \in Int
    BY <1>3, <2>1, AggregateAssumption
  <2> QED
    BY <1>3, <1>5, <2>2, <2>3 DEF CountersFit
<1>7. RunningFor(e) <= Second * MaxCounter
  <2> DEFINE t == Tallied(tally, "daily", e)
             r == RunningFor(e)
  <2>1. Second * t + r <= worked[e]
    BY <1>5 DEF Fits
  <2> HIDE DEF t, r
  <2>2. Second * t \in Nat /\ Second * MaxCounter \in Int
    <3>1. t \in Nat
      BY <1>4 DEF t
    <3> QED
      BY <3>1, AggregateAssumption
  <2> QED
    BY <1>3, <1>4, <1>6, <2>1, <2>2 DEF r
<1> QED
  BY <1>1, <1>3, <1>4, <1>5, <1>6, <1>7

(* A counter that is part of what was worked is not at its limit.             *)
LEMMA CounterFits ==
  ASSUME NEW w \in Int, NEW r \in Nat, NEW t \in Nat, NEW h, NEW n, NEW again,
         Fits(w, r, t, h, n, again), w <= Second * MaxCounter
  PROVE  t <= MaxCounter
<1>1. Second \in Nat \ {0} /\ MaxCounter \in Nat
  BY AggregateAssumption
<1>2. Second * t <= Second * MaxCounter
  <2>1. Second * t \in Int /\ Second * MaxCounter \in Int /\ Second * t + r <= w
    BY <1>1 DEF Fits
  <2> QED
    BY <2>1
<1>3. ASSUME t > MaxCounter PROVE FALSE
  <2>1. t >= MaxCounter + 1
    BY <1>1, <1>3
  <2>2. Second * t >= Second * (MaxCounter + 1)
    BY <1>1, <2>1
  <2>3. Second * (MaxCounter + 1) = Second * MaxCounter + Second
    BY <1>1
  <2>4. Second * t \in Int /\ Second * MaxCounter \in Int
    BY <1>1
  <2> QED
    BY <1>1, <1>2, <2>2, <2>3, <2>4
<1> QED
  BY <1>1, <1>3

(* What storing some timers of an event does to its balance.                  *)
LEMMA MineStored ==
  ASSUME DailyInv, CountersFit, NEW e \in Events, NEW ts \in SUBSET TimersOf(e)
  PROVE  /\ SecondsOf(ts) \in Nat /\ Cardinality(ts) \in Nat
         /\ SumFunctionOnSet(Age, TimersOf(e) \ ts) \in Nat
         /\ Fits(worked[e], SumFunctionOnSet(Age, TimersOf(e) \ ts),
                 Tallied(tally, "daily", e) + SecondsOf(ts), handed[<<"daily", e>>],
                 stores[e] + Cardinality(ts), repeated)
<1> DEFINE run  == SumFunctionOnSet(Age, ts)
           rest == SumFunctionOnSet(Age, TimersOf(e) \ ts)
           c    == SecondsOf(ts)
           m    == Cardinality(ts)
           w    == worked[e]
           r    == RunningFor(e)
           n    == stores[e]
           t    == Tallied(tally, "daily", e)
           h    == handed[<<"daily", e>>]
<1>1. /\ TypeOK /\ w \in Int /\ t \in Nat /\ h \in Nat /\ n \in Nat /\ r \in Nat
      /\ Fits(w, r, t, h, n, repeated) /\ r <= Second * MaxCounter
  BY DailyFacts
<1>2. /\ run \in Nat /\ m \in Nat /\ c \in Nat /\ rest \in Nat
      /\ Second * c <= run /\ run <= Second * c + (Second - 1) * m
      /\ r = run + rest
  BY <1>1, StoredBounds
<1> HIDE DEF run, rest, c, m, w, r, n, t, h
<1>3. Fits(w, run + rest, t, h, n, repeated)
  BY <1>1, <1>2
<1>4. Fits(w, rest, t + c, h, n + m, repeated)
  BY ONLY <1>1, <1>2, <1>3, StoredFits, ZenonT(30)
<1> QED
  BY <1>2, <1>4 DEF rest, c, m, w, n, t, h

(* What it takes for the balance to hold after a step.                        *)
LEMMA BalancedNext ==
  ASSUME NEW e, NEW w, NEW r, NEW t, NEW h, NEW n, NEW again, NEW now,
         worked'[e] = w, RunningFor(e)' = r, Tallied(tally', "daily", e) = t,
         handed'[<<"daily", e>>] = h, stores'[e] = n, repeated' = again, time' = now,
         Fits(w, r, t, h, n, again), w <= MaxTimers * now
  PROVE  Balanced(e)'
BY DEF Balanced, Fits

(* Timers and the clock stand still.                                         *)
LEMMA RunningStill ==
  ASSUME TypeOK, NEW e, timers' = timers, Monotonic' = Monotonic
  PROVE  RunningFor(e)' = RunningFor(e)
<1>1. TimersOf(e)' = TimersOf(e)
  BY DEF TimersOf
<1>2. /\ IsFiniteSet(TimersOf(e))
      /\ \A t \in TimersOf(e) : Age[t] \in Int /\ Age[t] = Monotonic' - timers'[t].start
  BY AgeType DEF Age
<1> DEFINE S == TimersOf(e)
           age == Age
<1>3. TimersOf(e)' = S
  BY <1>1
<1>4. IsFiniteSet(S) /\ \A t \in S : age[t] \in Int /\ age[t] = Monotonic' - timers'[t].start
  BY <1>2
<1>5. RunningFor(e) = SumFunctionOnSet(age, S)
  BY RunningIs
<1> HIDE DEF S, age
<1>6. RunningFor(e)' = SumFunctionOnSet(age, S)
  BY <1>3, <1>4, RunningIsNext
<1> QED
  BY <1>5, <1>6

(* Timers that are removed do not run any longer, the others go on.           *)
LEMMA RunningRemoved ==
  ASSUME TypeOK, NEW e, NEW ts \in SUBSET DOMAIN timers, Monotonic' = Monotonic,
         DOMAIN timers' = DOMAIN timers \ ts, \A t \in DOMAIN timers' : timers'[t] = timers[t]
  PROVE  RunningFor(e)'
           = SumFunctionOnSet(Age, TimersOf(e) \ {t \in ts : timers[t].event = e})
<1> DEFINE S == TimersOf(e) \ {t \in ts : timers[t].event = e}
           age == Age
<1>1. TimersOf(e)' = S
  BY DEF TimersOf
<1>2. IsFiniteSet(S) /\ S \in SUBSET DOMAIN timers
  BY AgeType, FS_Subset
<1>3. \A t \in S : t \in DOMAIN timers'
  BY DEF TimersOf
<1>4. \A t \in S : age[t] \in Int /\ age[t] = Monotonic' - timers'[t].start
  BY <1>2, <1>3, AgeType DEF Age
<1> HIDE DEF S, age
<1>5. RunningFor(e)' = SumFunctionOnSet(age, S)
  BY <1>1, <1>2, <1>4, RunningIsNext
<1> QED
  BY <1>5 DEF S, age

(* A step that leaves timers, rows and history alone.                         *)
LEMMA BalancedStill ==
  ASSUME DailyInv, CountersFit, NEW e \in Events, timers' = timers, Monotonic' = Monotonic,
         UNCHANGED <<tally, worked, handed, stores, repeated>>,
         time' \in Nat, time <= time'
  PROVE  Balanced(e)'
<1>1. TypeOK /\ time \in Nat /\ worked[e] \in Int /\ worked[e] <= MaxTimers * time
      /\ Fits(worked[e], RunningFor(e), Tallied(tally, "daily", e),
              handed[<<"daily", e>>], stores[e], repeated)
  BY DailyFacts
<1>2. RunningFor(e)' = RunningFor(e)
  BY <1>1, RunningStill
<1>3. worked[e] <= MaxTimers * time'
  <2>1. MaxTimers * time <= MaxTimers * time'
    <3>1. \A a, b, c \in Nat : b <= c => a * b <= a * c
      OBVIOUS
    <3> QED
      BY <1>1, <3>1, AggregateAssumption
  <2>2. MaxTimers * time \in Int /\ MaxTimers * time' \in Int
    BY <1>1, AggregateAssumption
  <2> QED
    BY <1>1, <2>1, <2>2
<1> QED
  BY <1>1, <1>2, <1>3, BalancedNext

(* Timers are stored in full where rows are not lost.                         *)
LEMMA AllStored == ASSUME TalliesKept, NEW ts PROVE SomeOf(ts) = {ts}
BY DEF TalliesKept, SomeOf

(* Timers that stop move from those that run into the tally.                  *)
LEMMA BalancedStopped ==
  ASSUME DailyInv, TalliesKept, CountersFit, NEW e \in Events,
         NEW ts \in SUBSET DOMAIN timers, StopTimers(ts),
         DOMAIN timers' = DOMAIN timers \ ts,
         \A t \in DOMAIN timers' : timers'[t] = timers[t],
         UNCHANGED <<clocks, worked, handed, repeated>>
  PROVE  Balanced(e)'
<1> DEFINE mine == {t \in ts : timers[t].event = e}
           all  == TimersOf(e)
           rest == SumFunctionOnSet(Age, all \ mine)
           c    == SecondsOf(mine)
           m    == Cardinality(mine)
           t0   == Tallied(tally, "daily", e)
           h    == handed[<<"daily", e>>]
<1>1. /\ TypeOK /\ RowsOK(tally) /\ time \in Nat /\ repeated \in BOOLEAN
      /\ worked[e] \in Int /\ RunningFor(e) \in Nat /\ t0 \in Nat
      /\ h \in Nat /\ stores[e] \in Nat
      /\ Fits(worked[e], RunningFor(e), t0, h, stores[e], repeated)
      /\ worked[e] <= MaxTimers * time /\ RunningFor(e) <= Second * MaxCounter
  BY DailyFacts
<1>2. mine \in SUBSET all
  BY DEF TimersOf
<1>3. Monotonic' = Monotonic /\ time' = time
  BY DEF clocks, Monotonic
<1>4. RunningFor(e)' = rest
  BY <1>1, <1>3, RunningRemoved
<1>5. /\ m \in Nat /\ c \in Nat /\ rest \in Nat
      /\ Fits(worked[e], rest, t0 + c, h, stores[e] + m, repeated)
  BY <1>2, MineStored
<1>6. Today \in Int /\ "daily" \in Types /\ "monthly" \in Types
  BY <1>1, TodayType DEF Types
<1>7. /\ tally' = Stored(Stored(tally, ts, "daily", Today), ts, "monthly", Today)
      /\ stores' = StoresOf(ts)
  <2>1. \A these : SomeOf(these) = {these}
    BY AllStored
  <2> QED
    BY <2>1 DEF StopTimers
<1>8. Tallied(tally', "daily", e) = t0 + c
  <2> DEFINE rows == Stored(tally, ts, "daily", Today)
  <2>1. RowsOK(rows)
    BY <1>1, <1>6, StoredType
  <2>2. Tallied(rows, "daily", e) = t0 + c
    BY <1>1, <1>6, DailyStored
  <2> HIDE DEF rows, mine, c, t0
  <2>3. Tallied(Stored(rows, ts, "monthly", Today), "daily", e)
          = Tallied(rows, "daily", e) + 0
    BY <1>1, <1>6, <2>1, DailyStored, ZenonT(60)
  <2> QED
    BY <1>1, <1>5, <1>7, <2>2, <2>3 DEF rows
<1>9. stores'[e] = stores[e] + m
  BY <1>7 DEF StoresOf
<1> HIDE DEF mine, all, rest, c, m, t0, h
<1>10. handed'[<<"daily", e>>] = h /\ worked'[e] = worked[e] /\ repeated' = repeated
  BY DEF h
<1> QED
  BY <1>1, <1>3, <1>4, <1>5, <1>8, <1>9, <1>10, BalancedNext

(* A timer that starts has not run.                                           *)
LEMMA BalancedStarted ==
  ASSUME DailyInv, CountersFit, NEW e \in Events, NEW s \in Senders, NEW f \in Events,
         StartTimer(s, f)
  PROVE  Balanced(e)'
<1> DEFINE age == [t \in DOMAIN timers \cup {timerId} |-> IF t = timerId THEN 0 ELSE Age[t]]
           all == TimersOf(e)
           S   == IF f = e THEN all \cup {timerId} ELSE all
<1>1. /\ TypeOK /\ time \in Nat /\ worked[e] \in Int
      /\ Fits(worked[e], RunningFor(e), Tallied(tally, "daily", e),
              handed[<<"daily", e>>], stores[e], repeated)
      /\ worked[e] <= MaxTimers * time
  BY DailyFacts
<1>2. /\ Monotonic' = Monotonic /\ time' = time /\ Monotonic \in Nat
      /\ UNCHANGED <<tally, worked, handed, stores, repeated>>
  BY <1>1, TodayType DEF StartTimer, clocks, disk, history, Monotonic
<1>3. /\ DOMAIN timers' = DOMAIN timers \cup {timerId}
      /\ timers'[timerId] = NewTimer(s, f)
      /\ timerId \notin DOMAIN timers
      /\ \A t \in DOMAIN timers : timers'[t] = timers[t]
  <2>1. timerId \notin DOMAIN timers
    BY DEF DailyInv, OptOutInv, TablesInv, NumbersUsed
  <2> QED
    BY <2>1 DEF StartTimer
<1>4. timers'[timerId].event = f /\ timers'[timerId].start = Monotonic
  BY <1>3 DEF NewTimer
<1>5. /\ all \in SUBSET DOMAIN timers /\ IsFiniteSet(all)
      /\ \A t \in all : Age[t] \in Int /\ Age[t] = Monotonic - timers[t].start
  BY <1>1, AgeType DEF Age
<1>6. TimersOf(e)' = S
  BY <1>3, <1>4 DEF TimersOf
<1>7. RunningFor(e) = SumFunctionOnSet(Age, all)
  BY <1>1, RunningIs
<1> HIDE DEF all
<1>8. IsFiniteSet(S)
  BY <1>5, FS_AddElement
<1>9. \A t \in S : age[t] \in Int /\ age[t] = Monotonic' - timers'[t].start
  <2> SUFFICES ASSUME NEW t \in S
               PROVE  age[t] \in Int /\ age[t] = Monotonic' - timers'[t].start
    OBVIOUS
  <2>1. CASE t = timerId
    <3>1. age[t] = 0
      BY <2>1
    <3>2. Monotonic' - timers'[t].start = 0
      BY <1>2, <1>4, <2>1
    <3> QED
      BY <3>1, <3>2
  <2>2. CASE t # timerId
    <3>1. t \in all /\ t \in DOMAIN timers
      BY <1>5, <2>2
    <3>2. age[t] = Age[t] /\ timers'[t] = timers[t]
      BY <1>3, <2>2, <3>1
    <3> QED
      BY <1>2, <1>5, <3>1, <3>2
  <2> QED
    BY <2>1, <2>2
<1>10. SumFunctionOnSet(age, all) = SumFunctionOnSet(Age, all)
  <2>1. \A t \in all : Age[t] \in Int /\ age[t] = Age[t]
    BY <1>3, <1>5
  <2> HIDE DEF age
  <2> QED
    BY <1>5, <2>1, SumCongruent
<1>11. SumFunctionOnSet(age, S) = SumFunctionOnSet(age, all)
  <2>1. CASE f = e
    <3>1. timerId \in S /\ S \ {timerId} = all
      BY <1>3, <1>5, <2>1
    <3>2. age[timerId] = 0 /\ \A t \in S : age[t] \in Int
      BY <1>9
    <3>3. SumFunctionOnSet(age, all) \in Int
      BY <1>5, <1>10, SumType
    <3> HIDE DEF age, S
    <3>4. SumFunctionOnSet(age, S) = age[timerId] + SumFunctionOnSet(age, S \ {timerId})
      BY <1>8, <3>1, <3>2, SumStep
    <3>5. SumFunctionOnSet(age, S \ {timerId}) = SumFunctionOnSet(age, all)
      BY <3>1
    <3> QED
      BY <3>2, <3>3, <3>4, <3>5
  <2>2. CASE f # e
    BY <2>2
  <2> QED
    BY <2>1, <2>2
<1>12. RunningFor(e)' = SumFunctionOnSet(age, S)
  <2> HIDE DEF age, S
  <2> QED
    BY <1>6, <1>8, <1>9, RunningIsNext
<1>13. RunningFor(e)' = RunningFor(e)
  BY <1>7, <1>10, <1>11, <1>12
<1> QED
  BY <1>1, <1>2, <1>13, BalancedNext

(* Timers run as long as the machine is not suspended.                        *)
LEMMA BalancedTick ==
  ASSUME DailyInv, CountersFit, NEW e \in Events, Tick
  PROVE  Balanced(e)'
<1> DEFINE all == TimersOf(e)
           n   == Cardinality(all)
           age == [t \in DOMAIN timers |-> Age[t] + 1]
           t0  == Tallied(tally, "daily", e)
           h   == handed[<<"daily", e>>]
<1>1. /\ TypeOK /\ time \in Nat /\ worked[e] \in Int /\ RunningFor(e) \in Nat
      /\ t0 \in Nat /\ h \in Nat /\ stores[e] \in Nat
      /\ Fits(worked[e], RunningFor(e), t0, h, stores[e], repeated)
      /\ worked[e] <= MaxTimers * time
  BY DailyFacts
<1>2. /\ time' = time + 1 /\ Monotonic' = Monotonic + 1 /\ Monotonic \in Nat
      /\ UNCHANGED <<tally, timers, handed, stores, repeated>>
      /\ worked'[e] = worked[e] + n
  <2>1. /\ time' = time + 1 /\ asleep' = asleep
        /\ UNCHANGED <<tally, timers, handed, stores, repeated>>
        /\ worked'[e] = worked[e] + n
    BY DEF Tick, Passes, disk, tables
  <2>2. Monotonic' = Monotonic + 1 /\ Monotonic \in Nat
    BY <1>1, <2>1, TodayType DEF Monotonic, TypeOK
  <2> QED
    BY <2>1, <2>2
<1>3. /\ all \in SUBSET DOMAIN timers /\ IsFiniteSet(all) /\ n \in Nat
      /\ \A t \in all : Age[t] \in Int /\ Age[t] = Monotonic - timers[t].start
                        /\ timers[t].start \in Int
  BY <1>1, AgeType DEF Age, TypeOK, Timers
<1>4. n <= MaxTimers
  <2>1. n <= Cardinality(DOMAIN timers) /\ Cardinality(DOMAIN timers) \in Nat
        /\ Cardinality(DOMAIN timers) <= timerId
    BY <1>1, <1>3, TimersFinite, FS_Subset
  <2>2. timerId <= MaxTimers /\ timerId \in Nat /\ MaxTimers \in Nat
    BY <1>1, AggregateAssumption DEF DailyInv, TypeOK
  <2> HIDE DEF n
  <2> QED
    BY <1>3, <2>1, <2>2
<1>5. RunningFor(e) = SumFunctionOnSet(Age, all) /\ TimersOf(e)' = all
  BY <1>1, <1>2, RunningIs DEF TimersOf
<1>6. \A t \in all : age[t] = Age[t] + 1
  BY <1>3
<1>7. \A t \in all : age[t] \in Int /\ age[t] = Monotonic' - timers'[t].start
  BY <1>2, <1>3, <1>6
<1> HIDE DEF all, age
<1>8. SumFunctionOnSet(age, all) = SumFunctionOnSet(Age, all) + n
  BY <1>3, <1>6, SumOfNext
<1>9. RunningFor(e)' = RunningFor(e) + n
  BY <1>3, <1>5, <1>7, <1>8, RunningIsNext
<1> DEFINE r == RunningFor(e)
           w == worked[e]
<1> HIDE DEF n, t0, h, r, w
<1>10. Fits(w + n, r + n, t0, h, stores[e], repeated)
  <2>1. Second * t0 \in Int /\ Second * (t0 + h) \in Int /\ (Second - 1) * stores[e] \in Int
    BY <1>1, AggregateAssumption
  <2>2. Second * t0 + (r + n) <= w + n
    BY <1>1, <1>3, <2>1 DEF Fits, r, w
  <2>3. (w + n) - (r + n) = w - r
    BY <1>1, <1>3 DEF r, w
  <2> QED
    BY <1>1, <2>2, <2>3 DEF Fits, r, w
<1>11. w + n <= MaxTimers * (time + 1)
  <2>1. MaxTimers * (time + 1) = MaxTimers * time + MaxTimers
    BY <1>1, AggregateAssumption
  <2>2. MaxTimers * time \in Int /\ MaxTimers \in Int
    BY <1>1, AggregateAssumption
  <2> QED
    BY <1>1, <1>3, <1>4, <2>1, <2>2 DEF w
<1>12. /\ worked'[e] = w + n /\ RunningFor(e)' = r + n /\ Tallied(tally', "daily", e) = t0
       /\ handed'[<<"daily", e>>] = h
  BY <1>2, <1>9 DEF w, r, t0, h
<1> QED
  BY <1>2, <1>10, <1>11, <1>12, BalancedNext

(* At midnight every timer is stored and starts again, and the day is handed  *)
(* over, with the month where it has changed.                                 *)
LEMMA MidnightHands ==
  ASSUME DailyInv, TalliesKept, CountersFit, NEW e \in Events, ClockTickedMidnight
  PROVE  LET t == Tallied(tally, "daily", e) + SecondsOf(TimersOf(e))
             h == handed[<<"daily", e>>]
         IN \E again \in BOOLEAN :
              /\ Tallied(tally', "daily", e) \in Nat /\ handed'[<<"daily", e>>] \in Nat
              /\ Tallied(tally', "daily", e) <= t
              /\ t + h <= Tallied(tally', "daily", e) + handed'[<<"daily", e>>]
              /\ ~again => t + h = Tallied(tally', "daily", e) + handed'[<<"daily", e>>]
              /\ again => repeated'
<1> DEFINE all  == DOMAIN timers
           rows == Stored(tally, all, "daily", tallyDate)
           keys == RowsOf(rows, "daily", tallyDate)
           t    == Tallied(tally, "daily", e) + SecondsOf(TimersOf(e))
           h    == handed[<<"daily", e>>]
           fit  == Tallied(rows, "daily", e)
<1>1. /\ TypeOK /\ RowsOK(tally) /\ RunningFor(e) \in Nat /\ repeated \in BOOLEAN
      /\ worked[e] \in Int /\ Tallied(tally, "daily", e) \in Nat /\ h \in Nat
      /\ stores[e] \in Nat
      /\ Fits(worked[e], RunningFor(e), Tallied(tally, "daily", e), h, stores[e], repeated)
      /\ worked[e] <= Second * MaxCounter /\ RunningFor(e) <= Second * MaxCounter
  BY DailyFacts
<1>2. tallyDate \in Int /\ "daily" \in Types /\ "monthly" \in Types
      /\ handed \in [Types \X Events -> Nat]
  BY <1>1 DEF TypeOK, Types
<1>3. \A these : SomeOf(these) = {these}
  BY AllStored
<1>4. RowsOK(rows) /\ keys \in SUBSET DOMAIN rows /\ \A k \in keys : k.type = "daily"
  BY <1>1, <1>2, StoredType, RowsOfType
<1>5. fit = t
  BY <1>1, <1>2, DailyStored DEF TimersOf
<1>6. t <= MaxCounter
  <2> DEFINE ts   == TimersOf(e)
             rest == SumFunctionOnSet(Age, ts \ ts)
             w    == worked[e]
             n    == stores[e] + Cardinality(ts)
  <2>1. Fits(w, rest, t, h, n, repeated) /\ rest \in Nat /\ SecondsOf(ts) \in Nat
    BY MineStored
  <2>2. t \in Nat /\ w \in Int /\ w <= Second * MaxCounter
    BY <1>1, <2>1
  <2> HIDE DEF ts, rest, w, n, h, t
  <2> QED
    BY <2>1, <2>2, CounterFits
<1>7. recording \/ rows = NoRows
  <2> SUFFICES ASSUME ~recording PROVE rows = NoRows
    OBVIOUS
  <2>1. tally = NoRows /\ all = {}
    BY DEF DailyInv, OptOutInv
  <2> QED
    BY <2>1, NothingStored
<1>8. PICK days :
        \/ MidnightDays(all, days)
        \/ \E months : MidnightMonths(all, days, all, months)
  BY <1>3, MidnightCourses
<1> DEFINE sum == Handing(handed, rows, days.keys)
           t1  == Tallied(days.rows, "daily", e)
           h1  == sum[<<"daily", e>>]
<1>9. days \in Iterated(rows, keys)
  BY <1>8 DEF MidnightDays, MidnightMonths
<1> HIDE DEF rows, keys, all
<1>10. /\ fit \in Nat /\ t1 \in Nat /\ h1 \in Nat
       /\ t1 <= fit /\ fit + h <= t1 + h1
       /\ ~days.failed => fit + h = t1 + h1
  BY <1>2, <1>4, <1>5, <1>6, <1>7, <1>9, DailyIterated, SMTT(40)
<1>11. /\ Tallied(tally', "daily", e) = t1 /\ handed'[<<"daily", e>>] = h1
       /\ days.failed => repeated'
  <2>1. CASE MidnightDays(all, days)
    BY <2>1 DEF MidnightDays, rows
  <2>2. ASSUME NEW months, MidnightMonths(all, days, all, months)
        PROVE  /\ Tallied(tally', "daily", e) = t1 /\ handed'[<<"daily", e>>] = h1
               /\ days.failed => repeated'
    <3> DEFINE more == Stored(days.rows, all, "monthly", tallyDate)
               late == RowsOf(more, "monthly", tallyDate)
    <3>1. /\ months \in Iterated(more, late)
          /\ tally' = months.rows /\ handed' = Handing(sum, more, months.keys)
          /\ repeated' = (repeated \/ days.failed \/ months.failed)
      BY <2>2 DEF MidnightMonths, rows
    <3>2. RowsOK(days.rows) /\ days.keys \in SUBSET DOMAIN rows
      BY <1>4, <1>9, IteratedType
    <3>3. sum \in [Types \X Events -> Nat]
      BY <1>2, <1>4, <3>2, HandingType
    <3>4. RowsOK(more) /\ late \in SUBSET DOMAIN more /\ \A k \in late : k.type = "monthly"
      BY <1>1, <1>2, <3>2, StoredType, RowsOfType DEF all
    <3>5. Tallied(more, "daily", e) = t1
      <4> DEFINE past == days.rows
      <4>1. all \in SUBSET DOMAIN timers /\ RowsOK(past)
        BY <3>2 DEF all
      <4> HIDE DEF past
      <4>2. Tallied(Stored(past, all, "monthly", tallyDate), "daily", e)
              = Tallied(past, "daily", e) + 0
        BY <1>1, <1>2, <4>1, DailyStored
      <4> QED
        BY <1>10, <4>2 DEF past
    <3> HIDE DEF more, late, sum
    <3>6. /\ Handing(sum, more, months.keys)[<<"daily", e>>] = sum[<<"daily", e>>]
          /\ Tallied(months.rows, "daily", e) = Tallied(more, "daily", e)
      BY <3>1, <3>3, <3>4, MonthlyIterated
    <3> QED
      BY <3>1, <3>5, <3>6
  <2> QED
    BY <1>8, <2>1, <2>2
<1>12. days.failed \in BOOLEAN
  <2>1. \/ days = [rows |-> Without(rows, keys), keys |-> keys, failed |-> FALSE]
        \/ \E some \in SUBSET keys :
              days = [rows |-> rows, keys |-> some, failed |-> TRUE]
    BY <1>9 DEF Iterated
  <2>2. days.failed = FALSE \/ days.failed = TRUE
    BY <2>1
  <2> QED
    BY <2>2
<1> HIDE DEF t, h, fit, t1, h1
<1>13. /\ t1 \in Nat /\ h1 \in Nat /\ t1 <= t /\ t + h <= t1 + h1
       /\ ~days.failed => t + h = t1 + h1
  BY <1>5, <1>10
<1> QED
  BY <1>11, <1>12, <1>13 DEF t, h

(* At midnight timers are stored and start again, then rows are handed over. *)
LEMMA BalancedMidnight ==
  ASSUME DailyInv, TalliesKept, CountersFit, NEW e \in Events, ClockTickedMidnight,
         repeated' \in BOOLEAN
  PROVE  Balanced(e)'
<1> DEFINE ts   == TimersOf(e)
           rest == SumFunctionOnSet(Age, ts \ ts)
           c    == SecondsOf(ts)
           m    == Cardinality(ts)
           w    == worked[e]
           n    == stores[e]
           t0   == Tallied(tally, "daily", e)
           h    == handed[<<"daily", e>>]
           t1   == Tallied(tally', "daily", e)
           h1   == handed'[<<"daily", e>>]
<1>1. /\ TypeOK /\ time \in Nat /\ RunningFor(e) \in Nat /\ repeated \in BOOLEAN
      /\ w \in Int /\ t0 \in Nat /\ h \in Nat /\ n \in Nat
      /\ Fits(w, RunningFor(e), t0, h, n, repeated)
      /\ RunningFor(e) <= Second * MaxCounter /\ w <= MaxTimers * time
  BY DailyFacts
<1>2. /\ m \in Nat /\ c \in Nat /\ rest \in Nat
      /\ Fits(w, rest, t0 + c, h, n + m, repeated)
  BY MineStored
<1>3. rest = 0
  <2>1. ts \ ts = {} /\ \A t \in {} : Age[t] = 0
    OBVIOUS
  <2>2. SumFunctionOnSet(Age, {}) = 0
    BY <2>1, FS_EmptySet, SumOfZero
  <2> QED
    BY <2>1, <2>2
<1>4. PICK more \in BOOLEAN :
        /\ t1 \in Nat /\ h1 \in Nat /\ t1 <= t0 + c /\ (t0 + c) + h <= t1 + h1
        /\ ~more => (t0 + c) + h = t1 + h1
        /\ more => repeated'
  BY MidnightHands
<1>5. UNCHANGED <<clocks, worked>> /\ stores'[e] = n + m /\ (repeated => repeated')
  <2>1. UNCHANGED <<clocks, worked>>
    BY DEF ClockTickedMidnight
  <2>2. stores'[e] = n + m
    BY DEF ClockTickedMidnight, StoresOf, TimersOf
  <2>3. repeated => repeated'
    <3>1. PICK daily, days :
            \/ MidnightDays(daily, days)
            \/ \E monthly, months : MidnightMonths(daily, days, monthly, months)
      BY MidnightCourses
    <3> QED
      BY <3>1 DEF MidnightDays, MidnightMonths
  <2> QED
    BY <2>1, <2>2, <2>3
<1>6. RunningFor(e)' = 0
  <2> DEFINE age == [t \in ts |-> 0]
  <2>1. /\ DOMAIN timers' = DOMAIN timers
        /\ \A t \in DOMAIN timers :
             timers'[t] = NewTimer(timers[t].sender, timers[t].event)
    BY DEF ClockTickedMidnight, SplitTimers
  <2>2. Monotonic' = Monotonic /\ Monotonic \in Nat
    BY <1>1, <1>5, TodayType DEF clocks, Monotonic
  <2>3. TimersOf(e)' = ts
    BY <2>1 DEF TimersOf, NewTimer
  <2>4. IsFiniteSet(ts) /\ ts \in SUBSET DOMAIN timers
    BY <1>1, AgeType
  <2>5. \A t \in ts : Monotonic' - timers'[t].start = 0
    BY <2>1, <2>2, <2>4 DEF NewTimer
  <2>6. \A t \in ts : age[t] \in Int /\ age[t] = 0 /\ age[t] = Monotonic' - timers'[t].start
    BY <2>5
  <2> HIDE DEF age, ts
  <2>7. RunningFor(e)' = SumFunctionOnSet(age, ts)
    BY <2>3, <2>4, <2>6, RunningIsNext
  <2> QED
    BY <2>4, <2>6, <2>7, SumOfZero
<1>7. time' = time /\ worked'[e] = w
  BY <1>5 DEF clocks
<1> HIDE DEF ts, rest, c, m, w, n, t0, h, t1, h1
<1>8. Fits(w, rest, t1, h1, n + m, repeated')
  <2>1. t0 + c \in Nat /\ n + m \in Nat /\ t1 \in Nat /\ h1 \in Nat
    BY <1>1, <1>2, <1>4
  <2>2. HandsOver(t0 + c, h, t1, h1, more)
    BY <1>4 DEF HandsOver
  <2>3. (repeated => repeated') /\ (more => repeated')
    BY <1>4, <1>5
  <2> DEFINE after == repeated'
             u     == t0 + c
             v     == n + m
  <2> HIDE DEF after, u, v
  <2>4. (repeated => after) /\ (more => after)
    BY <2>3 DEF after
  <2>5. u \in Nat /\ v \in Nat /\ HandsOver(u, h, t1, h1, more)
        /\ Fits(w, rest, u, h, v, repeated)
    BY <1>2, <2>1, <2>2 DEF u, v
  <2>6. Fits(w, rest, t1, h1, v, after)
    BY ONLY <1>1, <1>2, <2>1, <2>4, <2>5, HandedFits
  <2> QED
    BY <2>6 DEF after, v
<1>9. Tallied(tally', "daily", e) = t1 /\ handed'[<<"daily", e>>] = h1
  BY DEF t1, h1
<1>10. RunningFor(e)' = rest
  BY <1>3, <1>6
<1> QED
  BY <1>1, <1>5, <1>7, <1>8, <1>9, <1>10, BalancedNext

(* What Start finds of days and months that have passed is handed over; rows  *)
(* of another schema are gone, with what was worked for them.                 *)
LEMMA BalancedStart ==
  ASSUME DailyInv, CountersFit, NEW e \in Events, Start
  PROVE  Balanced(e)'
<1> DEFINE rows == OpenedTally
           w    == IF schema = "other"
                   THEN worked[e] - Second * Tallied(tally, "daily", e) ELSE worked[e]
           r    == RunningFor(e)
           h    == handed[<<"daily", e>>]
           n    == stores[e]
           t    == Tallied(rows, "daily", e)
           t1   == Tallied(tally', "daily", e)
           h1   == handed'[<<"daily", e>>]
<1>1. /\ TypeOK /\ time \in Nat /\ repeated \in BOOLEAN /\ RowsOK(tally)
      /\ worked[e] \in Int /\ r \in Nat /\ Tallied(tally, "daily", e) \in Nat
      /\ h \in Nat /\ n \in Nat
      /\ Fits(worked[e], r, Tallied(tally, "daily", e), h, n, repeated)
      /\ worked[e] <= MaxTimers * time /\ worked[e] <= Second * MaxCounter
  BY DailyFacts
<1>2. /\ UNCHANGED <<clocks, tables, stores>> /\ worked'[e] = w
      /\ BufferPastAggregateEvents(rows)
  BY DEF Start
<1>3. RunningFor(e)' = r
  <2>1. timers' = timers /\ Monotonic' = Monotonic
    BY <1>2 DEF clocks, tables, Monotonic
  <2> QED
    BY <1>1, <2>1, RunningStill
<1>4. RowsOK(rows) /\ handed \in [Types \X Events -> Nat]
  BY <1>1, OpenedType DEF DailyInv, TypeOK
<1>5. t \in Nat
  BY <1>4, TalliedType
<1>6. /\ w \in Int /\ Fits(w, r, t, h, n, repeated)
      /\ w <= MaxTimers * time /\ w <= Second * MaxCounter
  <2>1. CASE schema # "other"
    <3>1. rows = tally /\ w = worked[e]
      BY <2>1 DEF OpenedTally
    <3> QED
      BY <1>1, <3>1
  <2>2. CASE schema = "other"
    <3> DEFINE a  == Tallied(tally, "daily", e)
               u  == worked[e]
    <3>1. w = u - Second * a
      BY <2>2
    <3>2. t = 0
      BY <2>2, TalliedNothing DEF OpenedTally
    <3>3. Fits(u, r, a, h, n, repeated) /\ u \in Int /\ a \in Nat
      BY <1>1
    <3> HIDE DEF a, u, w, r, h, n, t
    <3>4. /\ Second * a \in Nat /\ Second * h \in Int /\ (Second - 1) * n \in Int
          /\ Second * (a + h) = Second * a + Second * h
          /\ Second * t = 0 /\ Second * (t + h) = Second * h
      BY <1>1, <3>2, <3>3, AggregateAssumption
    <3>5. Second * t + r <= w
      BY <1>1, <3>1, <3>3, <3>4 DEF Fits
    <3>6. w - r - Second * (t + h) = u - r - Second * (a + h)
      BY <1>1, <3>1, <3>3, <3>4
    <3>7. Fits(w, r, t, h, n, repeated)
      BY <3>3, <3>5, <3>6 DEF Fits
    <3>8. w \in Int /\ w <= u
      BY <3>1, <3>3, <3>4
    <3>9. u <= MaxTimers * time /\ u <= Second * MaxCounter
      BY <1>1 DEF u
    <3>10. MaxTimers * time \in Int /\ Second * MaxCounter \in Int
      BY <1>1, AggregateAssumption
    <3> QED
      BY <3>3, <3>7, <3>8, <3>9, <3>10
  <2> QED
    BY <2>1, <2>2
<1>7. t <= MaxCounter
  <2> HIDE DEF w, r, h, n, t
  <2> QED
    BY <1>1, <1>5, <1>6, CounterFits
<1>8. recording \/ rows = NoRows
  BY DEF DailyInv, OptOutInv, OpenedTally
<1> DEFINE keys == RowsBefore(rows, "daily", Today)
<1>9. keys \in SUBSET DOMAIN rows /\ \A k \in keys : k.type = "daily"
  BY RowsOfType
<1>10. PICK days \in Iterated(rows, keys) :
         \E months \in Iterated(days.rows, RowsBefore(days.rows, "monthly", Today)) :
           /\ tally' = months.rows
           /\ handed' = Handing(Handing(handed, rows, days.keys), days.rows, months.keys)
           /\ repeated' = (repeated \/ days.failed \/ months.failed)
  BY <1>2 DEF BufferPastAggregateEvents
<1> DEFINE sum  == Handing(handed, rows, days.keys)
           past == days.rows
           late == RowsBefore(past, "monthly", Today)
<1>11. PICK months \in Iterated(past, late) :
         /\ tally' = months.rows /\ handed' = Handing(sum, past, months.keys)
         /\ repeated' = (repeated \/ days.failed \/ months.failed)
  BY <1>10
<1> HIDE DEF keys
<1>12. /\ Tallied(past, "daily", e) \in Nat /\ sum[<<"daily", e>>] \in Nat
       /\ Tallied(past, "daily", e) <= t
       /\ t + h <= Tallied(past, "daily", e) + sum[<<"daily", e>>]
       /\ ~days.failed => t + h = Tallied(past, "daily", e) + sum[<<"daily", e>>]
  <2> HIDE DEF rows
  <2> QED
    BY <1>4, <1>7, <1>8, <1>9, <1>10, DailyIterated, ZenonT(60)
<1>13. RowsOK(past) /\ sum \in [Types \X Events -> Nat]
  <2> HIDE DEF rows
  <2>1. RowsOK(past) /\ days.keys \in SUBSET DOMAIN rows
    BY <1>4, <1>9, <1>10, IteratedType
  <2> QED
    BY <1>4, <2>1, HandingType
<1>14. late \in SUBSET DOMAIN past /\ \A k \in late : k.type = "monthly"
  BY RowsOfType
<1> HIDE DEF sum, past, late
<1>15. /\ Handing(sum, past, months.keys)[<<"daily", e>>] = sum[<<"daily", e>>]
       /\ Tallied(months.rows, "daily", e) = Tallied(past, "daily", e)
  BY <1>11, <1>13, <1>14, MonthlyIterated
<1>16. t1 = Tallied(past, "daily", e) /\ h1 = sum[<<"daily", e>>]
  BY <1>11, <1>15
<1> HIDE DEF w, r, h, n, t, t1, h1
<1>17. Fits(w, r, t1, h1, n, repeated')
  <2> DEFINE more  == days.failed
             after == repeated'
  <2>1. t1 \in Nat /\ h1 \in Nat /\ HandsOver(t, h, t1, h1, more)
    BY <1>12, <1>16 DEF HandsOver
  <2>2. (repeated => after) /\ (more => after)
    BY <1>11
  <2> HIDE DEF more, after
  <2>3. Fits(w, r, t1, h1, n, after)
    BY ONLY <1>1, <1>5, <1>6, <2>1, <2>2, HandedFits
  <2> QED
    BY <2>3 DEF after
<1>18. time' = time /\ stores'[e] = n /\ Tallied(tally', "daily", e) = t1
       /\ handed'[<<"daily", e>>] = h1
  BY <1>2 DEF clocks, n, t1, h1
<1> QED
  BY <1>2, <1>3, <1>6, <1>17, <1>18, BalancedNext

(* No timer is left.                                                          *)
LEMMA RunningNothing ==
  ASSUME NEW e, DOMAIN timers' = {}
  PROVE  RunningFor(e)' = 0
<1> DEFINE age == [t \in {} |-> 0]
<1>1. TimersOf(e)' = {}
  BY DEF TimersOf
<1>2. \A t \in {} : age[t] \in Int /\ age[t] = 0 /\ age[t] = Monotonic' - timers'[t].start
  OBVIOUS
<1> HIDE DEF age
<1>3. RunningFor(e)' = SumFunctionOnSet(age, {})
  BY <1>1, <1>2, FS_EmptySet, RunningIsNext
<1> QED
  BY <1>2, <1>3, FS_EmptySet, SumOfZero

(* What is forgotten when the process ends has not been worked.               *)
LEMMA BalancedEnded ==
  ASSUME DailyInv, CountersFit, NEW e \in Events, Ended
  PROVE  Balanced(e)'
<1> DEFINE w == worked[e]
           r == RunningFor(e)
           t == Tallied(tally, "daily", e)
           h == handed[<<"daily", e>>]
           n == stores[e]
           v == w - r
<1>1. /\ time \in Nat /\ w \in Int /\ r \in Nat /\ t \in Nat /\ h \in Nat /\ n \in Nat
      /\ Fits(w, r, t, h, n, repeated) /\ w <= MaxTimers * time
  BY DailyFacts
<1>2. /\ UNCHANGED <<tally, handed, stores, repeated, time>> /\ worked'[e] = v
      /\ DOMAIN timers' = {}
  BY DEF Ended, NoTables, disk, clocks
<1>3. RunningFor(e)' = 0
  BY <1>2, RunningNothing
<1>4. /\ worked'[e] = v /\ Tallied(tally', "daily", e) = t
      /\ handed'[<<"daily", e>>] = h /\ stores'[e] = n /\ time' = time
      /\ repeated' = repeated
  BY <1>2
<1> DEFINE z == 0
<1> HIDE DEF w, r, t, h, n
<1>5. Fits(v, z, t, h, n, repeated)
  <2>1. Second * t \in Int /\ Second * (t + h) \in Int
    BY <1>1, AggregateAssumption
  <2>2. Second * t + z <= v /\ v - z - Second * (t + h) = w - r - Second * (t + h)
    BY <1>1, <2>1 DEF Fits
  <2> QED
    BY <1>1, <2>2 DEF Fits
<1>6. v <= MaxTimers * time
  <2>1. MaxTimers * time \in Int
    BY <1>1, AggregateAssumption
  <2> QED
    BY <1>1, <2>1
<1>7. RunningFor(e)' = z
  BY <1>3
<1> HIDE DEF v, z
<1> QED
  BY <1>4, <1>5, <1>6, <1>7, BalancedNext

(* Nothing is left of what was recorded.                                      *)
LEMMA BalancedDisable ==
  ASSUME DailyInv, TalliesKept, NEW e \in Events, Disable
  PROVE  Balanced(e)'
<1>1. /\ tally' = NoRows /\ DOMAIN timers' = {} /\ time' = time
      /\ worked' = Nothing /\ handed' = NothingHanded /\ stores' = Nothing
      /\ repeated' = FALSE
  BY DEF Disable, TalliesKept, NoTables, clocks
<1>2. RunningFor(e)' = 0
  BY <1>1, RunningNothing
<1>3. worked'[e] = 0 /\ stores'[e] = 0
  BY <1>1 DEF Nothing
<1>4. handed'[<<"daily", e>>] = 0
  BY <1>1 DEF NothingHanded, Types
<1>5. Tallied(tally', "daily", e) = 0
  BY <1>1, TalliedNothing
<1>6. \A z, now, again : /\ z = 0 /\ worked'[e] = z /\ RunningFor(e)' = z
                         /\ Tallied(tally', "daily", e) = z
                         /\ handed'[<<"daily", e>>] = z /\ stores'[e] = z
                         /\ repeated' = again /\ time' = now
                         /\ Fits(z, z, z, z, z, again) /\ z <= MaxTimers * now
                         => Balanced(e)'
  BY BalancedNext
<1>7. \A z, again : z = 0 => Fits(z, z, z, z, z, again)
  BY AggregateAssumption DEF Fits
<1>8. 0 <= MaxTimers * time
  <2>1. time \in Nat /\ MaxTimers \in Nat
    BY AggregateAssumption DEF DailyInv, TypeInv, TypeOK
  <2> QED
    BY <2>1
<1> QED
  BY <1>1, <1>2, <1>3, <1>4, <1>5, <1>6, <1>7, <1>8

(* At first nothing has run.                                                 *)
LEMMA DailyInitially == Init => DailyInv
<1> SUFFICES ASSUME Init PROVE DailyInv
  OBVIOUS
<1>1. TypeInv /\ OptOutInv /\ TypeOK
  BY TypeInitially, OptOutInitially DEF TypeInv
<1>2. /\ recording /\ time <= MaxTime /\ timerId <= MaxTimers
      /\ tally = NoRows /\ DOMAIN timers = {} /\ time = 0
  BY AggregateAssumption DEF Init
<1>3. ASSUME NEW e \in Events PROVE Balanced(e)
  <2>1. worked[e] = 0 /\ stores[e] = 0 /\ handed[<<"daily", e>>] = 0
    BY DEF Init, Nothing, NothingHanded, Types
  <2>2. Tallied(tally, "daily", e) = 0
    BY <1>2, TalliedNothing
  <2>3. RunningFor(e) = 0
    <3>1. TimersOf(e) = {}
      BY <1>2 DEF TimersOf
    <3>2. RunningFor(e) = SumFunctionOnSet(Age, {})
      BY <1>1, <3>1, RunningIs
    <3>3. \A t \in {} : Age[t] = 0
      OBVIOUS
    <3>4. SumFunctionOnSet(Age, {}) = 0
      BY <3>3, FS_EmptySet, SumOfZero
    <3> QED
      BY <3>2, <3>4
  <2>4. \A z, again : z = 0 => Fits(z, z, z, z, z, again)
    BY AggregateAssumption DEF Fits
  <2>5. Fits(worked[e], RunningFor(e), Tallied(tally, "daily", e),
             handed[<<"daily", e>>], stores[e], repeated)
    BY <2>1, <2>2, <2>3, <2>4
  <2>6. worked[e] <= MaxTimers * time
    BY <1>2, <2>1, AggregateAssumption
  <2> QED
    BY <2>5, <2>6 DEF Balanced
<1> QED
  BY <1>1, <1>2, <1>3 DEF DailyInv

(* Recording goes on unless it was disabled and the tally cleared.            *)
LEMMA DisabledIsOptOut ==
  ASSUME TalliesKept, ~recording => optedOut, [Next]_vars
  PROVE  ~recording' => optedOut'
<1> USE DEF history
<1>1. UNCHANGED <<recording, optedOut>> => (~recording' => optedOut')
  OBVIOUS
<1>2. CASE Enable
  BY <1>2 DEF Enable
<1>3. CASE Disable
  BY <1>3 DEF Disable, TalliesKept
<1>4. ~EditConfigFile
  BY DEF EditConfigFile, TalliesKept
<1>5. \A s, e : StartTimer(s, e) => UNCHANGED <<recording, optedOut>>
  BY DEF StartTimer
<1>6. \A t : StopTimer(t) => UNCHANGED <<recording, optedOut>>
  BY DEF StopTimer
<1>7. \A s : SenderNameVanished(s) \/ Leave(s) => UNCHANGED <<recording, optedOut>>
  BY DEF SenderNameVanished, Leave
<1>8. ClockTickedMidnight \/ Start \/ Shutdown => UNCHANGED <<recording, optedOut>>
  BY DEF ClockTickedMidnight, Start, Shutdown
<1>9. Exit \/ Kill => UNCHANGED <<recording, optedOut>>
  BY DEF Exit, Kill, Ended
<1>10. Tick \/ Suspend => UNCHANGED <<recording, optedOut>>
  BY DEF Tick, Suspend, Passes
<1>11. SetClock \/ ReplaceDatabase \/ UNCHANGED vars => UNCHANGED <<recording, optedOut>>
  BY DEF SetClock, ReplaceDatabase, vars
<1> QED
  BY <1>1, <1>2, <1>3, <1>4, <1>5, <1>6, <1>7, <1>8, <1>9, <1>10, <1>11 DEF Next

(* Time and the numbers of timers are bounded.                                *)
LEMMA BoundsStep ==
  ASSUME TypeInv, time <= MaxTime, timerId <= MaxTimers, [Next]_vars
  PROVE  time' <= MaxTime /\ timerId' <= MaxTimers
<1> USE DEF clocks, tables
<1>1. timerId \in Nat /\ time \in Nat /\ MaxTime \in Nat /\ MaxTimers \in Nat
  BY AggregateAssumption DEF TypeInv, TypeOK
<1>2. ASSUME NEW s, NEW e, StartTimer(s, e) PROVE time' <= MaxTime /\ timerId' <= MaxTimers
  BY <1>1, <1>2 DEF StartTimer
<1>3. CASE Tick
  BY <1>1, <1>3 DEF Tick, Passes
<1>4. CASE Suspend
  <2>1. PICK t \in time + 1 .. MaxTime : Passes(t)
    BY <1>4 DEF Suspend
  <2>2. time' = t /\ timerId' = timerId
    BY <2>1 DEF Passes
  <2> QED
    BY <1>1, <2>1, <2>2
<1>5. UNCHANGED <<time, timerId>> => time' <= MaxTime /\ timerId' <= MaxTimers
  OBVIOUS
<1>6. \A t : StopTimer(t) => UNCHANGED <<time, timerId>>
  BY DEF StopTimer
<1>7. \A s : SenderNameVanished(s) \/ Leave(s) => UNCHANGED <<time, timerId>>
  BY DEF SenderNameVanished, Leave
<1>8. ClockTickedMidnight \/ Start \/ Shutdown => UNCHANGED <<time, timerId>>
  BY DEF ClockTickedMidnight, Start, Shutdown
<1>9. Exit \/ Kill => UNCHANGED <<time, timerId>>
  BY DEF Exit, Kill, Ended
<1>10. Enable \/ Disable \/ EditConfigFile => UNCHANGED <<time, timerId>>
  BY DEF Enable, Disable, EditConfigFile
<1>11. SetClock \/ ReplaceDatabase \/ UNCHANGED vars => UNCHANGED <<time, timerId>>
  BY DEF SetClock, ReplaceDatabase, vars
<1> QED
  BY <1>2, <1>3, <1>4, <1>5, <1>6, <1>7, <1>8, <1>9, <1>10, <1>11 DEF Next

(* Every step keeps the balance of an event.                                 *)
LEMMA BalancedStep ==
  ASSUME DailyInv, TalliesKept, CountersFit, [Next]_vars, TypeInv', NEW e \in Events
  PROVE  Balanced(e)'
<1> USE DEF clocks, disk, tables, history
<1>1. TypeOK /\ time \in Nat /\ TypeOK' /\ TablesInv
  BY DEF DailyInv, TypeInv, TypeOK, OptOutInv
<1>2. ASSUME NEW s \in Senders, NEW f \in Events, StartTimer(s, f) PROVE Balanced(e)'
  BY <1>2, BalancedStarted
<1>3. ASSUME NEW ts \in SUBSET DOMAIN timers, StopTimers(ts), RemoveTimers(ts),
             UNCHANGED <<clocks, worked, handed, repeated>>
      PROVE  Balanced(e)'
  <2>1. DOMAIN timers' = DOMAIN timers \ ts /\ \A t \in DOMAIN timers' : timers'[t] = timers[t]
    BY <1>3 DEF RemoveTimers
  <2> QED
    BY <1>3, <2>1, BalancedStopped
<1>4. ASSUME NEW t \in DOMAIN timers, StopTimer(t) PROVE Balanced(e)'
  <2>1. StopTimers({t}) /\ RemoveTimers({t}) /\ UNCHANGED <<clocks, worked, handed, repeated>>
    BY <1>4 DEF StopTimer
  <2> QED
    BY <1>3, <2>1
<1>5. ASSUME NEW s \in Senders, SenderNameVanished(s) PROVE Balanced(e)'
  <2>1. /\ StopTimers(monitored[s]) /\ RemoveTimers(monitored[s])
        /\ UNCHANGED <<clocks, worked, handed, repeated>>
    BY <1>5 DEF SenderNameVanished
  <2>2. monitored[s] \in SUBSET DOMAIN timers
    BY <1>1, <1>5 DEF SenderNameVanished, TablesInv, TablesAgree
  <2> QED
    BY <1>3, <2>1, <2>2
<1>6. CASE ClockTickedMidnight
  <2>1. repeated' \in BOOLEAN
    BY <1>1 DEF TypeOK
  <2> QED
    BY <1>6, <2>1, BalancedMidnight
<1>7. CASE Disable
  BY <1>7, BalancedDisable
<1>8. CASE Start
  BY <1>8, BalancedStart
<1>9. CASE Shutdown
  <2>1. /\ StopTimers(DOMAIN timers) /\ NoTables
        /\ UNCHANGED <<clocks, worked, handed, repeated>>
    BY <1>9 DEF Shutdown
  <2>2. DOMAIN timers' = DOMAIN timers \ DOMAIN timers
        /\ \A t \in DOMAIN timers' : timers'[t] = timers[t]
    BY <2>1 DEF NoTables
  <2> QED
    BY <2>1, <2>2, BalancedStopped
<1>10. CASE Exit \/ Kill
  BY <1>10, BalancedEnded DEF Exit, Kill
<1>11. CASE Tick
  BY <1>11, BalancedTick
<1>12. ASSUME timers' = timers, Monotonic' = Monotonic, time' \in Nat, time <= time',
              UNCHANGED <<tally, worked, handed, stores, repeated>>
       PROVE  Balanced(e)'
  BY <1>12, BalancedStill
<1>13. CASE Suspend
  <2>1. PICK t \in time + 1 .. MaxTime : Passes(t)
    BY <1>13 DEF Suspend
  <2>2. /\ time' = t /\ asleep' = asleep + (t - time) /\ timers' = timers
        /\ UNCHANGED <<tally, worked, handed, stores, repeated>>
    BY <1>13, <2>1 DEF Suspend, Passes
  <2>3. time' \in Nat /\ time <= time' /\ Monotonic' = Monotonic
    BY <1>1, <2>1, <2>2, AggregateAssumption DEF TypeOK, Monotonic
  <2> QED
    BY <1>12, <2>2, <2>3
<1>14. ASSUME UNCHANGED <<time, asleep, timers>>,
              UNCHANGED <<tally, worked, handed, stores, repeated>>
       PROVE  Balanced(e)'
  <2>1. Monotonic' = Monotonic /\ time' \in Nat /\ time <= time'
    BY <1>1, <1>14 DEF Monotonic
  <2> QED
    BY <1>12, <1>14, <2>1
<1>15. CASE Enable
  BY <1>14, <1>15 DEF Enable
<1>16. CASE SetClock \/ ReplaceDatabase
  BY <1>14, <1>16 DEF SetClock, ReplaceDatabase
<1>17. ASSUME NEW s, Leave(s) PROVE Balanced(e)'
  BY <1>14, <1>17 DEF Leave
<1>18. ~EditConfigFile
  BY DEF EditConfigFile, TalliesKept
<1>19. CASE UNCHANGED vars
  BY <1>14, <1>19 DEF vars
<1> QED
  BY <1>2, <1>4, <1>5, <1>6, <1>7, <1>8, <1>9, <1>10, <1>11, <1>13, <1>15, <1>16, <1>17,
     <1>18, <1>19 DEF Next

(* Every step keeps the invariant.                                           *)
LEMMA DailyStep ==
  ASSUME TalliesKept, CountersFit, DailyInv, [Next]_vars
  PROVE  DailyInv'
<1>1. TypeInv /\ TablesInv /\ OptOutInv /\ (~recording => optedOut)
      /\ time <= MaxTime /\ timerId <= MaxTimers
  BY DEF DailyInv, OptOutInv
<1>2. TypeInv'
  BY <1>1, TypeStep
<1>3. OptOutInv'
  BY <1>1, OptOutStep
<1>4. ~recording' => optedOut'
  BY <1>1, DisabledIsOptOut
<1>5. time' <= MaxTime /\ timerId' <= MaxTimers
  BY <1>1, BoundsStep
<1>6. \A e \in Events : Balanced(e)'
  BY <1>2, BalancedStep
<1> QED
  BY <1>2, <1>3, <1>4, <1>5, <1>6 DEF DailyInv

(* The seconds that timers ran are in the rows of a day or were handed over   *)
(* with them, once, over midnights, suspends, stops, vanishing clients, kills,*)
(* restarts and lost databases: less than a second is lost each time a timer  *)
(* is stored, and some are handed over again only after rows could not be     *)
(* deleted.  It is assumed that rows can be stored and cleared, that the      *)
(* configuration is not edited while the daemon is down, and that no counter  *)
(* gets to its limit.                                                         *)
THEOREM DailyCorrect ==
  ASSUME TalliesKept, CountersFit
  PROVE  Spec => []DailyConserved
<1>1. Init => DailyInv
  BY DailyInitially
<1>2. DailyInv /\ [Next]_vars => DailyInv'
  BY DailyStep
<1>3. DailyInv => DailyConserved
  BY DEF DailyInv, Balanced, Fits, DailyConserved, Conserved, Missing
<1> QED
  BY <1>1, <1>2, <1>3, PTL DEF Spec

=============================================================================
