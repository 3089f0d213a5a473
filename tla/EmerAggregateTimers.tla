-------------------------- MODULE EmerAggregateTimers --------------------------
(* The aggregate timers of src/daemon/emer-daemon.c and                       *)
(* emer-aggregate-timer-impl.c, and the tally of emer-aggregate-tally.c:      *)
(* clients start and stop timers over D-Bus, the seconds they ran are added up*)
(* by day and by month in a database, and past days and months are handed to  *)
(* the buffer of events (see EmerDaemon for what becomes of them there).      *)
(*                                                                            *)
(* Handlers run one after the other in one main loop, each an atomic action.  *)
(* An event stands for an event id with its user and payload.                 *)
EXTENDS Integers, FiniteSets, FiniteSetsExt

CONSTANTS Senders,        \* bus names of clients
          Events,         \* what the timers are for
          MaxTimers,      \* this many timers are started
          MaxTime,        \* the runs end at this time
          MaxHanded,      \* no more is handed over than this in a run
          DayLength, DaysPerMonth,
          Second,         \* G_USEC_PER_SEC
          MaxCounter,     \* G_MAXUINT32
          Skews,          \* how far the wall clock may be off
          Faults          \* what may go wrong, see below

ASSUME AggregateAssumption ==
  /\ MaxTimers \in Nat /\ MaxTime \in Nat /\ MaxCounter \in Nat /\ MaxHanded \in Nat
  /\ DayLength \in Nat \ {0} /\ DaysPerMonth \in Nat \ {0} /\ Second \in Nat \ {0}
  /\ Skews \subseteq Int /\ 0 \in Skews
  /\ Faults \subseteq {"store",     \* a row is not stored
                       "iter",      \* going through rows, or deleting them
                       "clear",     \* clearing the tally
                       "schema",    \* the database is replaced or damaged
                       "edit",      \* the configuration is edited offline
                       "late",      \* a midnight tick comes a day late
                       "kill"}      \* the process dies

VARIABLES
  (* the clocks *)
  time,          \* CLOCK_BOOTTIME
  asleep,        \* how much of it the machine was suspended
  skew,          \* how far the wall clock is ahead
  (* the bus *)
  onBus,         \* the senders that are connected
  (* what is on disk *)
  tally,         \* the rows of the database: a counter for some keys
  schema,        \* its user_version: "new", "current" or "other"
  (* EmerDaemon *)
  phase,         \* "down", "running", or "quitting": the main loop is to end
  recording,     \* recording_enabled, and what the configuration file says
  timers,        \* aggregate_timers, by timer_id
  monitored,     \* monitored_senders
  timerId,       \* timer_id
  tallyDate,     \* current_aggregate_tally_date, in days
  midnightAt,    \* when the boot-time source is due
  (* history *)
  worked,        \* for how long timers have run, by event
  handed,        \* the seconds handed over, by type and event
  stores,        \* how often a timer has been stored in a daily row, by event
  repeated,      \* rows were handed over and could not be deleted
  optedOut,      \* recording was disabled and the tally cleared
  abandoned      \* the process quit while a timer was running

clocks  == <<time, asleep, skew>>
disk    == <<tally, schema>>
tables  == <<timers, monitored, timerId>>
timing  == <<tallyDate, midnightAt>>
history == <<worked, handed, stores, repeated, optedOut, abandoned>>
vars    == <<clocks, onBus, disk, phase, recording, tables, timing, history>>

Types   == {"daily", "monthly"}
NoRows  == [k \in {} |-> 0]
Nothing == [e \in Events |-> 0]
NothingHanded == [te \in Types \X Events |-> 0]

Up        == phase # "down"
Monotonic == time - asleep                      \* g_get_monotonic_time
Today     == (time + skew) \div DayLength

-----------------------------------------------------------------------------
(* The tally *)

(* format_datetime_for_tally_type, of a date given in days                    *)
Period(type, date) == IF type = "daily" THEN date ELSE date \div DaysPerMonth
Key(type, date, event) == [type |-> type, period |-> Period(type, date), event |-> event]

Clamp(n)   == IF n < 0 THEN 0 ELSE IF n > MaxCounter THEN MaxCounter ELSE n
Counter(t) == Clamp((Monotonic - timers[t].start) \div Second)
SecondsOf(ts) == SumFunction([t \in ts |-> Counter(t)])

\* An error in Stored: a row that is there is overwritten.
StoredOver(rows, ts, type, date) ==
  LET KeyOf(t) == Key(type, date, timers[t].event)
      keys     == {KeyOf(t) : t \in ts}
  IN [k \in DOMAIN rows \cup keys |->
        IF k \in keys THEN SecondsOf({t \in ts : KeyOf(t) = k}) ELSE rows[k]]

(* emer_aggregate_tally_store_event for some timers: each adds to the row of  *)
(* its key, which is made if there is none.                                   *)
Stored(rows, ts, type, date) ==
  LET KeyOf(t) == Key(type, date, timers[t].event)
  IN [k \in DOMAIN rows \cup {KeyOf(t) : t \in ts} |->
        (IF k \in DOMAIN rows THEN rows[k] ELSE 0)
          + SecondsOf({t \in ts : KeyOf(t) = k})]

Without(rows, keys) == [k \in DOMAIN rows \ keys |-> rows[k]]

\* An error in RowsOf: the date is always formatted as one of a day.
RowsOfDay(rows, type, date) ==
  {k \in DOMAIN rows : k.type = type /\ k.period = Period("daily", date)}

(* The keys of emer_aggregate_tally_iter and of emer_aggregate_tally_iter_before. *)
RowsOf(rows, type, date) ==
  {k \in DOMAIN rows : k.type = type /\ k.period = Period(type, date)}
RowsBefore(rows, type, date) ==
  {k \in DOMAIN rows : k.type = type /\ k.period < Period(type, date)}

(* buffer_aggregate_event_to_queue for some rows, which adds nothing while    *)
(* recording is disabled.                                                     *)
Handing(total, rows, keys) ==
  IF ~recording THEN total
  ELSE [te \in Types \X Events |->
          LET these == {k \in keys : k.type = te[1] /\ k.event = te[2]}
          IN total[te] + SumFunction([k \in these |-> Clamp(rows[k])])]

(* The bound on the runs.                                                     *)
HandedLimited == \A te \in Types \X Events : handed'[te] <= MaxHanded

(* Iterating with EMER_TALLY_ITER_FLAG_DELETE: only when every row has been   *)
(* handed over are they deleted, so that some are handed over again later if  *)
(* there is an error in between.                                              *)
Iterated(rows, keys) ==
  {[rows |-> Without(rows, keys), keys |-> keys, failed |-> FALSE]}
    \cup {[rows |-> rows, keys |-> some, failed |-> TRUE] :
            some \in {ks \in SUBSET keys : "iter" \in Faults}}

-----------------------------------------------------------------------------
(* The timers *)

TimersOf(e)   == {t \in DOMAIN timers : timers[t].event = e}
RunningFor(e) == SumFunction([t \in TimersOf(e) |-> Monotonic - timers[t].start])

(* The timers that get stored of those that should be.                        *)
SomeOf(ts) == IF "store" \in Faults THEN SUBSET ts ELSE {ts}

StoresOf(ts) == [e \in Events |-> stores[e] + Cardinality({t \in ts : timers[t].event = e})]

(* emer_aggregate_timer_impl_stop for some timers, which stores no monthly    *)
(* row where it could not store the daily one.                                *)
StopTimers(ts) ==
  \E daily \in SomeOf(ts) : \E monthly \in SomeOf(daily) :
    /\ tally' = Stored(Stored(tally, daily, "daily", Today), monthly, "monthly", Today)
    /\ stores' = StoresOf(ts)

RemoveTimers(ts) == timers' = [t \in DOMAIN timers \ ts |-> timers[t]]

(* emer_aggregate_timer_impl_new, emer_aggregate_timer_impl_split             *)
NewTimer(s, e) == [sender |-> s, event |-> e, start |-> Monotonic]
SplitTimers    ==
  timers' = [t \in DOMAIN timers |-> NewTimer(timers[t].sender, timers[t].event)]

KeepSender(s) == UNCHANGED monitored      \* an error in RemoveSender

RemoveSender(s)  == monitored' = [o \in DOMAIN monitored \ {s} |-> monitored[o]]

\* An error in StartTimer: the number of the timer is used again.
StartTimerAgain(s, e) ==
  /\ Up /\ recording /\ timerId < MaxTimers
  /\ timers' = [t \in DOMAIN timers \cup {timerId} |->
                  IF t = timerId THEN NewTimer(s, e)
                                 ELSE timers[t]]
  /\ monitored' = [o \in DOMAIN monitored \cup {s} |->
                     (IF o \in DOMAIN monitored THEN monitored[o] ELSE {})
                       \cup (IF o = s THEN {timerId} ELSE {})]
  /\ UNCHANGED <<clocks, onBus, disk, phase, recording, timerId, timing, history>>

(* emer_daemon_start_aggregate_timer.  The client may have left already, its  *)
(* call still being in the queue.                                             *)
StartTimer(s, e) ==
  /\ Up /\ recording /\ timerId < MaxTimers
  /\ timerId' = timerId + 1
  /\ timers' = [t \in DOMAIN timers \cup {timerId} |->
                  IF t = timerId THEN NewTimer(s, e)
                                 ELSE timers[t]]
  /\ monitored' = [o \in DOMAIN monitored \cup {s} |->
                     (IF o \in DOMAIN monitored THEN monitored[o] ELSE {})
                       \cup (IF o = s THEN {timerId} ELSE {})]
  /\ UNCHANGED <<clocks, onBus, disk, phase, recording, timing, history>>

\* An error in StopTimer: the client is watched no more, whatever else it runs.
StopTimerUnwatched(t) ==
  /\ Up /\ t \in DOMAIN timers
  /\ StopTimers({t}) /\ RemoveSender(timers[t].sender) /\ RemoveTimers({t})
  /\ UNCHANGED <<clocks, onBus, schema, phase, recording, timerId, timing, worked,
                 handed, repeated, optedOut, abandoned>>

(* on_timer_stopped_cb *)
StopTimer(t) ==
  /\ Up /\ t \in DOMAIN timers
  /\ StopTimers({t})
  /\ LET s == timers[t].sender
     IN IF monitored[s] = {t} THEN RemoveSender(s)
        ELSE monitored' = [monitored EXCEPT ![s] = @ \ {t}]
  /\ RemoveTimers({t})
  /\ UNCHANGED <<clocks, onBus, schema, phase, recording, timerId, timing, worked,
                 handed, repeated, optedOut, abandoned>>

(* sender_name_vanished_cb, which the watch calls as long as there is one.    *)
SenderNameVanished(s) ==
  /\ Up /\ s \in DOMAIN monitored /\ s \notin onBus
  /\ StopTimers(monitored[s])
  /\ RemoveTimers(monitored[s]) /\ RemoveSender(s)
  /\ UNCHANGED <<clocks, onBus, schema, phase, recording, timerId, timing, worked,
                 handed, repeated, optedOut, abandoned>>

(* schedule_next_midnight_tick *)
ScheduleNextMidnightTick ==
  /\ tallyDate' = Today
  /\ midnightAt' = time + DayLength - ((time + skew) % DayLength)

MonthChanged == Period("monthly", Today) # Period("monthly", tallyDate)

(* clock_ticked_midnight_cb.  The date of the rows is the one of the last tick.*)
ClockTickedMidnight ==
  /\ Up /\ time >= midnightAt
  /\ \E daily \in SomeOf(DOMAIN timers) :
       LET rows == Stored(tally, daily, "daily", tallyDate)
       IN \E days \in Iterated(rows, RowsOf(rows, "daily", tallyDate)) :
            LET handedDays == Handing(handed, rows, days.keys)
            IN IF ~MonthChanged
               THEN /\ tally' = days.rows /\ handed' = handedDays
                    /\ repeated' = (repeated \/ days.failed)
               ELSE \E monthly \in SomeOf(DOMAIN timers) :
                      LET more == Stored(days.rows, monthly, "monthly", tallyDate)
                      IN \E months \in Iterated(more, RowsOf(more, "monthly", tallyDate)) :
                           /\ tally' = months.rows
                           /\ handed' = Handing(handedDays, more, months.keys)
                           /\ repeated' = (repeated \/ days.failed \/ months.failed)
  /\ stores' = StoresOf(DOMAIN timers)
  /\ SplitTimers
  /\ HandedLimited /\ ScheduleNextMidnightTick
  /\ UNCHANGED <<clocks, onBus, schema, phase, recording, monitored, timerId,
                 worked, optedOut, abandoned>>

-----------------------------------------------------------------------------
(* The daemon *)

(* on_permissions_changed *)
Enable ==
  /\ Up /\ ~recording
  /\ recording' = TRUE /\ optedOut' = FALSE
  /\ UNCHANGED <<clocks, onBus, disk, phase, tables, timing, worked, handed, stores,
                 repeated, abandoned>>

\* An error in NoTables: only the senders are removed.
NoSenders == monitored' = [s \in {} |-> 0] /\ UNCHANGED timers

NoTables == timers' = [t \in {} |-> 0] /\ monitored' = [s \in {} |-> 0]

(* It may be told again that recording is disabled.                           *)
Disable ==
  /\ Up
  /\ recording' = FALSE
  /\ NoTables
  /\ \/ tally' = NoRows /\ optedOut' = TRUE
     \/ "clear" \in Faults /\ UNCHANGED <<tally, optedOut>>
  /\ worked' = Nothing /\ handed' = NothingHanded /\ stores' = Nothing
  /\ repeated' = FALSE
  /\ UNCHANGED <<clocks, onBus, schema, phase, timerId, timing, abandoned>>

(* What the rows of a type hold of an event.                                  *)
Tallied(rows, type, e) ==
  SumFunction([k \in {k \in DOMAIN rows : k.type = type /\ k.event = e} |-> rows[k]])

(* emer_aggregate_tally_constructed: a database of another schema is deleted  *)
(* and made anew.                                                             *)
OpenedTally == IF schema = "other" THEN NoRows ELSE tally

(* buffer_past_aggregate_events                                               *)
BufferPastAggregateEvents(rows) ==
  \E days \in Iterated(rows, RowsBefore(rows, "daily", Today)) :
    \E months \in Iterated(days.rows, RowsBefore(days.rows, "monthly", Today)) :
      /\ tally' = months.rows
      /\ handed' = Handing(Handing(handed, rows, days.keys), days.rows, months.keys)
      /\ repeated' = (repeated \/ days.failed \/ months.failed)

(* emer_daemon_constructed                                                    *)
Start ==
  /\ phase = "down"
  /\ schema' = "current" /\ phase' = "running"
  /\ BufferPastAggregateEvents(OpenedTally)
  /\ worked' = [e \in Events |->
                  IF schema = "other"
                  THEN worked[e] - Second * Tallied(tally, "daily", e)
                  ELSE worked[e]]
  /\ HandedLimited /\ ScheduleNextMidnightTick
  /\ UNCHANGED <<clocks, onBus, recording, tables, stores, optedOut, abandoned>>

(* emer_daemon_shutdown, on a signal: the main loop ends after the sources    *)
(* that are ready by now.                                                     *)
Shutdown ==
  /\ phase = "running"
  /\ phase' = "quitting"
  /\ StopTimers(DOMAIN timers) /\ NoTables
  /\ UNCHANGED <<clocks, onBus, schema, recording, timerId, timing, worked, handed,
                 repeated, optedOut, abandoned>>

(* Timers that run when the process ends are forgotten.                       *)
Ended ==
  /\ phase' = "down"
  /\ NoTables /\ tallyDate' = 0 /\ midnightAt' = 0
  /\ worked' = [e \in Events |-> worked[e] - RunningFor(e)]
  /\ UNCHANGED <<clocks, onBus, disk, recording, timerId, handed, stores, repeated,
                 optedOut>>

Exit ==
  /\ phase = "quitting"
  /\ abandoned' = (abandoned \/ DOMAIN timers # {})
  /\ Ended

Kill ==
  /\ "kill" \in Faults /\ Up
  /\ Ended
  /\ UNCHANGED abandoned

-----------------------------------------------------------------------------
(* The outside *)

(* A midnight tick that is due is not put off until yet another day, unless   *)
(* the main loop may be late.                                                 *)
Passes(t) ==
  /\ time' = t
  /\ Up /\ time >= midnightAt /\ "late" \notin Faults
       => (t + skew) \div DayLength = Today
  /\ UNCHANGED <<skew, onBus, disk, phase, recording, tables, timing, handed, stores,
                 repeated, optedOut, abandoned>>

Tick ==
  /\ time < MaxTime
  /\ Passes(time + 1) /\ UNCHANGED asleep
  /\ worked' = [e \in Events |->
                  worked[e] + Cardinality(TimersOf(e))]

Suspend ==
  /\ \E t \in time + 1 .. MaxTime : Passes(t)
  /\ asleep' = asleep + (time' - time)
  /\ UNCHANGED worked

SetClock ==
  /\ skew' \in Skews \ {skew}
  /\ UNCHANGED <<time, asleep, onBus, disk, phase, recording, tables, timing, history>>

Leave(s) ==
  /\ s \in onBus
  /\ onBus' = onBus \ {s}
  /\ UNCHANGED <<clocks, disk, phase, recording, tables, timing, history>>

ReplaceDatabase ==
  /\ "schema" \in Faults /\ phase = "down" /\ schema = "current"
  /\ schema' = "other"
  /\ UNCHANGED <<clocks, onBus, tally, phase, recording, tables, timing, history>>

EditConfigFile ==
  /\ "edit" \in Faults /\ phase = "down"
  /\ recording' = ~recording
  /\ optedOut' = (optedOut /\ ~recording')
  /\ UNCHANGED <<clocks, onBus, disk, phase, tables, timing, worked, handed, stores,
                 repeated, abandoned>>

-----------------------------------------------------------------------------
Init ==
  /\ time = 0 /\ asleep = 0 /\ skew = 0
  /\ onBus = Senders
  /\ tally = NoRows /\ schema = "new"
  /\ phase = "down" /\ recording = TRUE
  /\ timers = [t \in {} |-> 0] /\ monitored = [s \in {} |-> 0] /\ timerId = 0
  /\ tallyDate = 0 /\ midnightAt = 0
  /\ worked = Nothing /\ handed = NothingHanded /\ stores = Nothing
  /\ repeated = FALSE /\ optedOut = FALSE /\ abandoned = FALSE

Next ==
  \/ \E s \in Senders, e \in Events : StartTimer(s, e)
  \/ \E t \in DOMAIN timers : StopTimer(t)
  \/ \E s \in Senders : SenderNameVanished(s) \/ Leave(s)
  \/ ClockTickedMidnight \/ Enable \/ Disable
  \/ Start \/ Shutdown \/ Exit \/ Kill
  \/ Tick \/ Suspend \/ SetClock \/ ReplaceDatabase \/ EditConfigFile

(* The main loop gets to every source that is ready.                          *)
Fairness ==
  /\ WF_vars(ClockTickedMidnight)
  /\ \A s \in Senders : WF_vars(SenderNameVanished(s))

Spec == Init /\ [][Next]_vars /\ Fairness

-----------------------------------------------------------------------------
(* Properties *)

Keys   == [type : Types, period : Int, event : Events]
Timers == [sender : Senders, event : Events, start : Nat]

TypeOK ==
  /\ time \in Nat /\ asleep \in 0..time /\ skew \in Int
  /\ onBus \subseteq Senders
  /\ DOMAIN tally \subseteq Keys /\ \A k \in DOMAIN tally : tally[k] \in Nat
  /\ schema \in {"new", "current", "other"}
  /\ phase \in {"down", "running", "quitting"} /\ recording \in BOOLEAN
  /\ timerId \in Nat
  /\ DOMAIN timers \subseteq 0 .. timerId - 1
  /\ \A t \in DOMAIN timers : timers[t] \in Timers /\ timers[t].start <= Monotonic
  /\ DOMAIN monitored \subseteq Senders
  /\ tallyDate \in Int /\ midnightAt \in Nat
  /\ worked \in [Events -> Int] /\ handed \in [Types \X Events -> Nat]
  /\ stores \in [Events -> Nat]
  /\ repeated \in BOOLEAN /\ optedOut \in BOOLEAN /\ abandoned \in BOOLEAN

(* The two tables agree: a sender is watched while it has timers, and these   *)
(* are the timers that run for it.  The assertions that there is a sender in  *)
(* on_timer_stopped_cb and sender_name_vanished_cb rest on it.                *)
TablesAgree ==
  /\ DOMAIN monitored = {timers[t].sender : t \in DOMAIN timers}
  /\ \A s \in DOMAIN monitored :
       monitored[s] = {t \in DOMAIN timers : timers[t].sender = s}

(* The seconds that timers ran are in the rows of a day, or were handed over  *)
(* with them, once: over midnights, suspends, stops, vanishing clients, kills *)
(* and restarts.  Less than one is lost each time a timer is stored; some are *)
(* handed over again only if rows could not be deleted.                       *)
Missing(type, e) ==
  worked[e] - RunningFor(e) - Second * (Tallied(tally, type, e) + handed[<<type, e>>])
Conserved(type) ==
  \A e \in Events : /\ Missing(type, e) <= (Second - 1) * stores[e]
                    /\ ~repeated => Missing(type, e) >= 0
DailyConserved == Conserved("daily")

(* The same of the rows of a month.                                           *)
MonthlyConserved == Conserved("monthly")

(* Once recording has been disabled and the tally was cleared, nothing comes  *)
(* into it, whichever timers, clients and midnights were on their way.        *)
NothingAfterOptOut == optedOut => tally = NoRows /\ DOMAIN timers = {}

(* No timer is running when the process ends by itself.                       *)
StoredOnShutdown == ~abandoned

(* The timers of a client that has left end for good, whatever it stopped     *)
(* itself before, and the ones that its last calls, in the queue when it left,*)
(* start afterwards, too (sender_name_vanished_cb, which is called only while *)
(* the client is watched; on_timer_stopped_cb, which ends the watch).         *)
GoneSendersStop ==
  \A s \in Senders :
    (s \notin onBus) ~> []({t \in DOMAIN timers : timers[t].sender = s} = {})

(* Rows whose day or month has passed do not stay in the tally while the      *)
(* daemon runs.                                                               *)
PastRows     == {k \in DOMAIN tally : k.period < Period(k.type, Today)}
PastIsHanded == (Up /\ PastRows # {}) ~> (~Up \/ PastRows = {})
=============================================================================
