-------------------------- MODULE EinsBoottimeSource --------------------------
(* src/daemon/eins-boottime-source.c: timeouts of the main loop that go on    *)
(* while the machine is suspended, from a timer of the kernel per source.     *)
EXTENDS Integers

CONSTANTS Sources,        \* identities of sources
          Intervals,      \* the values of interval_us
          MaxTime,        \* the runs end at this time
          Faults          \* {} or {"read"}: reading a timer may fail

ASSUME BoottimeAssumption ==
  Intervals \subseteq Nat /\ MaxTime \in Nat /\ Faults \subseteq {"read"}

VARIABLES now,            \* CLOCK_BOOTTIME
          added,          \* when a source was added
          interval,       \* its interval_us, also the period of its timer
          state,          \* "none", "armed", "disarmed" or "removed"
          consumed,       \* how many expirations have been read
          calls           \* history: how often its callback was called

vars == <<now, added, interval, state, consumed, calls>>

\* An error in Add: the interval is counted from its end.
AddBackwards(s, n) ==
  /\ state[s] = "none"
  /\ added' = [added EXCEPT ![s] = now - n]
  /\ interval' = [interval EXCEPT ![s] = n]
  /\ state' = [state EXCEPT ![s] = IF n = 0 THEN "disarmed" ELSE "armed"]
  /\ UNCHANGED <<now, consumed, calls>>

(* eins_boottimeout_add_useconds, eins_boottime_source_new_useconds: a timer  *)
(* that is set to zero is disarmed (timerfd_settime).                         *)
Add(s, n) ==
  /\ state[s] = "none"
  /\ added' = [added EXCEPT ![s] = now]
  /\ interval' = [interval EXCEPT ![s] = n]
  /\ state' = [state EXCEPT ![s] = IF n = 0 THEN "disarmed" ELSE "armed"]
  /\ UNCHANGED <<now, consumed, calls>>

AllExpirations(s) == (now - added[s]) \div interval[s]   \* an error: never reset

(* What reading the timer returns: it expires again and again.                *)
Expirations(s) == ((now - added[s]) \div interval[s]) - consumed[s]

(* eins_boottime_check *)
Ready(s) == state[s] = "armed" /\ Expirations(s) > 0

(* eins_boottime_source_dispatch: one call for all the expirations since the  *)
(* last, after which the source stays if the callback says so.                *)
Dispatch(s) ==
  /\ Ready(s)
  /\ consumed' = [consumed EXCEPT ![s] = @ + Expirations(s)]
  /\ calls' = [calls EXCEPT ![s] = @ + 1]
  /\ state' \in {state, [state EXCEPT ![s] = "removed"]}
  /\ UNCHANGED <<now, added, interval>>

(* Reading fails: the callback is never called again.                         *)
DispatchFails(s) ==
  /\ "read" \in Faults /\ Ready(s)
  /\ state' = [state EXCEPT ![s] = "removed"]
  /\ UNCHANGED <<now, added, interval, consumed, calls>>

(* g_source_remove, by whoever added it                                       *)
Remove(s) ==
  /\ state[s] \in {"armed", "disarmed"}
  /\ state' = [state EXCEPT ![s] = "removed"]
  /\ UNCHANGED <<now, added, interval, consumed, calls>>

(* Time passes, by any amount if the machine is suspended.                    *)
Pass == \E t \in now + 1 .. MaxTime :
          now' = t /\ UNCHANGED <<added, interval, state, consumed, calls>>

Init ==
  /\ now = 0
  /\ added = [s \in Sources |-> 0] /\ interval = [s \in Sources |-> 0]
  /\ state = [s \in Sources |-> "none"]
  /\ consumed = [s \in Sources |-> 0] /\ calls = [s \in Sources |-> 0]

Next ==
  \/ \E s \in Sources : (\E n \in Intervals : Add(s, n))
                          \/ Dispatch(s) \/ DispatchFails(s) \/ Remove(s)
  \/ Pass

(* The main loop dispatches every source that stays ready.                    *)
Fairness == \A s \in Sources : WF_vars(Dispatch(s))

Spec == Init /\ [][Next]_vars /\ Fairness

-----------------------------------------------------------------------------
TypeOK ==
  /\ now \in Nat
  /\ added \in [Sources -> Nat] /\ interval \in [Sources -> Nat]
  /\ state \in [Sources -> {"none", "armed", "disarmed", "removed"}]
  /\ consumed \in [Sources -> Nat] /\ calls \in [Sources -> Nat]

(* However late the main loop is, the callback is called at most once for     *)
(* each interval that has passed.                                             *)
NeverTooOften == \A s \in Sources : calls[s] * interval[s] <= now - added[s]

(* An interval of zero is over at once.                                       *)
ZeroIsReady ==
  \A s \in Sources :
    (state[s] \in {"armed", "disarmed"} /\ interval[s] = 0)
      ~> (calls[s] > 0 \/ state[s] = "removed")
=============================================================================
