CONSTANTS
  Senders = {s1}
  Events = {e1}
  MaxTimers = 2
  MaxTime = 3
  MaxHanded = 2
  DayLength = 2
  DaysPerMonth = 1
  Second = 2
  MaxCounter = 100
  Skews <- MCSetBack
  Faults = {"schema", "kill", "iter"}
SPECIFICATION Spec
INVARIANTS
  DailyConserved
