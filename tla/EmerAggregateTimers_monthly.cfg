CONSTANTS
  Senders = {s1}
  Events = {e1}
  MaxTimers = 1
  MaxTime = 4
  MaxHanded = 100
  DayLength = 2
  DaysPerMonth = 2
  Second = 1
  MaxCounter = 100
  Skews <- MCRightClock
  Faults = {}
SPECIFICATION Spec
INVARIANTS
  MonthlyConserved
