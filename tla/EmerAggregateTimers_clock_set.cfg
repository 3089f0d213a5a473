CONSTANTS
  Senders = {s1}
  Events = {e1}
  MaxTimers = 1
  MaxTime = 5
  MaxHanded = 100
  DayLength = 2
  DaysPerMonth = 2
  Second = 1
  MaxCounter = 100
  Skews <- MCSkews
  Faults = {}
SPECIFICATION Spec
PROPERTIES
  PastIsHanded
