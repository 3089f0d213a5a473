CONSTANTS
  Senders = {s1, s2}
  Events = {e1}
  MaxTimers = 2
  MaxTime = 2
  MaxHanded = 100
  DayLength = 1
  DaysPerMonth = 2
  Second = 1
  MaxCounter = 100
  Skews <- MCRightClock
  Faults = {"store", "clear", "edit", "kill"}
SPECIFICATION Spec
INVARIANTS
  TypeOK
  TablesAgree
  NothingAfterOptOut
PROPERTIES
  GoneSendersStop
  PastIsHanded
