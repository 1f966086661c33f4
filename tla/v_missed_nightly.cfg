SPECIFICATION StaffFairSpec
CONSTANTS
  NULL = NULL
  DayLen = 6
  Users = {u1, u2}
  Shifts <- LongOrShort
  Requests = {}
  Schedulers = {s1}
  Debuggers = {}
  Ops <- EditOps
  Changes <- AllChanges
  MaxTime = 6
  Latency = 1
  MaxFaults = 0
  IdleMinutes = 1
  IdlePeriod = 2
  NightlyTime = 5
  DisplayTz = 0
PROPERTIES
  MissedDayFlagged
