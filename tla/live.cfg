SPECIFICATION StaffFairSpec
CONSTANTS
  NULL = NULL
  DayLen = 6
  Users = {u1}
  Shifts <- SoundOrBroken
  Requests = {r1}
  Schedulers = {s1}
  Debuggers = {}
  Ops <- LiveOps
  Changes <- AllChanges
  MaxTime = 11
  Latency = 1
  MaxFaults = 0
  IdleMinutes = 1
  IdlePeriod = 2
  NightlyTime = 5
  DisplayTz = 0
INVARIANTS
  NothingOfTheGone
PROPERTIES
  OpenDayCloses
  MissedDayFlagged
  LifecycleUntilGone
