SPECIFICATION Spec
CONSTANTS
  NULL = NULL
  DayLen = 6
  Users = {u1}
  Shifts <- EditedShifts
  Requests = {r1}
  Schedulers = {s1}
  Debuggers = {d1}
  Ops <- WithEdit
  MaxTime = 6
  Latency = 1
  MaxFaults = 0
  IdleMinutes = 1
  IdlePeriod = 2
  NightlyTime = 5
  DisplayTz = 0
INVARIANTS
  ClosedWithinShift
  LatenessRecorded
