SPECIFICATION Spec
CONSTANTS
  NULL = NULL
  DayLen = 6
  Users = {u1, u2}
  Shifts <- OneShift
  Requests = {r1}
  Schedulers = {s1, s2}
  Debuggers = {}
  Ops <- CheckInOps
  MaxTime = 5
  Latency = 1
  MaxFaults = 1
  IdleMinutes = 1
  IdlePeriod = 2
  NightlyTime = 5
  DisplayTz = 0
SYMMETRY UserSymmetry
INVARIANTS
  CloseReportedOnce
PROPERTIES
  ArriveOnceLeaveOnce
