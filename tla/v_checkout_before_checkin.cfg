SPECIFICATION Spec
CONSTANTS
  NULL = NULL
  DayLen = 6
  Users = {u1}
  Shifts <- OneShift
  Requests = {r1, r2}
  Schedulers = {s1}
  Debuggers = {}
  Ops <- CheckInAndBeat
  MaxTime = 4
  Latency = 1
  MaxFaults = 0
  IdleMinutes = 1
  IdlePeriod = 2
  NightlyTime = 5
  DisplayTz = 0
SYMMETRY RequestSymmetry
INVARIANTS
  CheckOutNotBeforeCheckIn
