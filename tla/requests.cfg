SPECIFICATION Spec
CONSTANTS
  NULL = NULL
  DayLen = 6
  Users = {u1}
  Shifts <- TwoZones
  Requests = {r1, r2}
  Schedulers = {s1}
  Debuggers = {}
  Ops <- EmployeeAndAdmin
  MaxTime = 5
  Latency = 1
  MaxFaults = 0
  IdleMinutes = 1
  IdlePeriod = 2
  NightlyTime = 5
  DisplayTz = 1
SYMMETRY RequestSymmetry
INVARIANTS
  TypeOK
  DoubleTapOnce
  StatusHasEvidence
  VerificationJustified
PROPERTIES
  
  CheckedInStatusIsHuman
