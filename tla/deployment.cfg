SPECIFICATION FairSpec
CONSTANTS
  aisha = aisha
  omar = omar
  Users <- People
  DemoActive = {aisha}
  DemoPending = {}
  Entries = {a1}
  Admins = {m1}
  Visitors = {v1}
  Workers = {w1}
  Seeds = {s1}
  MaxEnv = 2
  MaxCrashes = 1
INVARIANTS
  TypeOK
  AuditTextKept
  NobodyLockedOut
  DaysReadable
  PasswordTakesEffect
PROPERTIES
  WorkersComeUp
