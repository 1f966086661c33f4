SPECIFICATION Spec
CONSTANTS
  NULL = NULL
  Emails = {e1}
  Rosters = {r1}
  Admins = {a1}
  Visitors = {v1, v2}
  DeviceCap = 2
  MaxUsers = 1
  MaxDevices = 3
SYMMETRY VisitorSymmetry
INVARIANTS
  DevicesWithinCap
