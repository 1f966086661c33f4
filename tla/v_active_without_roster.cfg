SPECIFICATION Spec
CONSTANTS
  NULL = NULL
  Emails = {e1}
  Rosters = {r1}
  Admins = {a1, a2}
  Visitors = {v1}
  DeviceCap = 1
  MaxUsers = 1
  MaxDevices = 1
SYMMETRY AdminSymmetry
INVARIANTS
  ActiveHasRoster
