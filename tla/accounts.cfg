SPECIFICATION Spec
CONSTANTS
  NULL = NULL
  Emails = {e1}
  Rosters = {r1}
  Admins = {a1}
  Visitors = {v1, v2}
  DeviceCap = 1
  MaxUsers = 2
  MaxDevices = 3
SYMMETRY VisitorSymmetry
INVARIANTS
  TypeOK
  RosterFollowsStatus
  DevicesOfLiving
PROPERTIES
  RevokedForGood
