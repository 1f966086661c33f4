SPECIFICATION Spec
CONSTANTS
  NULL = NULL
  Offices = {o1}
  Rosters = {r1, r2}
  Users = {u1}
  Ips = {i1, i2}
  IpAdmins = {a1}
  Editors = {b1}
  Enrolments = {v1}
SYMMETRY IdSymmetry
INVARIANTS
  TypeOK
  OneDefault
PROPERTIES
  
  IpsRemovedByRequest
