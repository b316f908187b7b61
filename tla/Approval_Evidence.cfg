SPECIFICATION Spec
CONSTANTS
  ann = ann
  bob = bob
  cat = cat
  zoe = zoe
  None = None
  Envelopes = {e1}
  Versions = {v1}
  Requests = {r1}
  Closures = {c1}
  Users <- FewUsers
  Editors <- FewEditors
  Admins <- MCAdmins
  Roles <- MCRoles
  RolesOf <- FewRolesOf
  Policies <- EvidencePolicies
  ScanLimit = 1
PROPERTIES
  FrozenWhileClosed
CHECK_DEADLOCK FALSE
