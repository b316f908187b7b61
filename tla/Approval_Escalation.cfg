SPECIFICATION FairSpec
CONSTANTS
  ann = ann
  bob = bob
  cat = cat
  zoe = zoe
  None = None
  Envelopes = {e1, e2}
  Versions = {v1, v2}
  Requests = {r1, r2}
  Closures = {}
  Users <- EscUsers
  Editors <- EscEditors
  Admins <- MCAdmins
  Roles <- MCRoles
  RolesOf <- EscRolesOf
  Policies <- EscalatingPolicies
  ScanLimit = 1
PROPERTIES
  EscalationHappens
CHECK_DEADLOCK FALSE
