SPECIFICATION Spec
CONSTANTS
  ann = ann
  bob = bob
  cat = cat
  zoe = zoe
  None = None
  Envelopes = {e1}
  Versions = {v1}
  Requests = {r1, r2}
  Closures = {}
  Users <- MCUsers
  Editors <- MCEditors
  Admins <- MCAdmins
  Roles <- MCRoles
  RolesOf <- MCRolesOf
  Policies <- MixedPolicies
  ScanLimit = 1
SYMMETRY Symmetric
INVARIANTS
  OneOpenRequest
  ApprovalsEarned
  ApproversEligible
  EscalatesAgain
CHECK_DEADLOCK FALSE
