SPECIFICATION Spec
CONSTANTS
  ann = ann
  bob = bob
  cat = cat
  zoe = zoe
  None = None
  Envelopes = {e1, e2}
  Versions = {v1, v2}
  Requests = {r1}
  Closures = {c1, c2}
  Users <- FewUsers
  Editors <- FewEditors
  Admins <- MCAdmins
  Roles <- MCRoles
  RolesOf <- FewRolesOf
  Policies <- EvidencePolicies
  ScanLimit = 1
SYMMETRY Symmetric
INVARIANTS
  TypeOK
  PointersAgree
  DraftsAreFresh
  StatusTellsWork
  LockedWhileCovered
PROPERTIES
  ResolvedStays
  FrozenUnlessEvidence
  ImplementsLedger
CHECK_DEADLOCK FALSE
