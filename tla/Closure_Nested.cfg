SPECIFICATION Spec
CONSTANTS
  e1 = e1
  e2 = e2
  c1 = c1
  c2 = c2
  month = month
  quarter = quarter
  None = None
  Envelopes = {e1}
  Periods = {month, quarter}
  Overlapping <- OneOverlapping
  Closures = {c1, c2}
  PeriodOf <- MCPeriodOf
  Runs = {i1}
  Entries = {m1}
  MaxTx = 3
INVARIANTS
  TypeOK
  LockedUnlessRaced
  RestoredUnlessRaced
  
PROPERTIES
  GivenUpStays
SYMMETRY Swapped
CHECK_DEADLOCK FALSE
