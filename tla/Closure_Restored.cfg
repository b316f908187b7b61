SPECIFICATION Spec
CONSTANTS
  e1 = e1
  e2 = e2
  c1 = c1
  c2 = c2
  month = month
  quarter = quarter
  None = None
  Envelopes = {e1, e2}
  Periods = {month, quarter}
  Overlapping <- TwoOverlapping
  Closures = {c1, c2}
  PeriodOf <- MCPeriodOf
  Runs = {}
  Entries = {}
  MaxTx = 2
INVARIANTS
  StatusRestored
CHECK_DEADLOCK FALSE
