SPECIFICATION Spec
CONSTANTS
  s1 = s1
  Sessions = {s1, s2}
  Transfers = {c1, c2}
  Worker = worker
  FullScans = {}
  Rescans = {}
  Instant = FALSE
  Amount <- MCAmount
  Expected <- MCExpected
  None = None
INVARIANTS PaidRowsAreKept
PROPERTIES PaidRowsKeepTheirTransfer LedgerKept
SYMMETRY TransferSymmetry
