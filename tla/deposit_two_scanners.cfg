SPECIFICATION Spec
CONSTANTS
  s1 = s1
  Sessions = {s1}
  Transfers = {c1, c2}
  Worker = worker
  FullScans = {fullscan}
  Rescans = {}
  Instant = TRUE
  Amount <- MCAmount
  Expected <- MCExpected
  None = None
PROPERTIES PaidRowsKeepTheirTransfer
