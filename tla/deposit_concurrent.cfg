SPECIFICATION FairSpec
CONSTANTS
  s1 = s1
  Sessions = {s1}
  Transfers = {c1}
  Worker = worker
  FullScans = {fullscan}
  Rescans = {rescan}
  Instant = TRUE
  Amount <- MCAmount
  Expected <- MCExpected
  None = None
INVARIANTS TypeOK OneRowPerTransfer FailedMeansUnpaid
PROPERTIES StaleCheckoutsLapse
