SPECIFICATION Spec
CONSTANTS
  d1 = d1
  d2 = d2
  r1 = r1
  r2 = r2
  HumanDigits = 1
  Deposits = {d1, d2}
  Received <- MCReceived
  Settlers = {s1, s2}
  Payouts = {p1}
  Gross <- MCGross
  Terms <- MCTerms
  PayoutLimits <- MCPayoutLimits
  Decimals = 0
  MaxDays = 1
  NotYet = NotYet
  NumWallets = 1
  Runs = {r1, r2}
  Kinds <- MCKinds
  TrxFees = {1, 2}
  SendCosts = {0, 1}
  SendBuffer = 1
  FunderReserve = 2
  FunderTrx = 7
  MinAmount = 0
  MaxAmount = 2
  MaxTopUps = 1
  MaxOwnFees = 1
  NoRun = NoRun
INVARIANTS
  SettlementTypeOK
  SettledTwiceOnlyByOverlap
  RowsAddUp
  MarksMatchRows
  OverdrawnOnlyByOverlap
  PreviewIsSettled
  SweepTypeOK
  ReserveKeptUnlessStale
  NoExcessTrxUnlessStale
  OneSwapRunUnlessOverlapped
  RowsTellTheTruth
PROPERTIES
  EveryRunEnds
CHECK_DEADLOCK FALSE
