SPECIFICATION SideSpec
CONSTANTS
  c1 = c1
  c2 = c2
  c3 = c3
  u1 = u1
  u2 = u2
  u3 = u3
  m1 = m1
  m2 = m2
  r1 = r1
  Calls = {c1, c2, c3}
  Users = {u1, u2, u3}
  Callers <- MCCallers
  MerchantOf <- MCMerchantOf
  SeedOf <- MCSeedOf
  PoolRows <- MCPoolRows
  Ask <- MCAsk
  LastPoolRow = 0
  NoRef = NoRef
  MaxCreateAttempts = 2
  HasCooldown = TRUE
  Nobody = Nobody
  NoRow = NoRow
  Wallets = {w1}
  Transfers <- MCTransfers
  FullScans = {full}
  Worker = worker
  MaxBlock = 2
  MaxBatch = 1
  FirstWarmup = 1
  ZeroWarmup = 1
  NoCursor = NoCursor
  Off = Off
  probe = probe
  scanner = scanner
  NumKeys = 2
  MaxPerDay = 1
  MaxPerSecond = 1
  Processes = {"api", "cron"}
  Api = "api"
  Clients = {probe, scanner}
  ProcessOf <- MCProcessOf
  Probes = {probe}
  LastDay = 2
  MaxAnswers = 1
  MaxChanges = 1
  Rows = {row}
  Ingesters = {ingester}
  Cron = cron
  Retrier = retrier
  Resends = {admin}
  Urls = {"none", "set"}
  MaxAttempts = 2
  Limit = 1
  MaxRestarts = 1
  None = None
INVARIANTS
  AssignTypeOK
  OneWalletUnlessOverlapped
  OneUserPerAddressUnlessOverlapped
  DraftsAreExclusive
  CooldownUnlessOverlapped
  ExhaustedOnlyByOthers
  ScannerTypeOK
  NoBlockSkippedBehindCursor
  CacheOutdatedOnlyByOverlap
  LimitOverrunOnlyByOverlap
  TypeOK
PROPERTIES
  AddressBookKept
  EveryCallEnds
  FlagServedOrExcused
  EveryTransferMet
  PromiseKept
  FinalStatusIsAnnounced
CHECK_DEADLOCK FALSE
