SPECIFICATION ScannerSpec
CONSTANTS
  Wallets = {w1}
  Transfers = {}
  FullScans = {full}
  Worker = worker
  MaxBlock = 2
  MaxBatch = 1
  FirstWarmup = 1
  ZeroWarmup = 1
  NoCursor = NoCursor
  Off = Off
PROPERTY FlagDroppedOnlyBySuccess
