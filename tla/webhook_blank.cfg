SPECIFICATION FairSpec
CONSTANTS
  Rows = {r1, r2}
  Ingesters = {}
  Cron = cron
  Retrier = retrier
  Resends = {}
  Urls = {"blank", "set"}
  MaxAttempts = 2
  Limit = 1
  MaxRestarts = 1
  None = None
PROPERTY FinalStatusIsAnnounced
