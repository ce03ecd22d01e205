SPECIFICATION Spec
CONSTANTS
  Rows = {r1}
  Ingesters = {worker}
  Cron = cron
  Retrier = retrier
  Resends = {}
  Urls = {"set"}
  MaxAttempts = 2
  Limit = 1
  MaxRestarts = 1
  None = None
INVARIANT DeliveredAsIs
