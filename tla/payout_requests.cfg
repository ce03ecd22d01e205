SPECIFICATION FairSpec
CONSTANTS
  Rows = {r1, r2}
  Ticks = {t1}
  Admins = {admin}
  References = {order}
  MaxPatches = 1
  None = None
INVARIANTS TypeOK OnePaymentPerReference
PROPERTIES PromiseKept StuckPayoutsEnd
