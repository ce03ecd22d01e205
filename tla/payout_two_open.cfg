SPECIFICATION Spec
CONSTANTS
  Rows = {r1, r2}
  Ticks = {t1}
  Admins = {}
  References = {order}
  MaxPatches = 1
  None = None
INVARIANT OneOpenPayout
