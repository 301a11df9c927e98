SPECIFICATION Spec
CONSTANTS
  e1 = e1
  t1 = t1
  t2 = t2
  Sweep = Sweep
  Nobody = Nobody
  Threads = {t1, t2}
  Bound = {t1}
  Edits = {e1}
  Reclaims = TRUE
  MaxFailures = 1
  MaxCrashes = 0
INVARIANTS WorkIsKept
