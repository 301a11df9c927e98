SPECIFICATION Spec
CONSTANTS
  e1 = e1
  e2 = e2
  t1 = t1
  Sweep = Sweep
  Nobody = Nobody
  Threads = {t1}
  Bound = {t1}
  Edits = {e1, e2}
  Reclaims = TRUE
  MaxFailures = 2
  MaxCrashes = 1
INVARIANTS WorkIsKept
PROPERTIES TurnsEnd IdleIsReclaimed
