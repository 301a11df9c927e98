SPECIFICATION Spec
CONSTANTS
  t1 = t1
  t2 = t2
  m1 = m1
  m2 = m2
  r1 = r1
  r2 = r2
  b1 = b1
  a1 = a1
  a2 = a2
  Nobody = Nobody
  Nothing = Nothing
  Threads = {t1, t2}
  Turns = {m1, m2}
  Replies = {r1, r2}
  Presses = {}
  Batches = {b1}
  Questions = {}
  Approvals = {a1, a2}
  MaxFaults = 0
INVARIANT ClaimIsCarried
SYMMETRY Interchangeable
CHECK_DEADLOCK FALSE
