SPECIFICATION Spec
CONSTANTS
  t1 = t1
  m1 = m1
  r1 = r1
  r2 = r2
  p1 = p1
  p2 = p2
  b1 = b1
  a1 = a1
  a2 = a2
  Nobody = Nobody
  Nothing = Nothing
  Threads = {t1}
  Turns = {m1}
  Replies = {r1, r2, p1, p2}
  Presses = {p1, p2}
  Batches = {b1}
  Questions = {}
  Approvals = {a1, a2}
  MaxFaults = 0
INVARIANTS ClaimIsCarried SettledIsKnown
PROPERTY AnsweredIsResumed
CHECK_DEADLOCK FALSE
