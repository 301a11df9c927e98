SPECIFICATION Spec
CONSTANTS
  d1 = d1
  d2 = d2
  Nobody = Nobody
  Turn = Turn
  a1 = a1
  a2 = a2
  a3 = a3
  Deliveries = {d1, d2}
  Attempts = {a1, a2, a3}
  MaxFaults = 2
INVARIANTS ExecutedOnce CompletedIsDone
PROPERTIES GuardIsFreed
CHECK_DEADLOCK FALSE
