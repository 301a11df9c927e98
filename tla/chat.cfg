SPECIFICATION Spec
CONSTANTS
  x1 = x1
  x2 = x2
  x3 = x3
  x4 = x4
  Runs = {x1, x2, x3, x4}
  MaxFailures = 2
  MaxCrashes = 1
INVARIANTS EnteredTreeIsGone
PROPERTIES StartsEmpty
CHECK_DEADLOCK FALSE
