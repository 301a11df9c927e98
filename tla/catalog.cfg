SPECIFICATION CSpec
CONSTANTS
  a = a
  b = b
  Callers = {1, 2}
  Contexts = {a, b}
  MaxProbes = 2
  MaxChanges = 1
INVARIANTS CacheIsFresh GivenOwn OneProbe
PROPERTIES CallsEnd
CHECK_DEADLOCK FALSE
