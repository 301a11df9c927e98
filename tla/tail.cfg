SPECIFICATION Spec
CONSTANTS
  MaxConns = 2
  MaxTurns = 2
  MaxWork = 1
  MaxDriven = 1
  MaxFaults = 1
INVARIANTS FiledWhole EarliestFirst ToldOnce
PROPERTIES FinalStands EndedIsFiled
CHECK_DEADLOCK FALSE
