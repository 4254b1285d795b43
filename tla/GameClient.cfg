SPECIFICATION Spec
CONSTANT MaxUnits = 5
INVARIANTS ClientTypeOK NothingIsLost PlayersEndInOrder
PROPERTIES ServerGoneIsNoticed
CHECK_DEADLOCK FALSE
