SPECIFICATION StationSpec
CONSTANTS
  N_FIT = 6
  N_VAL = 6
  N_REPEAT = 3
  PAGES <- MCPages
  Identity <- MCIdentity
  UNITS <- MCUnits
  Runs = 2
INVARIANTS GradeIsTrue GoodUnitsShip
PROPERTY RecordTellsUnit
CHECK_DEADLOCK FALSE
