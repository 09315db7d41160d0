\* GET_ANGLE_COMP right after a COMMIT_CAL.
SPECIFICATION LoopSpec
CONSTANTS
  Raw <- MCRaw
  Cals <- MCCals
  NoCal = "none"
  NoAngle = NoAngle
  Silent = Silent
  PERSIST_FAIL = 1
  FAIL_MAX = 1
  COUNT_MAX = 1
  HOUSEKEEPING = 1
  START_READS = 1
  Faults <- MCFaults
  RxMax = 1
  LatchMod = 2
INVARIANT GetCompIsSent
