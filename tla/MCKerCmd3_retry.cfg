\* A SET_ID that failed with WRITE_FAIL on a virgin part, retried.
SPECIFICATION Spec
CONSTANTS
  Ids <- MCIds
  NoId <- MCNoId
  Body <- MCBody
  BodyOk <- MCBodyOk
  BodyZero = "zero"
  BodyFF = "ff"
  CrcFF = NoCrc
  BuildDefault <- MCBuildDefault
  HeaderIn <- MCHeaders
  BodyIn <- MCCal
  UserrowAtStart <- MCUserrow
  T_IDLE = 1
  T_ARM_WAIT = 1
  T_FACTORY = 1
  T_UNLOCK = 1
  ClockMod = 2
PROPERTY SetIdRetry
