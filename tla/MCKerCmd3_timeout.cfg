\* Factory mode across a wrap of millis().
SPECIFICATION Spec
CONSTANTS
  Ids <- MCOneId
  NoId <- MCNoId
  Body <- MCBody
  BodyOk <- MCBodyOk
  BodyZero = "zero"
  BodyFF = "ff"
  CrcFF = NoCrc
  BuildDefault <- MCBuildDefault
  HeaderIn <- MCGoodHeader
  BodyIn <- MCCal
  UserrowAtStart <- MCVirginRow
  T_IDLE = 1
  T_ARM_WAIT = 2
  T_FACTORY = 2
  T_UNLOCK = 1
  ClockMod = 3
PROPERTY FactoryTimeout
