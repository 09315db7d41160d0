\* Two IDs, a virgin and a calibrated USERROW, time-outs that differ and a clock that wraps.
SPECIFICATION Spec
CONSTANTS
  Ids <- MCIds
  NoId <- MCNoId
  Body <- MCBody
  BodyOk <- MCBodyOk
  BodyZero = "zero"
  BodyFF = "ff"
  CrcFF = NoCrc
  BuildDefault <- MCBuildDefault
  HeaderIn <- MCGoodHeader
  BodyIn <- MCCal
  UserrowAtStart <- MCKnownRows
  T_IDLE = 1
  T_ARM_WAIT = 2
  T_FACTORY = 1
  T_UNLOCK = 1
  ClockMod = 3
INVARIANTS IdentityCoherent ResetKeepsOrDefaults StagingIsSession UnlockDiscipline
PROPERTIES DirtyIsCommitted CalibrationKept ReadGate WriteGuard ImplementsStore
