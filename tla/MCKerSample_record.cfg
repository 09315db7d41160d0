\* The host's polling of short runs, long enough for the squares to saturate.
SPECIFICATION Spec
CONSTANTS
  Exps <- MCExps
  RawMod = 8
  AngMod = 16
  Scale = 2
  Corr <- MCCorr
  Cals <- MCCals
  Positions <- MCPositions
  SumD2Max = 12
  NoRecord = NoRecord
INVARIANT SumsExact
PROPERTY ResultIsOneRun
