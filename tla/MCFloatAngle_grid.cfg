\* Zeroings, moves and suspensions in any order.
SPECIFICATION Spec
CONSTANTS
  ker_sinq <- MCSine
  Cal <- MCCal
  Codes <- MCCodes
  Frames = 7
INVARIANTS SineBetween ExactOnGrid SteadyDrift
