\* Outcomes, flags, counters, the lock and the recovery.
SPECIFICATION Spec
CONSTANTS
  Raw <- MCRaw
  Cals <- MCCals
  NoCal = "none"
  NoAngle = NoAngle
  PERSIST_FAIL = 2
  FAIL_MAX = 3
  COUNT_MAX = 2
  HOUSEKEEPING = 2
  START_READS = 2
  Faults <- MCFaults
INVARIANTS NeverFrozen ConfigKnown
PROPERTY Recovers
