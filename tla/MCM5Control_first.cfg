\* A START that races a confirmed jump: the channel shown.
SPECIFICATION Spec
CONSTANTS
  NUM_SENSORS = 2
  SkipJump <- MCNoSkip
  Angle <- MCAngle
  JUMP_CONFIRM_FRAMES = 2
  Commands <- MCStartOnly
  CountMax = 4
INVARIANT FirstTripShown
