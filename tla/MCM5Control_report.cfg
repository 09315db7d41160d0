\* A START that races a confirmed jump: the warning.
SPECIFICATION Spec
CONSTANTS
  NUM_SENSORS = 1
  SkipJump <- MCNoSkip
  Angle <- MCAngle
  JUMP_CONFIRM_FRAMES = 2
  Commands <- MCStartOnly
  CountMax = 4
INVARIANT JumpReported
