\* A zero request that arrives while another is served.
SPECIFICATION Spec
CONSTANTS
  NUM_SENSORS = 2
  SkipJump <- MCNoSkip
  Angle <- MCAngle
  JUMP_CONFIRM_FRAMES = 2
  Commands <- MCZeroing
  CountMax = 2
PROPERTY ZeroServed
