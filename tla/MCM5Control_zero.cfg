\* Zero requests from the GUI and the PC on two channels.
SPECIFICATION Spec
CONSTANTS
  NUM_SENSORS = 2
  SkipJump <- MCNoSkip
  Angle <- MCAngle
  JUMP_CONFIRM_FRAMES = 2
  Commands <- MCZeroing
  CountMax = 2
PROPERTY ZeroOnlyAsked
