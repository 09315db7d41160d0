\* Starts, stops, toggles and jumps on one channel.
SPECIFICATION Spec
CONSTANTS
  NUM_SENSORS = 1
  SkipJump <- MCNoSkip
  Angle <- MCAngle
  JUMP_CONFIRM_FRAMES = 2
  Commands <- MCStreaming
  CountMax = 4
INVARIANTS LateFrames GlitchBridged
PROPERTY StreamFlows
