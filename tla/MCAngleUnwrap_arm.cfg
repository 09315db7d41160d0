SPECIFICATION Spec
CONSTANTS
  Min <- MCMin
  Max = 80
  Offset <- MCOffset
  Invert = TRUE
  Poses <- MCPoses
  Mounts <- MCMounts
  Step = 60
  Reach = 900
INVARIANT ShownIsTrue
PROPERTY NoFalseJump
