\* The two receivers side by side.
SPECIFICATION Spec
CONSTANT Frames = 5
INVARIANT SameStateMachine
