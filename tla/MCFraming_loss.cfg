\* Losses of any bytes.
SPECIFICATION Spec
CONSTANT Frames = 5
INVARIANT Resync
PROPERTY NoChimera
