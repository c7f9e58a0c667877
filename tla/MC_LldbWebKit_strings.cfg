CONSTANTS
  MaxCapacity = 2
  Values <- MCValues
  Frames <- MCFrames
  Commands <- MCCommands
SPECIFICATION Spec
INVARIANT StringShownExactly
