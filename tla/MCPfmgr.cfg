SPECIFICATION Spec
CONSTANTS
  Last = 3  Base <- MBase  Total <- MTotal  Track <- MTrack
  Item = 4  LowMemory = 4  IsaEnd = 8  Kernel <- MKernel  MaxNeed = 3  Wrap = 32
CONSTRAINT NotAstray
INVARIANTS BitmapExact FailsOnlyWhenEmpty MarksWhatItHandsOut
PROPERTY ImplementsFrames
