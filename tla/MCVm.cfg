SPECIFICATION Spec
CONSTANTS
  FreePerSlot = 2  AllocPerSlot = 2  NoPage = NoPage
  High <- MHigh  Low <- MLow  MaxGrants = 2  MaxLen = 2
CONSTRAINT NoMishap
CHECK_DEADLOCK FALSE
INVARIANTS Tiling TrackersTracked PagesExact HeldInOne
PROPERTY ImplementsFrames
