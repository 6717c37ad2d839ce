SPECIFICATION FairSpec
CONSTANTS
  MaxLevel = 4  Fanout = 2  Last = 6  Root = 10  Device = 20  MaxGrants = 2
  Ranges <- MRanges
CHECK_DEADLOCK FALSE
INVARIANTS FramesExact Backed NoEmptyTable ReleaseWorks
PROPERTY Ends
