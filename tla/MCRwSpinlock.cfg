SPECIFICATION FairSpec
CONSTANTS
  Cpus = {c1, c2}
  MAXV = 5
INVARIANTS ExclusionUnlessWrapped WordCounts
PROPERTY WritersLeave
CHECK_DEADLOCK FALSE
