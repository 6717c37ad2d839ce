SPECIFICATION TimerFairSpec
CONSTANTS
  NoTimer = NoTimer  s1 = s1  s2 = s2  p = p  q = q
  Sleepers = {s1, s2}  Pollers = {p}  Remote = {p}  Periodic = {q}
  Second = 5  Step <- MStep  Need <- MNeed
INVARIANTS QueuedTimersOwned OnTime
PROPERTY Rings
