SPECIFICATION FairSpec
CONSTANTS
  b = b  a1 = a1  a2 = a2  a3 = a3  other = other  list1 = list1  e1 = e1  None = None
  Cpus = {b, a1, a2, a3}  Aps = {a1, a2, a3}  Bsp = b  Zero = b  Num = 3  Retries = 2  MAXV = 5
  Routines = {list1, other, e1}  EoiRoutines = {e1}  Boot <- BootLists  CallList = list1
  NodeCount = 2  Calls = {k1, k2, k3}  Senders = {b}  Receivers = {a1}  Drivers = {other}
INVARIANTS StackToItself CountedExact RunsOnlyInstalled CallsKept
PROPERTY CallsMade
CONSTRAINT CallsAfterStarts
CHECK_DEADLOCK FALSE
