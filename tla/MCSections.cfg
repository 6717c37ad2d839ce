SPECIFICATION SecSpec
CONSTANTS
  c1 = c1  c2 = c2  t1 = t1  t2 = t2
  Cpus = {c1, c2}  Threads = {t1, t2}  Home <- HomeOf
  Objects = {m}  None = None  NoLock = NoLock
  Locks <- KernelLocks
INVARIANTS NoSelfDeadlock InterruptsRestored NoDeadlock
