SPECIFICATION BootedSpec
CONSTANTS
  NULL = NULL  m = m  a = a  b = b  pq = pq
  Units = {0, 1}  Lists = {0, 1, pq}
  Threads = {m, a, b}  Nodes = {m, a, b}
  Bsp = 0  Main = m  MaxPreempt = 0  CountMod = 8
  Prio <- NoPrio
  PendQ = pq  Recursive = TRUE  Fifo = TRUE  MaxNest = 0
CONSTRAINT UpToEarlyWake
VIEW View
INVARIANTS Exclusion OwnerKnows PendqExact
