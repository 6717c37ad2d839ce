SPECIFICATION SchedSpec
CONSTANTS
  NULL = NULL  m = m  a = a  b = b
  Units = {0, 1}  Lists = {0, 1}
  Threads = {m, a}  Nodes = {m, a}
  Bsp = 0  Main = m  MaxPreempt = 1  CountMod = 8
  Prio <- MCPrio
CONSTRAINT UpToEarlyWake
VIEW SchedView
INVARIANTS QueueExact OwnUnit SleepersHaveTimers
