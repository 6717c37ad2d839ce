SPECIFICATION BootedSpec
CONSTANTS
  NULL = NULL  m = m  a = a  b = b
  Units = {0, 1}  Lists = {0, 1}
  Threads = {m, a, b}  Nodes = {m, a, b}
  Bsp = 0  Main = m  MaxPreempt = 0  CountMod = 8
  Prio <- NoPrio
  InitCount = 1  MaxCount = 1  Signals = FALSE
CONSTRAINT UpToEarlyWake
VIEW View
INVARIANTS PendqExact Conservation WokenWhenFree
